-------------------------------- MODULE OscSync --------------------------------
(***************************************************************************)
(* OscSyncService (osc-sync.ts) of several clients in one room, for one    *)
(* avatar parameter: collecting VRChat's changes, playing back those of    *)
(* the others, and telling VRChat's echo of these from a change of the     *)
(* user.  All tables of the service are keyed by path, so parameters do    *)
(* not touch each other.                                                   *)
(*                                                                         *)
(* An action is one callback of a client, a step of VRChat or of its user. *)
(* The server passes on at once; what it delays is in ParamRelay.          *)
(***************************************************************************)
EXTENDS Naturals, Sequences, Functions

CONSTANTS
  Clients,
  Values,
  EchoTicks,  \* OSC_ECHO_SUPPRESSION_MS, in ticks
  Window,     \* RATE_WINDOW_MS, in ticks
  Threshold,  \* RAPID_CHANGE_THRESHOLD
  MaxActs,    \* bound: acts of the users
  MaxEdits,   \* bound: edits among them
  Timely,     \* TRUE: VRChat's echo comes within OSC_ECHO_SUPPRESSION_MS
  Nil

Report == [value : Values, echo : BOOLEAN]   \* echo is history
Entry  == [value : Values, left : 0..EchoTicks]

ASSUME OscAssumption ==
  /\ EchoTicks \in Nat /\ Window \in Nat /\ Threshold \in Nat \ {0}
  /\ MaxActs \in Nat /\ MaxEdits \in Nat /\ Timely \in BOOLEAN
  /\ Nil \notin Values \cup Report \cup Entry

VARIABLES
  vrc,         \* the value in each client's VRChat
  toVrc,       \* values on their way to VRChat
  reports,     \* VRChat's messages on their way to the client
  pending,     \* pendingParams
  rapid,       \* rapidParamBuffer
  history,     \* paramUpdateHistory: number of updates by age
  suppressed,  \* suppressedParams: a value and the ticks left, or Nil
  inRoom,      \* roomCode is set
  sync,        \* what shouldApplyRemoteParam depends on besides the filter
  passes,      \* passesFilter, by the client's copy of the room's filter
  inbox,       \* values on their way from the server
  shown,       \* the value in parameterList, or Nil
  edits,       \* edits on their way from the server to the client they are for
  store,       \* the server's value, for the snapshot
  acts,        \* number of acts so far
  edited,      \* number of edits so far
  causes       \* history: why clients may differ

vars == <<vrc, toVrc, reports, pending, rapid, history, suppressed, inRoom,
          sync, passes, inbox, shown, edits, store, acts, edited, causes>>

Causes == {"crossed", "overlapped", "swallowed", "slowed", "skipped", "filtered"}

TypeOK ==
  /\ vrc \in [Clients -> Values]
  /\ toVrc \in [Clients -> Seq(Values)] /\ inbox \in [Clients -> Seq(Values)]
  /\ reports \in [Clients -> Seq(Report)]
  /\ pending \in [Clients -> Report \cup {Nil}] /\ rapid \in [Clients -> Report \cup {Nil}]
  /\ history \in [Clients -> [0..Window -> Nat]]
  /\ suppressed \in [Clients -> Entry \cup {Nil}]
  /\ inRoom \in [Clients -> BOOLEAN] /\ sync \in [Clients -> BOOLEAN]
  /\ passes \in [Clients -> BOOLEAN]
  /\ shown \in [Clients -> Values \cup {Nil}] /\ edits \in [Clients -> Seq(Values)]
  /\ store \in Values \cup {Nil}
  /\ acts \in 0..MaxActs /\ edited \in 0..MaxEdits /\ causes \subseteq Causes

NoUpdates == [age \in 0..Window |-> 0]

Init ==
  /\ \E v \in Values : vrc = [c \in Clients |-> v]
  /\ toVrc = [c \in Clients |-> <<>>] /\ inbox = [c \in Clients |-> <<>>]
  /\ reports = [c \in Clients |-> <<>>]
  /\ pending = [c \in Clients |-> Nil] /\ rapid = [c \in Clients |-> Nil]
  /\ history = [c \in Clients |-> NoUpdates]
  /\ suppressed = [c \in Clients |-> Nil]
  /\ shown = [c \in Clients |-> Nil] /\ edits = [c \in Clients |-> <<>>]
  /\ inRoom = [c \in Clients |-> TRUE] /\ sync = [c \in Clients |-> TRUE]
  /\ passes = [c \in Clients |-> TRUE]
  /\ store = Nil /\ acts = 0 /\ edited = 0 /\ causes = {}

-----------------------------------------------------------------------------
(* What is on its way to and from a client's VRChat.                       *)

\* A change of c that the room has not got yet.
Leaving(c) == reports[c] # <<>> \/ pending[c] # Nil \/ rapid[c] # Nil

\* A change of the others that c's VRChat has not got yet.
Arriving(c) == inbox[c] # <<>> \/ edits[c] # <<>> \/ toVrc[c] # <<>>

Quiet == \A c \in Clients : ~ Leaving(c) /\ ~ Arriving(c)

\* VRChat still has to echo a value that c has played.
EchoDue(c) == toVrc[c] # <<>> \/ \E i \in DOMAIN reports[c] : reports[c][i].echo

Why(cause, cond) == IF cond THEN {cause} ELSE {}

-----------------------------------------------------------------------------
(* Users.                                                                  *)

\* The user changes the parameter in VRChat.
Change(c, v) ==
  /\ acts < MaxActs /\ acts' = acts + 1
  /\ v # vrc[c]
  /\ vrc' = [vrc EXCEPT ![c] = v]
  /\ reports' = [reports EXCEPT ![c] = Append(@, [value |-> v, echo |-> FALSE])]
  /\ causes' = causes \cup Why("crossed", Arriving(c))
  /\ UNCHANGED <<toVrc, pending, rapid, history, suppressed, inRoom, sync, passes, inbox, shown,
                 edits, store, edited>>

\* The user changes what the client plays back.
Toggle(c) ==
  /\ acts < MaxActs /\ acts' = acts + 1
  /\ sync' = [sync EXCEPT ![c] = ~ @]
  /\ UNCHANGED <<vrc, toVrc, reports, pending, rapid, history, suppressed, inRoom, passes, inbox,
                 shown, edits, store, edited, causes>>

\* updateParameterList: what the filter blocks is not listed.
updateParameterList(c, pass, v) == shown' = [shown EXCEPT ![c] = IF pass THEN v ELSE Nil]

Unlist(c) == shown' = [shown EXCEPT ![c] = Nil]

\* The client learns of another filter of the room, at any time after the owner
\* has chosen it.
applyRoomSettingsUpdated(c) ==
  /\ inRoom[c]
  /\ acts < MaxActs /\ acts' = acts + 1
  /\ passes' = [passes EXCEPT ![c] = ~ @]
  /\ updateParameterList(c, ~ passes[c], shown[c])
  /\ UNCHANGED <<vrc, toVrc, reports, pending, rapid, history, suppressed, inRoom, sync, inbox,
                 edits, store, edited, causes>>

\* applySelfAvatarChange: what is played back depends on the avatars.
AvatarChange(c) ==
  /\ acts < MaxActs /\ acts' = acts + 1
  /\ Unlist(c)
  /\ \E on \in BOOLEAN : sync' = [sync EXCEPT ![c] = on]
  /\ UNCHANGED <<vrc, toVrc, reports, pending, rapid, history, suppressed, inRoom, passes, inbox,
                 edits, store, edited, causes>>

PlayKeepingFirst(c, played) ==
  /\ toVrc' = [toVrc EXCEPT ![c] = @ \o played]
  /\ suppressed' = [suppressed EXCEPT ![c] =
       IF played = <<>> \/ @ # Nil THEN @ ELSE [value |-> played[Len(played)], left |-> EchoTicks]]

\* sendParamToOsc
Play(c, played) ==
  /\ toVrc' = [toVrc EXCEPT ![c] = @ \o played]
  /\ suppressed' = [suppressed EXCEPT ![c] =
       IF played = <<>> THEN @ ELSE [value |-> played[Len(played)], left |-> EchoTicks]]

\* shouldApplyRemoteParam
shouldApplyRemoteParam(c) == sync[c] /\ passes[c]

\* Joining: applyRoomJoined with the room's filter, and applySnapshot.
Join(c) ==
  /\ ~ inRoom[c]
  /\ acts < MaxActs /\ acts' = acts + 1
  /\ inRoom' = [inRoom EXCEPT ![c] = TRUE]
  /\ \E on, pass \in BOOLEAN :
       LET played == IF store # Nil /\ on /\ pass THEN <<store>> ELSE <<>>
       IN /\ sync' = [sync EXCEPT ![c] = on]
          /\ passes' = [passes EXCEPT ![c] = pass]
          /\ Play(c, played)
          /\ updateParameterList(c, pass, store)
          /\ causes' = causes \cup Why("skipped", store # Nil /\ played = <<>>)
                              \cup Why("crossed", Leaving(c))
                              \cup Why("overlapped", played # <<>> /\ EchoDue(c))
  /\ UNCHANGED <<vrc, reports, pending, rapid, history, inbox, edits, store, edited>>

\* Leaving: clearRoomState forgets the filter.  The last one to leave takes the
\* server's values along.
Leave(c) ==
  /\ inRoom[c]
  /\ acts < MaxActs /\ acts' = acts + 1
  /\ inRoom' = [inRoom EXCEPT ![c] = FALSE]
  /\ passes' = [passes EXCEPT ![c] = TRUE]
  /\ inbox' = [inbox EXCEPT ![c] = <<>>]
  /\ Unlist(c)
  /\ store' = IF \E d \in Clients : inRoom'[d] THEN store ELSE Nil
  /\ UNCHANGED <<vrc, toVrc, reports, pending, rapid, history, suppressed, sync, edits, edited, causes>>

\* handleRemoteParamEdit: the server passes an edit on to the room.
handleRemoteParamEdit(d, v) ==
  edits' = IF inRoom[d] THEN [edits EXCEPT ![d] = Append(@, v)] ELSE edits

\* sendRemoteParamEdit
sendRemoteParamEdit(c, d, v) ==
  IF inRoom[c] THEN handleRemoteParamEdit(d, v) ELSE UNCHANGED edits

\* editParam: the user of c edits a value of d's.  One of c's own is played at
\* once if local playback is on (it is when sync is), and again when it returns.
Edit(c, d, v) ==
  /\ inRoom[c]
  /\ acts < MaxActs /\ acts' = acts + 1
  /\ edited < MaxEdits /\ edited' = edited + 1
  /\ \E now \in BOOLEAN :
       /\ now => c = d
       /\ c = d /\ sync[c] => now
       /\ Play(c, IF now THEN <<v>> ELSE <<>>)
       /\ causes' = causes \cup Why("overlapped", now /\ EchoDue(c))
  /\ sendRemoteParamEdit(c, d, v)
  /\ UNCHANGED <<vrc, reports, pending, rapid, history, inRoom, sync, passes, inbox, shown, store>>

-----------------------------------------------------------------------------
(* VRChat and time.                                                        *)

\* VRChat takes a value.  It reports changes only.
Take(c) ==
  /\ toVrc[c] # <<>>
  /\ LET v == Head(toVrc[c])
     IN /\ vrc' = [vrc EXCEPT ![c] = v]
        /\ reports' = IF v = vrc[c] THEN reports
                      ELSE [reports EXCEPT ![c] = Append(@, [value |-> v, echo |-> TRUE])]
  /\ toVrc' = [toVrc EXCEPT ![c] = Tail(@)]
  /\ UNCHANGED <<pending, rapid, history, suppressed, inRoom, sync, passes, inbox, shown, edits,
                 store, acts, edited, causes>>

Aged(h) == [age \in 0..Window |-> IF age = 0 THEN 0 ELSE h[age - 1]]

Tick ==
  /\ Timely => \A c \in Clients : EchoDue(c) => suppressed[c].left > 0
  /\ \E c \in Clients : suppressed[c] # Nil \/ history[c] # NoUpdates
  /\ suppressed' = [c \in Clients |->
       IF suppressed[c] = Nil \/ suppressed[c].left = 0 THEN Nil
       ELSE [value |-> suppressed[c].value, left |-> suppressed[c].left - 1]]
  /\ history' = [c \in Clients |-> Aged(history[c])]
  /\ UNCHANGED <<vrc, toVrc, reports, pending, rapid, inRoom, sync, passes, inbox, shown, edits, store, acts,
                 edited, causes>>

-----------------------------------------------------------------------------
(* The service.                                                            *)

IsEchoOfLater(c, v) == suppressed[c] # Nil /\ suppressed[c].left > 0 /\ suppressed[c].value = v

\* shouldSuppressLocalEcho
IsEcho(c, v) == suppressed[c] # Nil /\ suppressed[c].value = v

\* handleOscMessage
handleOscMessage(c) ==
  /\ reports[c] # <<>>
  /\ LET r == Head(reports[c])
     IN IF IsEcho(c, r.value)
        THEN /\ UNCHANGED pending
             /\ causes' = causes \cup Why("swallowed", ~ r.echo)
        ELSE /\ pending' = [pending EXCEPT ![c] = r]
             /\ UNCHANGED causes
  /\ reports' = [reports EXCEPT ![c] = Tail(@)]
  /\ UNCHANGED <<vrc, toVrc, rapid, history, suppressed, inRoom, sync, passes, inbox, shown, edits,
                 store, acts, edited>>

applyParamBatchIfPlayed(c) ==
  /\ inbox[c] # <<>>
  /\ inbox' = [inbox EXCEPT ![c] = Tail(@)]
  /\ IF shouldApplyRemoteParam(c) THEN updateParameterList(c, passes[c], Head(inbox[c])) ELSE UNCHANGED shown

\* applyParamBatch
applyParamBatch(c) ==
  /\ inbox[c] # <<>>
  /\ inbox' = [inbox EXCEPT ![c] = Tail(@)]
  /\ updateParameterList(c, passes[c], Head(inbox[c]))

\* applyRemoteBatch
applyRemoteBatch(c) ==
  /\ applyParamBatch(c)
  /\ Play(c, IF shouldApplyRemoteParam(c) THEN <<Head(inbox[c])>> ELSE <<>>)
  /\ causes' = causes \cup IF shouldApplyRemoteParam(c) THEN Why("overlapped", EchoDue(c))
                                                      ELSE {"skipped"}
  /\ UNCHANGED <<vrc, reports, pending, rapid, history, inRoom, sync, passes, edits, store, acts, edited>>

\* onRemoteParamEdit
onRemoteParamEdit(c) ==
  /\ edits[c] # <<>>
  /\ edits' = [edits EXCEPT ![c] = Tail(@)]
  /\ Play(c, <<Head(edits[c])>>)
  /\ causes' = causes \cup Why("overlapped", EchoDue(c))
  /\ UNCHANGED <<vrc, reports, pending, rapid, history, inRoom, sync, passes, inbox, shown, store, acts, edited>>

Others(c) == {d \in Clients \ {c} : inRoom[d]}

\* applyLocalParamBatch
applyLocalParamBatch(c, v) == updateParameterList(c, passes[c], v)

\* sendParamBatch; the server stores the value and passes it on.
sendParamBatch(c, v) ==
  /\ applyLocalParamBatch(c, v)
  /\ store' = v
  /\ inbox' = [d \in Clients |-> IF d \in Others(c) THEN Append(inbox[d], v) ELSE inbox[d]]

Sends(c) == inRoom[c] /\ passes[c]

\* onLocalParamBatch: what the filter blocks is not sent.
onLocalParamBatch(c, v) ==
  IF Sends(c) THEN sendParamBatch(c, v) ELSE UNCHANGED <<store, inbox, shown>>

Crossing(c) == Sends(c) /\ \E d \in Others(c) : Leaving(d)

\* Why the clients may differ when c has sent a change or has not.
Sending(c) == Why("crossed", Crossing(c)) \cup Why("filtered", inRoom[c] /\ ~ passes[c])

\* Counts beyond Threshold make no difference.
Recorded(h) == [h EXCEPT ![0] = IF @ < Threshold THEN @ + 1 ELSE @]

\* isRapidParam
IsRapid(h) == FoldFunction(LAMBDA n, m : n + m, 0, h) >= Threshold

flushPendingKeepingFirst(c) ==
  /\ pending[c] # Nil
  /\ pending' = [pending EXCEPT ![c] = Nil]
  /\ LET h == Recorded(history[c])
     IN /\ history' = [history EXCEPT ![c] = h]
        /\ IF IsRapid(h)
           THEN /\ rapid' = [rapid EXCEPT ![c] = IF @ = Nil THEN pending[c] ELSE @]
                /\ UNCHANGED <<store, inbox, shown, causes>>
           ELSE /\ onLocalParamBatch(c, pending[c].value)
                /\ causes' = causes \cup Why("slowed", rapid[c] # Nil) \cup Sending(c)
                /\ UNCHANGED rapid
  /\ UNCHANGED <<vrc, toVrc, reports, suppressed, inRoom, sync, passes, edits, acts, edited>>

\* flushPendingParams
flushPendingParams(c) ==
  /\ pending[c] # Nil
  /\ pending' = [pending EXCEPT ![c] = Nil]
  /\ LET h == Recorded(history[c])
     IN /\ history' = [history EXCEPT ![c] = h]
        /\ IF IsRapid(h)
           THEN /\ rapid' = [rapid EXCEPT ![c] = pending[c]]
                /\ UNCHANGED <<store, inbox, shown, causes>>
           ELSE /\ onLocalParamBatch(c, pending[c].value)
                /\ causes' = causes \cup Why("slowed", rapid[c] # Nil) \cup Sending(c)
                /\ UNCHANGED rapid
  /\ UNCHANGED <<vrc, toVrc, reports, suppressed, inRoom, sync, passes, edits, acts, edited>>

\* flushRapidParams
flushRapidParams(c) ==
  /\ rapid[c] # Nil
  /\ rapid' = [rapid EXCEPT ![c] = Nil]
  /\ onLocalParamBatch(c, rapid[c].value)
  /\ causes' = causes \cup Sending(c)
  /\ UNCHANGED <<vrc, toVrc, reports, pending, history, suppressed, inRoom, sync, passes, edits, acts, edited>>

\* sendAllParams: what the list shows and the filter lets through, past the timers.
sendAllParams(c) ==
  /\ Sends(c) /\ shown[c] # Nil
  /\ acts < MaxActs /\ acts' = acts + 1
  /\ sendParamBatch(c, shown[c])
  /\ causes' = causes \cup Why("crossed", inbox[c] # <<>> \/ Crossing(c))
  /\ UNCHANGED <<vrc, toVrc, reports, pending, rapid, history, suppressed, inRoom, sync, passes, edits, edited>>

-----------------------------------------------------------------------------

Service(c) ==
  \/ handleOscMessage(c) \/ applyRemoteBatch(c) \/ onRemoteParamEdit(c)
  \/ flushPendingParams(c) \/ flushRapidParams(c)

User(c) ==
  \/ \E v \in Values : Change(c, v) \/ \E d \in Clients : Edit(c, d, v)
  \/ Toggle(c) \/ applyRoomSettingsUpdated(c) \/ AvatarChange(c) \/ Join(c) \/ Leave(c) \/ sendAllParams(c)

Next == Tick \/ \E c \in Clients : User(c) \/ Take(c) \/ Service(c)

Fairness ==
  \A c \in Clients :
    /\ WF_vars(Take(c)) /\ WF_vars(handleOscMessage(c)) /\ WF_vars(applyRemoteBatch(c))
    /\ WF_vars(onRemoteParamEdit(c))
    /\ WF_vars(flushPendingParams(c)) /\ WF_vars(flushRapidParams(c))

Spec == Init /\ [][Next]_vars /\ Fairness

-----------------------------------------------------------------------------
(* Properties.                                                             *)

\* Changes do not go round and round: when the users stop, so do the messages,
\* unless values overlapped in some client (an echo may then be sent on, and
\* with it the next may overlap, for ever).
Settles == <>("overlapped" \in causes) \/ <>[]Quiet

\* An echo is taken for a change of the user only if another value was played
\* before it came.
EchoesStay ==
  \A c \in Clients : \A r \in {pending[c], rapid[c]} \ {Nil} : r.echo => "overlapped" \in causes

\* When nothing is on its way, the VRChat of every client in the room has the
\* server's value, unless one of six causes has kept them apart: changes crossed,
\* played values overlapped, a change was taken for an echo, a rapid value came
\* after a newer one, a value was not played back, or the filter of the room let
\* a change not be sent (onLocalParamBatch).
Agreement ==
  Quiet /\ causes = {} /\ edited = 0 /\ store # Nil => \A c \in Clients : inRoom[c] => vrc[c] = store

\* A client that has taken what the server sent lists the server's value, played
\* back or not, or nothing; what it sends with sendAllParams is not out of date.
ListIsCurrent ==
  causes \cap {"crossed", "overlapped"} = {} =>
    \A c \in Clients : inRoom[c] /\ inbox[c] = <<>> => shown[c] \in {Nil, store}
=============================================================================

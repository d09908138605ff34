---------------------------- MODULE OscSync_proofs ----------------------------
(***************************************************************************)
(* For any number of clients and values: an echo is sent on only where     *)
(* played values overlapped; the list a client shows is current unless     *)
(* changes crossed or values overlapped; and without any of the causes the *)
(* clients agree when nothing is on its way.                               *)
(***************************************************************************)
EXTENDS OscSync, SequenceTheorems, TLAPS

\* The part of the types the invariant needs.
Typed ==
  /\ vrc \in [Clients -> Values]
  /\ toVrc \in [Clients -> Seq(Values)] /\ inbox \in [Clients -> Seq(Values)]
  /\ reports \in [Clients -> Seq(Report)]
  /\ pending \in [Clients -> Report \cup {Nil}] /\ rapid \in [Clients -> Report \cup {Nil}]
  /\ suppressed \in [Clients -> Entry \cup {Nil}]
  /\ shown \in [Clients -> Values \cup {Nil}] /\ edits \in [Clients -> Seq(Values)]
  /\ store \in Values \cup {Nil}

\* At most one echo is due in c, and it is of the value c remembers.
OneEcho(c) ==
  /\ toVrc[c] # <<>> =>
       /\ Len(toVrc[c]) = 1
       /\ suppressed[c] # Nil /\ suppressed[c].value = toVrc[c][1]
  /\ \A i \in 1..Len(reports[c]) : reports[c][i].echo =>
       /\ toVrc[c] = <<>>
       /\ suppressed[c] # Nil /\ suppressed[c].value = reports[c][i].value
       /\ \A j \in 1..Len(reports[c]) : reports[c][j].echo => i = j

\* Nothing that is to be sent is an echo.
OwnOnly(c) ==
  /\ pending[c] # Nil => ~ pending[c].echo
  /\ rapid[c] # Nil => ~ rapid[c].echo

Inv == Typed /\ ("overlapped" \in causes \/ \A c \in Clients : OneEcho(c) /\ OwnOnly(c))

-----------------------------------------------------------------------------

\* What is due, without DOMAIN.
LEMMA DueEcho ==
  ASSUME Typed, NEW c \in Clients
  PROVE  EchoDue(c) <=> toVrc[c] # <<>> \/ \E i \in 1..Len(reports[c]) : reports[c][i].echo
BY DEF EchoDue, Typed

\* Playing values keeps the types.
LEMMA PlayTyped ==
  ASSUME Typed, NEW c \in Clients, NEW s \in Seq(Values), Play(c, s)
  PROVE  toVrc' \in [Clients -> Seq(Values)] /\ suppressed' \in [Clients -> Entry \cup {Nil}]
<1>1. toVrc[c] \o s \in Seq(Values)
  BY DEF Typed
<1>2. s # <<>> => [value |-> s[Len(s)], left |-> EchoTicks] \in Entry
  BY OscAssumption DEF Entry
<1> QED
  BY <1>1, <1>2 DEF Play, Typed

\* Playing one value where no echo is due.
LEMMA PlayOne ==
  ASSUME Typed, NEW c \in Clients, NEW v \in Values, Play(c, <<v>>), ~ EchoDue(c),
         reports' = reports, \A d \in Clients : OneEcho(d)
  PROVE  \A d \in Clients : OneEcho(d)'
<1>1. toVrc[c] = <<>> /\ \A i \in 1..Len(reports[c]) : ~ reports[c][i].echo
  BY DueEcho
<1>2. <<>> \o <<v>> = <<v>> /\ Len(<<v>>) = 1 /\ <<v>>[1] = v /\ <<v>> # <<>>
  OBVIOUS
<1>3. toVrc'[c] = <<v>>
  BY <1>1, <1>2 DEF Play, Typed
<1>4. suppressed'[c] = [value |-> v, left |-> EchoTicks]
  BY <1>2 DEF Play, Typed
<1>5. [value |-> v, left |-> EchoTicks] \in Entry
  BY OscAssumption DEF Entry
<1>6. suppressed'[c] # Nil /\ suppressed'[c].value = v
  BY <1>4, <1>5, OscAssumption
<1>7. \A d \in Clients \ {c} : toVrc'[d] = toVrc[d] /\ suppressed'[d] = suppressed[d]
  BY DEF Play, Typed
<1>8. OneEcho(c)'
  BY <1>1, <1>2, <1>3, <1>6 DEF OneEcho
<1>9. \A d \in Clients \ {c} : OneEcho(d)'
  BY <1>7 DEF OneEcho
<1> QED
  BY <1>8, <1>9

\* Playing nothing.
LEMMA PlayNone ==
  ASSUME Typed, NEW c \in Clients, Play(c, <<>>)
  PROVE  toVrc' = toVrc /\ suppressed' = suppressed
<1>1. toVrc[c] \o <<>> = toVrc[c]
  BY DEF Typed
<1> QED
  BY <1>1 DEF Play, Typed

-----------------------------------------------------------------------------

LEMMA InitInv == Init => Inv
<1> SUFFICES ASSUME Init PROVE Inv
  OBVIOUS
<1>1. Typed
  BY DEF Init, Typed
<1>2. \A c \in Clients : toVrc[c] = <<>> /\ reports[c] = <<>> /\ pending[c] = Nil /\ rapid[c] = Nil
  BY DEF Init
<1>3. \A c \in Clients : OneEcho(c)
  BY <1>2 DEF OneEcho
<1>4. \A c \in Clients : OwnOnly(c)
  BY <1>2 DEF OwnOnly
<1> QED
  BY <1>1, <1>3, <1>4 DEF Inv

\* A report is added at the end.
LEMMA Appended ==
  ASSUME NEW s \in Seq(Report), NEW r \in Report
  PROVE  /\ Append(s, r) \in Seq(Report) /\ Len(Append(s, r)) = Len(s) + 1
         /\ Append(s, r)[Len(s) + 1] = r
         /\ \A i \in 1..Len(s) : Append(s, r)[i] = s[i]
OBVIOUS

LEMMA ChangeInv ==
  ASSUME Inv, NEW c \in Clients, NEW v \in Values, Change(c, v)
  PROVE  Inv'
<1> DEFINE r == [value |-> v, echo |-> FALSE]
<1>1. r \in Report /\ r.echo = FALSE
  BY DEF Report
<1>2. reports[c] \in Seq(Report) /\ reports'[c] = Append(reports[c], r)
  BY DEF Inv, Typed, Change
<1>3. \A d \in Clients \ {c} : reports'[d] = reports[d]
  BY DEF Inv, Typed, Change
<1> HIDE DEF r
<1>4. /\ reports'[c] \in Seq(Report) /\ Len(reports'[c]) = Len(reports[c]) + 1
      /\ reports'[c][Len(reports[c]) + 1] = r
      /\ \A i \in 1..Len(reports[c]) : reports'[c][i] = reports[c][i]
  BY <1>1, <1>2, Appended
<1>5. UNCHANGED <<toVrc, pending, rapid, suppressed, inbox, shown, edits, store>>
  BY DEF Change
<1>6. Typed'
  <2>1. reports' \in [Clients -> Seq(Report)]
    BY <1>4 DEF Inv, Typed, Change
  <2>2. vrc' \in [Clients -> Values]
    BY DEF Inv, Typed, Change
  <2> QED
    BY <1>5, <2>1, <2>2 DEF Inv, Typed
<1>7. "overlapped" \in causes => "overlapped" \in causes'
  BY DEF Change
<1>8. ASSUME \A d \in Clients : OneEcho(d) PROVE \A d \in Clients : OneEcho(d)'
  <2>1. OneEcho(c)'
    <3>1. \A i \in 1..Len(reports'[c]) : reports'[c][i].echo =>
            i \in 1..Len(reports[c]) /\ reports'[c][i] = reports[c][i]
      BY <1>1, <1>2, <1>4
    <3> QED
      BY <1>5, <1>8, <3>1 DEF OneEcho
  <2>2. \A d \in Clients \ {c} : OneEcho(d)'
    BY <1>3, <1>5, <1>8 DEF OneEcho
  <2> QED
    BY <2>1, <2>2
<1>9. (\A d \in Clients : OwnOnly(d)) => \A d \in Clients : OwnOnly(d)'
  BY <1>5 DEF OwnOnly
<1> QED
  BY <1>6, <1>7, <1>8, <1>9 DEF Inv

\* Steps that leave VRChat and its messages alone.
LEMMA QuietInv ==
  ASSUME Inv, Typed', UNCHANGED <<toVrc, reports, pending, rapid, suppressed>>, causes \subseteq causes'
  PROVE  Inv'
<1>1. \A c \in Clients : OneEcho(c) => OneEcho(c)'
  BY DEF OneEcho
<1>2. \A c \in Clients : OwnOnly(c) => OwnOnly(c)'
  BY DEF OwnOnly
<1> QED
  BY <1>1, <1>2 DEF Inv

\* Steps that play at most one value.
LEMMA PlayInv ==
  ASSUME Inv, NEW c \in Clients, NEW s \in Seq(Values), Play(c, s),
         s = <<>> \/ \E v \in Values : s = <<v>>,
         UNCHANGED <<vrc, reports, pending, rapid>>,
         inbox' \in [Clients -> Seq(Values)], store' \in Values \cup {Nil},
         shown' \in [Clients -> Values \cup {Nil}], edits' \in [Clients -> Seq(Values)],
         causes \subseteq causes', s # <<>> /\ EchoDue(c) => "overlapped" \in causes'
  PROVE  Inv'
<1>1. Typed'
  BY PlayTyped DEF Inv, Typed
<1>2. CASE s = <<>>
  <2>1. UNCHANGED <<toVrc, suppressed>>
    BY <1>2, PlayNone DEF Inv
  <2> QED
    BY <1>1, <2>1, QuietInv
<1>3. CASE s # <<>> /\ ~ EchoDue(c)
  <2>1. PICK v \in Values : s = <<v>>
    BY <1>3
  <2>2. (\A d \in Clients : OneEcho(d)) => \A d \in Clients : OneEcho(d)'
    BY <1>3, <2>1, PlayOne DEF Inv
  <2>3. (\A d \in Clients : OwnOnly(d)) => \A d \in Clients : OwnOnly(d)'
    BY DEF OwnOnly
  <2> QED
    BY <1>1, <2>2, <2>3 DEF Inv
<1>4. CASE s # <<>> /\ EchoDue(c)
  BY <1>1, <1>4 DEF Inv
<1> QED
  BY <1>2, <1>3, <1>4

LEMMA JoinInv ==
  ASSUME Inv, NEW c \in Clients, Join(c)
  PROVE  Inv'
<1>1. PICK on \in BOOLEAN, pass \in BOOLEAN, s \in {<<>>, <<store>>} :
        /\ s = IF store # Nil /\ on /\ pass THEN <<store>> ELSE <<>>
        /\ Play(c, s)
        /\ updateParameterList(c, pass, store)
        /\ causes' = causes \cup Why("skipped", store # Nil /\ s = <<>>)
                            \cup Why("crossed", Leaving(c))
                            \cup Why("overlapped", s # <<>> /\ EchoDue(c))
  BY DEF Join
<1>2. s \in Seq(Values) /\ (s = <<>> \/ \E v \in Values : s = <<v>>)
  BY <1>1 DEF Inv, Typed
<1>3. causes \subseteq causes' /\ (s # <<>> /\ EchoDue(c) => "overlapped" \in causes')
  BY <1>1 DEF Why
<1>4. UNCHANGED <<vrc, reports, pending, rapid, inbox, edits, store>>
  BY DEF Join
<1>5. shown' \in [Clients -> Values \cup {Nil}]
  BY <1>1 DEF updateParameterList, Inv, Typed
<1> QED
  BY <1>1, <1>2, <1>3, <1>4, <1>5, PlayInv DEF Inv, Typed

LEMMA EditInv ==
  ASSUME Inv, NEW c \in Clients, NEW d \in Clients, NEW v \in Values, Edit(c, d, v)
  PROVE  Inv'
<1>1. PICK now \in BOOLEAN :
        /\ Play(c, IF now THEN <<v>> ELSE <<>>)
        /\ causes' = causes \cup Why("overlapped", now /\ EchoDue(c))
  BY DEF Edit
<1>2. PICK s : s = (IF now THEN <<v>> ELSE <<>>) /\ Play(c, s)
  BY <1>1
<1>3. s \in Seq(Values) /\ (s = <<>> \/ \E w \in Values : s = <<w>>) /\ (s # <<>> => now)
  BY <1>2
<1>4. causes \subseteq causes' /\ (s # <<>> /\ EchoDue(c) => "overlapped" \in causes')
  BY <1>1, <1>3 DEF Why
<1>5. UNCHANGED <<vrc, reports, pending, rapid, inbox, shown, store>>
  BY DEF Edit
<1>6. edits' \in [Clients -> Seq(Values)]
  <2>1. Append(edits[d], v) \in Seq(Values)
    BY DEF Inv, Typed
  <2> QED
    BY <2>1 DEF Edit, sendRemoteParamEdit, handleRemoteParamEdit, Inv, Typed
<1> QED
  BY <1>2, <1>3, <1>4, <1>5, <1>6, PlayInv DEF Inv, Typed

LEMMA ApplyInv ==
  ASSUME Inv, NEW c \in Clients, applyRemoteBatch(c)
  PROVE  Inv'
<1>1. PICK s : s = (IF shouldApplyRemoteParam(c) THEN <<Head(inbox[c])>> ELSE <<>>) /\ Play(c, s)
  BY DEF applyRemoteBatch
<1>2. inbox[c] \in Seq(Values) /\ inbox[c] # <<>>
  BY DEF applyRemoteBatch, applyParamBatch, Inv, Typed
<1>3. Head(inbox[c]) \in Values /\ Tail(inbox[c]) \in Seq(Values)
  BY <1>2
<1>4. s \in Seq(Values) /\ (s = <<>> \/ \E v \in Values : s = <<v>>)
  BY <1>1, <1>3
<1>5. causes \subseteq causes' /\ (s # <<>> /\ EchoDue(c) => "overlapped" \in causes')
  BY <1>1 DEF applyRemoteBatch, Why
<1>6. UNCHANGED <<vrc, reports, pending, rapid, edits, store>>
  BY DEF applyRemoteBatch
<1>7. inbox' \in [Clients -> Seq(Values)] /\ shown' \in [Clients -> Values \cup {Nil}]
  BY <1>3 DEF applyRemoteBatch, applyParamBatch, updateParameterList, Inv, Typed
<1> QED
  BY <1>1, <1>4, <1>5, <1>6, <1>7, PlayInv DEF Inv, Typed

LEMMA RemoteEditInv ==
  ASSUME Inv, NEW c \in Clients, onRemoteParamEdit(c)
  PROVE  Inv'
<1>1. PICK s : s = <<Head(edits[c])>> /\ Play(c, s)
  BY DEF onRemoteParamEdit
<1>2. edits[c] \in Seq(Values) /\ edits[c] # <<>>
  BY DEF onRemoteParamEdit, Inv, Typed
<1>3. Head(edits[c]) \in Values /\ Tail(edits[c]) \in Seq(Values)
  BY <1>2
<1>4. s \in Seq(Values) /\ \E v \in Values : s = <<v>>
  BY <1>1, <1>3
<1>5. causes \subseteq causes' /\ (EchoDue(c) => "overlapped" \in causes')
  BY DEF onRemoteParamEdit, Why
<1>6. UNCHANGED <<vrc, reports, pending, rapid, inbox, shown, store>>
  BY DEF onRemoteParamEdit
<1>7. edits' \in [Clients -> Seq(Values)]
  BY <1>3 DEF onRemoteParamEdit, Inv, Typed
<1> QED
  BY <1>1, <1>4, <1>5, <1>6, <1>7, PlayInv DEF Inv, Typed

LEMMA TakeInv ==
  ASSUME Inv, NEW c \in Clients, Take(c)
  PROVE  Inv'
<1> DEFINE v == Head(toVrc[c])
           r == [value |-> v, echo |-> TRUE]
<1>1. toVrc[c] \in Seq(Values) /\ toVrc[c] # <<>>
  BY DEF Take, Inv, Typed
<1>2. v \in Values /\ Tail(toVrc[c]) \in Seq(Values) /\ v = toVrc[c][1]
  BY <1>1
<1>3. r \in Report /\ r.value = v
  BY <1>2 DEF Report
<1>4. /\ toVrc' = [toVrc EXCEPT ![c] = Tail(toVrc[c])]
      /\ vrc' = [vrc EXCEPT ![c] = v]
      /\ UNCHANGED <<pending, rapid, suppressed, inbox, shown, edits, store, causes>>
  BY DEF Take
<1>5. reports' = reports \/ reports' = [reports EXCEPT ![c] = Append(reports[c], r)]
  BY DEF Take
<1> HIDE DEF v, r
<1>6. reports[c] \in Seq(Report)
  BY DEF Inv, Typed
<1>7. Append(reports[c], r) \in Seq(Report)
  BY <1>3, <1>6
<1>8. Typed'
  BY <1>2, <1>4, <1>5, <1>7 DEF Inv, Typed
<1>9. ASSUME \A d \in Clients : OneEcho(d) PROVE \A d \in Clients : OneEcho(d)'
  <2>1. /\ Len(toVrc[c]) = 1 /\ suppressed[c] # Nil /\ suppressed[c].value = v
        /\ \A i \in 1..Len(reports[c]) : ~ reports[c][i].echo
    BY <1>1, <1>2, <1>9 DEF OneEcho
  <2>2. toVrc'[c] = <<>>
    <3>1. Len(Tail(toVrc[c])) = 0 /\ Tail(toVrc[c]) \in Seq(Values)
      BY <1>1, <2>1
    <3>2. Tail(toVrc[c]) = <<>>
      BY <3>1, EmptySeq
    <3> QED
      BY <1>4, <3>2 DEF Inv, Typed
  <2>3. suppressed'[c] # Nil /\ suppressed'[c].value = v
    BY <1>4, <2>1
  <2>4. OneEcho(c)'
    <3>1. CASE reports' = reports
      BY <2>1, <2>2, <3>1 DEF OneEcho
    <3>2. CASE reports' = [reports EXCEPT ![c] = Append(reports[c], r)]
      <4>1. reports'[c] = Append(reports[c], r)
        BY <3>2 DEF Inv, Typed
      <4>2. /\ Len(reports'[c]) = Len(reports[c]) + 1
            /\ reports'[c][Len(reports[c]) + 1] = r
            /\ \A i \in 1..Len(reports[c]) : reports'[c][i] = reports[c][i]
        BY <1>3, <1>6, <4>1, Appended
      <4>3. Len(reports[c]) \in Nat
        BY <1>6
      <4>4. \A i \in 1..Len(reports'[c]) : reports'[c][i].echo => i = Len(reports[c]) + 1
        BY <2>1, <4>2, <4>3
      <4> QED
        BY <1>3, <2>2, <2>3, <4>2, <4>4 DEF OneEcho
    <3> QED
      BY <1>5, <3>1, <3>2
  <2>5. \A d \in Clients \ {c} : OneEcho(d)'
    <3>1. \A d \in Clients \ {c} : reports'[d] = reports[d] /\ toVrc'[d] = toVrc[d]
      BY <1>4, <1>5 DEF Inv, Typed
    <3> QED
      BY <1>4, <1>9, <3>1 DEF OneEcho
  <2> QED
    BY <2>4, <2>5
<1>10. (\A d \in Clients : OwnOnly(d)) => \A d \in Clients : OwnOnly(d)'
  BY <1>4 DEF OwnOnly
<1> QED
  BY <1>4, <1>8, <1>9, <1>10 DEF Inv

LEMMA TickInv ==
  ASSUME Timely, Inv, Tick
  PROVE  Inv'
<1>1. UNCHANGED <<vrc, toVrc, reports, pending, rapid, inbox, shown, edits, store, causes>>
  BY DEF Tick
<1>2. ASSUME NEW c \in Clients
      PROVE  /\ suppressed'[c] \in Entry \cup {Nil}
             /\ EchoDue(c) /\ suppressed[c] # Nil => suppressed'[c] # Nil /\ suppressed'[c].value = suppressed[c].value
  <2> DEFINE e == [value |-> suppressed[c].value, left |-> suppressed[c].left - 1]
  <2>1. suppressed'[c] = IF suppressed[c] = Nil \/ suppressed[c].left = 0 THEN Nil ELSE e
    BY DEF Tick
  <2>2. suppressed[c] # Nil => suppressed[c].value \in Values /\ suppressed[c].left \in 0..EchoTicks
    BY DEF Inv, Typed, Entry
  <2>3. suppressed[c] # Nil /\ suppressed[c].left # 0 => e \in Entry
    <3>1. suppressed[c] # Nil /\ suppressed[c].left # 0 => suppressed[c].left - 1 \in 0..EchoTicks
      BY <2>2, OscAssumption
    <3> QED
      BY <2>2, <3>1 DEF Entry
  <2>4. EchoDue(c) => suppressed[c].left > 0
    BY DEF Tick
  <2>5. e.value = suppressed[c].value
    OBVIOUS
  <2> HIDE DEF e
  <2>6. suppressed'[c] \in Entry \cup {Nil}
    BY <2>1, <2>3
  <2>7. EchoDue(c) /\ suppressed[c] # Nil => suppressed'[c] = e /\ e # Nil
    <3>1. EchoDue(c) /\ suppressed[c] # Nil => suppressed[c].left # 0
      BY <2>2, <2>4
    <3>2. e \in Entry => e # Nil
      BY OscAssumption
    <3> QED
      BY <2>1, <2>3, <3>1, <3>2
  <2> QED
    BY <2>5, <2>6, <2>7
<1>3. Typed'
  <2>1. suppressed' = [c \in Clients |-> suppressed'[c]]
    BY DEF Tick
  <2>2. suppressed' \in [Clients -> Entry \cup {Nil}]
    BY <1>2, <2>1
  <2> QED
    BY <1>1, <2>2 DEF Inv, Typed
<1>4. \A c \in Clients : OneEcho(c) => OneEcho(c)'
  <2> SUFFICES ASSUME NEW c \in Clients, OneEcho(c) PROVE OneEcho(c)'
    OBVIOUS
  <2>1. toVrc[c] # <<>> => EchoDue(c)
    BY DEF EchoDue
  <2>2. \A i \in 1..Len(reports[c]) : reports[c][i].echo => EchoDue(c)
    BY DueEcho DEF Inv
  <2> QED
    BY <1>1, <1>2, <2>1, <2>2 DEF OneEcho
<1>5. \A c \in Clients : OwnOnly(c) => OwnOnly(c)'
  BY <1>1 DEF OwnOnly
<1> QED
  BY <1>1, <1>3, <1>4, <1>5 DEF Inv

LEMMA HandleInv ==
  ASSUME Inv, NEW c \in Clients, handleOscMessage(c)
  PROVE  Inv'
<1> DEFINE r == Head(reports[c])
           s == Tail(reports[c])
<1>1. reports[c] \in Seq(Report) /\ reports[c] # <<>>
  BY DEF handleOscMessage, Inv, Typed
<1>2. /\ r \in Report /\ r = reports[c][1] /\ s \in Seq(Report)
      /\ Len(s) = Len(reports[c]) - 1 /\ Len(reports[c]) \in Nat \ {0}
      /\ \A i \in 1..Len(s) : s[i] = reports[c][i + 1]
  BY <1>1
<1>3. /\ reports' = [reports EXCEPT ![c] = s]
      /\ UNCHANGED <<vrc, toVrc, rapid, suppressed, inbox, shown, edits, store>>
      /\ causes \subseteq causes'
  BY DEF handleOscMessage, Why
<1>4. IF IsEcho(c, r.value) THEN pending' = pending ELSE pending' = [pending EXCEPT ![c] = r]
  BY DEF handleOscMessage
<1> HIDE DEF r, s
<1>5. Typed'
  BY <1>2, <1>3, <1>4 DEF Inv, Typed
<1>6. reports'[c] = s /\ \A d \in Clients \ {c} : reports'[d] = reports[d]
  BY <1>3 DEF Inv, Typed
<1>7. ASSUME \A d \in Clients : OneEcho(d) PROVE \A d \in Clients : OneEcho(d)'
  <2>1. OneEcho(c)'
    <3>1. \A i \in 1..Len(s) : i + 1 \in 1..Len(reports[c]) /\ s[i] = reports[c][i + 1]
      BY <1>2
    <3>2. OneEcho(c)
      BY <1>7
    <3>3. \A i \in 1..Len(s) : s[i].echo =>
            /\ toVrc[c] = <<>>
            /\ suppressed[c] # Nil /\ suppressed[c].value = s[i].value
      BY <3>1, <3>2 DEF OneEcho
    <3>4. \A i, j \in 1..Len(s) : s[i].echo /\ s[j].echo => i = j
      <4> SUFFICES ASSUME NEW i \in 1..Len(s), NEW j \in 1..Len(s), s[i].echo, s[j].echo
                   PROVE  i = j
        OBVIOUS
      <4>1. i + 1 = j + 1
        BY <3>1, <3>2 DEF OneEcho
      <4> QED
        BY <4>1
    <3> QED
      BY <1>3, <1>6, <3>2, <3>3, <3>4 DEF OneEcho
  <2>2. \A d \in Clients \ {c} : OneEcho(d)'
    BY <1>3, <1>6, <1>7 DEF OneEcho
  <2> QED
    BY <2>1, <2>2
<1>8. ASSUME \A d \in Clients : OneEcho(d), \A d \in Clients : OwnOnly(d)
      PROVE  \A d \in Clients : OwnOnly(d)'
  <2>1. r.echo => IsEcho(c, r.value)
    <3>1. 1 \in 1..Len(reports[c])
      BY <1>2
    <3> QED
      BY <1>2, <1>8, <3>1 DEF OneEcho, IsEcho
  <2>2. pending' = pending \/ (pending' = [pending EXCEPT ![c] = r] /\ ~ r.echo)
    BY <1>4, <2>1
  <2>3. \A d \in Clients : pending'[d] = pending[d] \/ (pending'[d] = r /\ ~ r.echo)
    BY <2>2 DEF Inv, Typed
  <2> QED
    BY <1>3, <1>8, <2>3 DEF OwnOnly
<1> QED
  BY <1>3, <1>5, <1>7, <1>8 DEF Inv

LEMMA SendTyped ==
  ASSUME Typed, NEW c \in Clients, NEW v \in Values, onLocalParamBatch(c, v)
  PROVE  /\ inbox' \in [Clients -> Seq(Values)] /\ store' \in Values \cup {Nil}
         /\ shown' \in [Clients -> Values \cup {Nil}]
<1>1. \A d \in Clients : Append(inbox[d], v) \in Seq(Values)
  BY DEF Typed
<1> QED
  BY <1>1 DEF onLocalParamBatch, sendParamBatch, applyLocalParamBatch, updateParameterList, Typed

LEMMA SendAllInv ==
  ASSUME Inv, NEW c \in Clients, sendAllParams(c)
  PROVE  Inv'
<1>1. shown[c] \in Values
  BY DEF sendAllParams, Inv, Typed
<1>2. Typed'
  BY <1>1, SendTyped DEF sendAllParams, Sends, onLocalParamBatch, Inv, Typed
<1> QED
  BY <1>2, QuietInv DEF sendAllParams

LEMMA FlushInv ==
  ASSUME Inv, NEW c \in Clients, flushPendingParams(c) \/ flushRapidParams(c)
  PROVE  Inv'
<1>1. UNCHANGED <<vrc, toVrc, reports, suppressed, edits>> /\ causes \subseteq causes'
  BY DEF flushPendingParams, flushRapidParams
<1>2. (pending[c] # Nil => pending[c].value \in Values) /\ (rapid[c] # Nil => rapid[c].value \in Values)
  BY DEF Inv, Typed, Report
<1>3. /\ inbox' \in [Clients -> Seq(Values)] /\ store' \in Values \cup {Nil}
      /\ shown' \in [Clients -> Values \cup {Nil}]
  <2>1. CASE UNCHANGED <<inbox, shown, store>>
    BY <2>1 DEF Inv, Typed
  <2>2. CASE onLocalParamBatch(c, pending[c].value) /\ pending[c] # Nil
    BY <1>2, <2>2, SendTyped DEF Inv
  <2>3. CASE onLocalParamBatch(c, rapid[c].value) /\ rapid[c] # Nil
    BY <1>2, <2>3, SendTyped DEF Inv
  <2> QED
    BY <2>1, <2>2, <2>3 DEF flushPendingParams, flushRapidParams
<1>4. \/ pending' = [pending EXCEPT ![c] = Nil] /\ rapid' \in {rapid, [rapid EXCEPT ![c] = pending[c]]}
      \/ pending' = pending /\ rapid' = [rapid EXCEPT ![c] = Nil]
  BY DEF flushPendingParams, flushRapidParams
<1>5. \A d \in Clients : pending'[d] \in {pending[d], Nil} /\ rapid'[d] \in {rapid[d], pending[d], Nil}
  BY <1>4 DEF Inv, Typed
<1>6. pending' \in [Clients -> Report \cup {Nil}] /\ rapid' \in [Clients -> Report \cup {Nil}]
  BY <1>4 DEF Inv, Typed
<1>7. Typed'
  BY <1>1, <1>3, <1>6 DEF Inv, Typed
<1>8. \A d \in Clients : OneEcho(d) => OneEcho(d)'
  BY <1>1 DEF OneEcho
<1>9. \A d \in Clients : OwnOnly(d) => OwnOnly(d)'
  BY <1>5 DEF OwnOnly
<1> QED
  BY <1>1, <1>7, <1>8, <1>9 DEF Inv

-----------------------------------------------------------------------------

LEMMA NextInv ==
  ASSUME Timely, Inv, [Next]_vars
  PROVE  Inv'
<1>1. CASE Tick
  BY <1>1, TickInv
<1>2. ASSUME NEW c \in Clients, NEW v \in Values, Change(c, v) PROVE Inv'
  BY <1>2, ChangeInv
<1>3. ASSUME NEW c \in Clients, NEW d \in Clients, NEW v \in Values, Edit(c, d, v) PROVE Inv'
  BY <1>3, EditInv
<1>4. ASSUME NEW c \in Clients, Toggle(c) \/ applyRoomSettingsUpdated(c) \/ AvatarChange(c)
      PROVE  Inv'
  <2>1. Typed'
    BY <1>4 DEF Toggle, applyRoomSettingsUpdated, AvatarChange, Unlist, updateParameterList, Inv, Typed
  <2> QED
    BY <1>4, <2>1, QuietInv DEF Toggle, applyRoomSettingsUpdated, AvatarChange
<1>5. ASSUME NEW c \in Clients, Join(c) PROVE Inv'
  BY <1>5, JoinInv
<1>6. ASSUME NEW c \in Clients, Leave(c) PROVE Inv'
  <2>1. Typed'
    BY <1>6 DEF Leave, Unlist, Inv, Typed
  <2> QED
    BY <1>6, <2>1, QuietInv DEF Leave
<1>10. ASSUME NEW c \in Clients, sendAllParams(c) PROVE Inv'
  BY <1>10, SendAllInv
<1>7. ASSUME NEW c \in Clients, Take(c) PROVE Inv'
  BY <1>7, TakeInv
<1>8. ASSUME NEW c \in Clients, Service(c) PROVE Inv'
  BY <1>8, HandleInv, ApplyInv, RemoteEditInv, FlushInv DEF Service
<1>9. CASE UNCHANGED vars
  <2>1. Typed'
    BY <1>9 DEF vars, Inv, Typed
  <2> QED
    BY <1>9, <2>1, QuietInv DEF vars
<1> QED
  BY <1>1, <1>2, <1>3, <1>4, <1>5, <1>6, <1>7, <1>8, <1>9, <1>10 DEF Next, User

LEMMA InvSuffices == Inv => EchoesStay
BY DEF Inv, OwnOnly, EchoesStay

\* If VRChat answers in time, an echo is sent on only where played values
\* overlapped.
THEOREM EchoesAreKept == Timely => (Spec => []EchoesStay)
<1> SUFFICES ASSUME Timely PROVE Spec => []EchoesStay
  OBVIOUS
<1>1. Inv /\ [Next]_vars => Inv'
  BY NextInv
<1> QED
  BY <1>1, InitInv, InvSuffices, PTL DEF Spec

-----------------------------------------------------------------------------
(* Lists and agreement.                                                    *)

\* c still has to handle, or to send, a change of its own user.
OwnReport(c) == \E i \in 1..Len(reports[c]) : ~ reports[c][i].echo
Own(c)       == OwnReport(c) \/ pending[c] # Nil \/ rapid[c] # Nil

Calm  == "crossed" \notin causes /\ "overlapped" \notin causes
Alone == causes = {} /\ edited = 0

\* Nothing comes to a client outside the room, and no edit before the first.
Elsewhere ==
  /\ edited \in Nat /\ inRoom \in [Clients -> BOOLEAN]
  /\ \A c \in Clients : ~ inRoom[c] => inbox[c] = <<>>
  /\ edited = 0 => \A c \in Clients : edits[c] = <<>>

\* A client with a change of its own has taken all the others sent.
OwnFirst(c) == Own(c) => inbox[c] = <<>>

\* The last the server sent is its value; when it is taken, it is listed.
Listed(c) ==
  inRoom[c] => IF inbox[c] = <<>> THEN shown[c] \in {Nil, store} ELSE inbox[c][Len(inbox[c])] = store

Current == Calm => \A c \in Clients : OwnFirst(c) /\ Listed(c)

\* The newest change of c's user is the value of its VRChat.
Newest(c) ==
  /\ Own(c) => toVrc[c] = <<>>
  /\ OwnReport(c) => /\ ~ reports[c][Len(reports[c])].echo
                     /\ reports[c][Len(reports[c])].value = vrc[c]
  /\ ~ OwnReport(c) /\ pending[c] # Nil => pending[c].value = vrc[c]
  /\ ~ OwnReport(c) /\ pending[c] = Nil /\ rapid[c] # Nil => rapid[c].value = vrc[c]

\* The value c's VRChat will have.
Due(c) == IF toVrc[c] = <<>> THEN vrc[c] ELSE toVrc[c][1]

Synced(c) == inRoom[c] /\ ~ Own(c) /\ inbox[c] = <<>> /\ store # Nil => Due(c) = store

InStep == Alone => \A c \in Clients : Newest(c) /\ Synced(c)

Wide == Inv /\ Elsewhere /\ Current /\ InStep

\* A change of c's own is leaving.
LEMMA OwnLeaves == ASSUME NEW c \in Clients, Own(c) PROVE Leaving(c)
<1>1. reports[c] = <<>> => Len(reports[c]) = 0
  OBVIOUS
<1> QED
  BY <1>1 DEF Own, OwnReport, Leaving

LEMMA InitWide == Init => Elsewhere /\ Current /\ InStep
<1> SUFFICES ASSUME Init PROVE Elsewhere /\ Current /\ InStep
  OBVIOUS
<1>1. \A c \in Clients :
        /\ toVrc[c] = <<>> /\ reports[c] = <<>> /\ pending[c] = Nil /\ rapid[c] = Nil
        /\ inbox[c] = <<>> /\ edits[c] = <<>> /\ shown[c] = Nil
  BY DEF Init
<1>2. store = Nil /\ edited = 0
  BY DEF Init
<1>3. \A c \in Clients : ~ Own(c)
  BY <1>1, OwnLeaves DEF Leaving
<1>4. \A c \in Clients : OwnFirst(c) /\ Listed(c)
  BY <1>1 DEF OwnFirst, Listed
<1>5. \A c \in Clients : Newest(c) /\ Synced(c)
  BY <1>2, <1>3 DEF Newest, Synced, Own
<1> QED
  BY <1>1, <1>2, <1>4, <1>5 DEF Init, Elsewhere, Current, InStep

\* What a step does not touch of a client stays as it is.
LEMMA Untouched ==
  ASSUME NEW d \in Clients, reports'[d] = reports[d], pending'[d] = pending[d], rapid'[d] = rapid[d]
  PROVE  /\ Own(d)' = Own(d)
         /\ inbox'[d] = inbox[d] => (OwnFirst(d) => OwnFirst(d)')
         /\ inRoom'[d] = inRoom[d] /\ inbox'[d] = inbox[d] /\ shown'[d] \in {Nil, shown[d]} /\ store' = store
              => (Listed(d) => Listed(d)')
         /\ vrc'[d] = vrc[d] /\ toVrc'[d] = toVrc[d] => (Newest(d) => Newest(d)')
         /\ vrc'[d] = vrc[d] /\ toVrc'[d] = toVrc[d] /\ inRoom'[d] = inRoom[d] /\ inbox'[d] = inbox[d]
              /\ store' = store => (Synced(d) => Synced(d)')
<1>1. Own(d)' = Own(d) /\ OwnReport(d)' = OwnReport(d)
  BY DEF Own, OwnReport
<1>2. inbox'[d] = inbox[d] => (OwnFirst(d) => OwnFirst(d)')
  BY <1>1 DEF OwnFirst
<1>3. inRoom'[d] = inRoom[d] /\ inbox'[d] = inbox[d] /\ shown'[d] \in {Nil, shown[d]} /\ store' = store
        => (Listed(d) => Listed(d)')
  BY DEF Listed
<1>4. vrc'[d] = vrc[d] /\ toVrc'[d] = toVrc[d] => (Newest(d) => Newest(d)')
  BY <1>1 DEF Newest
<1>5. vrc'[d] = vrc[d] /\ toVrc'[d] = toVrc[d] /\ inRoom'[d] = inRoom[d] /\ inbox'[d] = inbox[d]
        /\ store' = store => (Synced(d) => Synced(d)')
  <2>1. vrc'[d] = vrc[d] /\ toVrc'[d] = toVrc[d] => Due(d)' = Due(d)
    BY DEF Due
  <2> QED
    BY <1>1, <2>1, Zenon DEF Synced
<1> QED
  BY <1>1, <1>2, <1>3, <1>4, <1>5, Zenon

\* Steps of c alone: what is left to show is about c.
LEMMA StepOfOne ==
  ASSUME Wide, NEW c \in Clients, causes \subseteq causes', edited' = edited, store' = store,
         \A d \in Clients \ {c} :
           /\ reports'[d] = reports[d] /\ pending'[d] = pending[d] /\ rapid'[d] = rapid[d]
           /\ vrc'[d] = vrc[d] /\ toVrc'[d] = toVrc[d]
           /\ inRoom'[d] = inRoom[d] /\ inbox'[d] = inbox[d] /\ shown'[d] = shown[d]
           /\ edits'[d] = edits[d],
         inRoom' \in [Clients -> BOOLEAN],
         ~ inRoom'[c] => inbox'[c] = <<>>,
         edited = 0 => edits'[c] = <<>>,
         Calm /\ Calm' /\ OwnFirst(c) /\ Listed(c) => OwnFirst(c)' /\ Listed(c)',
         Alone /\ Alone' /\ OwnFirst(c) /\ Listed(c) /\ Newest(c) /\ Synced(c) => Newest(c)' /\ Synced(c)'
  PROVE  Elsewhere' /\ Current' /\ InStep'
<1>1. (Calm' => Calm) /\ (Alone' => Alone) /\ (Alone => Calm)
  BY DEF Calm, Alone
<1>2. \A d \in Clients \ {c} :
        /\ OwnFirst(d) => OwnFirst(d)'
        /\ Listed(d) => Listed(d)'
        /\ Newest(d) => Newest(d)'
        /\ Synced(d) => Synced(d)'
  BY Untouched
<1>3. Elsewhere'
  BY DEF Wide, Elsewhere
<1>4. Current'
  BY <1>1, <1>2 DEF Wide, Current
<1>5. InStep'
  BY <1>1, <1>2 DEF Wide, Current, InStep
<1> QED
  BY <1>3, <1>4, <1>5

\* Steps that only make causes, what is due or the lists fewer or older.
LEMMA StepOfNone ==
  ASSUME Wide, causes \subseteq causes', edited' = edited, store' = store,
         vrc' = vrc, toVrc' = toVrc, reports' = reports, pending' = pending, rapid' = rapid,
         inRoom' = inRoom, inbox' = inbox, edits' = edits,
         \A d \in Clients : shown'[d] \in {Nil, shown[d]}
  PROVE  Elsewhere' /\ Current' /\ InStep'
<1>1. (Calm' => Calm) /\ (Alone' => Alone)
  BY DEF Calm, Alone
<1>2. \A d \in Clients :
        /\ OwnFirst(d) => OwnFirst(d)'
        /\ Listed(d) => Listed(d)'
        /\ Newest(d) => Newest(d)'
        /\ Synced(d) => Synced(d)'
  BY Untouched
<1> QED
  BY <1>1, <1>2 DEF Wide, Elsewhere, Current, InStep

LEMMA ChangeWide ==
  ASSUME Wide, NEW c \in Clients, NEW v \in Values, Change(c, v)
  PROVE  Elsewhere' /\ Current' /\ InStep'
<1> DEFINE r == [value |-> v, echo |-> FALSE]
<1>1. r \in Report /\ r.echo = FALSE /\ r.value = v
  BY DEF Report
<1>2. reports[c] \in Seq(Report) /\ reports' = [reports EXCEPT ![c] = Append(reports[c], r)]
  BY DEF Wide, Inv, Typed, Change
<1> HIDE DEF r
<1>3. reports'[c] = Append(reports[c], r) /\ \A d \in Clients \ {c} : reports'[d] = reports[d]
  BY <1>2 DEF Wide, Inv, Typed
<1>4. vrc'[c] = v /\ \A d \in Clients \ {c} : vrc'[d] = vrc[d]
  BY DEF Change, Wide, Inv, Typed
<1>5. /\ toVrc' = toVrc /\ pending' = pending /\ rapid' = rapid /\ inRoom' = inRoom
      /\ inbox' = inbox /\ shown' = shown /\ edits' = edits /\ store' = store /\ edited' = edited
      /\ causes \subseteq causes'
  BY DEF Change
<1>6. Calm' => inbox[c] = <<>> /\ toVrc[c] = <<>>
  BY DEF Change, Calm, Arriving, Why
<1>7. /\ Len(reports'[c]) = Len(reports[c]) + 1 /\ Len(reports[c]) \in Nat
      /\ reports'[c][Len(reports'[c])] = r
  BY <1>1, <1>2, <1>3, Appended
<1>8. OwnReport(c)'
  BY <1>1, <1>7 DEF OwnReport
<1>9. Calm' /\ Listed(c) => OwnFirst(c)' /\ Listed(c)'
  BY <1>5, <1>6 DEF OwnFirst, Listed
<1>10. Alone' => Newest(c)' /\ Synced(c)'
  <2>1. Own(c)'
    BY <1>8 DEF Own
  <2>2. Alone' => toVrc'[c] = <<>>
    BY <1>5, <1>6 DEF Alone, Calm
  <2> QED
    BY <1>1, <1>4, <1>7, <1>8, <2>1, <2>2 DEF Newest, Synced
<1> QED
  BY <1>3, <1>4, <1>5, <1>9, <1>10, StepOfOne DEF Wide, Elsewhere

\* Playing touches only what is due in c.
LEMMA PlayOthers ==
  ASSUME Typed, NEW c \in Clients, NEW s, Play(c, s)
  PROVE  toVrc'[c] = toVrc[c] \o s /\ \A d \in Clients \ {c} : toVrc'[d] = toVrc[d]
BY DEF Play, Typed

LEMMA JoinWide ==
  ASSUME Wide, NEW c \in Clients, Join(c)
  PROVE  Elsewhere' /\ Current' /\ InStep'
<1>0. Typed
  BY DEF Wide, Inv
<1>1. PICK on \in BOOLEAN, pass \in BOOLEAN, s \in {<<>>, <<store>>} :
        /\ s = IF store # Nil /\ on /\ pass THEN <<store>> ELSE <<>>
        /\ Play(c, s)
        /\ updateParameterList(c, pass, store)
        /\ causes' = causes \cup Why("skipped", store # Nil /\ s = <<>>)
                            \cup Why("crossed", Leaving(c))
                            \cup Why("overlapped", s # <<>> /\ EchoDue(c))
  BY DEF Join
<1>2. /\ vrc' = vrc /\ reports' = reports /\ pending' = pending /\ rapid' = rapid
      /\ inbox' = inbox /\ edits' = edits /\ store' = store /\ edited' = edited
      /\ causes \subseteq causes'
  BY <1>1 DEF Join
<1>3. /\ inRoom' \in [Clients -> BOOLEAN]
      /\ ~ inRoom[c] /\ inRoom'[c] /\ \A d \in Clients \ {c} : inRoom'[d] = inRoom[d]
  BY DEF Join, Wide, Elsewhere
<1>4. inbox[c] = <<>>
  BY <1>3 DEF Wide, Elsewhere
<1>5. \A d \in Clients \ {c} : toVrc'[d] = toVrc[d] /\ shown'[d] = shown[d]
  BY <1>0, <1>1, PlayOthers DEF updateParameterList, Typed
<1>6. shown'[c] \in {Nil, store}
  BY <1>0, <1>1 DEF updateParameterList, Typed
<1>7. OwnFirst(c)' /\ Listed(c)'
  BY <1>2, <1>4, <1>6 DEF OwnFirst, Listed
<1>8. ASSUME Alone' PROVE Newest(c)' /\ Synced(c)'
  <2>1. /\ store # Nil => s # <<>>
        /\ ~ Leaving(c)
        /\ s # <<>> => ~ EchoDue(c)
    BY <1>1, <1>8 DEF Alone, Why
  <2>2. ~ Own(c)'
    <3>1. ~ Own(c)
      BY <2>1, OwnLeaves
    <3> QED
      BY <1>2, <3>1 DEF Own, OwnReport
  <2>3. Newest(c)'
    BY <2>2 DEF Newest, Own
  <2>4. ASSUME store # Nil PROVE Due(c)' = store
    <3>1. s = <<store>> /\ s # <<>>
      BY <1>1, <2>1, <2>4
    <3>2. toVrc[c] = <<>>
      BY <2>1, <3>1 DEF EchoDue
    <3>3. toVrc'[c] = toVrc[c] \o s
      BY <1>0, <1>1, PlayOthers
    <3>4. toVrc'[c] = <<store>>
      BY <3>1, <3>2, <3>3
    <3> QED
      BY <3>4 DEF Due
  <2> QED
    BY <1>2, <2>3, <2>4 DEF Synced
<1> QED
  BY <1>2, <1>3, <1>4, <1>5, <1>7, <1>8, StepOfOne DEF Wide, Elsewhere

LEMMA LeaveWide ==
  ASSUME Wide, NEW c \in Clients, Leave(c)
  PROVE  Elsewhere' /\ Current' /\ InStep'
<1>0. Typed
  BY DEF Wide, Inv
<1>1. /\ vrc' = vrc /\ toVrc' = toVrc /\ reports' = reports /\ pending' = pending /\ rapid' = rapid
      /\ edits' = edits /\ edited' = edited /\ causes' = causes
  BY DEF Leave
<1>2. /\ inRoom' \in [Clients -> BOOLEAN]
      /\ ~ inRoom'[c] /\ \A d \in Clients \ {c} : inRoom'[d] = inRoom[d]
  BY DEF Leave, Wide, Elsewhere
<1>3. inbox'[c] = <<>> /\ \A d \in Clients \ {c} : inbox'[d] = inbox[d] /\ shown'[d] = shown[d]
  BY <1>0 DEF Leave, Unlist, Typed
<1>4. store' = store \/ \A d \in Clients : ~ inRoom'[d]
  BY DEF Leave
<1>5. Elsewhere'
  BY <1>1, <1>2, <1>3 DEF Wide, Elsewhere
<1>6. \A d \in Clients : Own(d)' <=> Own(d)
  BY <1>1 DEF Own, OwnReport
<1>7. \A d \in Clients : OwnFirst(d) => OwnFirst(d)'
  BY <1>3, <1>6 DEF OwnFirst
<1>8. \A d \in Clients : Listed(d) => Listed(d)'
  <2> SUFFICES ASSUME NEW d \in Clients, Listed(d), inRoom'[d] PROVE Listed(d)'
    BY DEF Listed
  <2>1. d # c /\ store' = store
    BY <1>2, <1>4
  <2> QED
    BY <1>1, <1>2, <1>3, <2>1, Untouched
<1>9. \A d \in Clients : Newest(d) => Newest(d)'
  BY <1>1, Untouched
<1>10. \A d \in Clients : Synced(d) => Synced(d)'
  <2> SUFFICES ASSUME NEW d \in Clients, Synced(d), inRoom'[d] PROVE Synced(d)'
    BY DEF Synced
  <2>1. d # c /\ store' = store
    BY <1>2, <1>4
  <2> QED
    BY <1>1, <1>2, <1>3, <2>1, Untouched
<1>11. (Calm' => Calm) /\ (Alone' => Alone)
  BY <1>1 DEF Calm, Alone
<1> QED
  BY <1>5, <1>7, <1>8, <1>9, <1>10, <1>11 DEF Wide, Current, InStep

LEMMA EditWide ==
  ASSUME Wide, NEW c \in Clients, NEW d \in Clients, NEW v \in Values, Edit(c, d, v)
  PROVE  Elsewhere' /\ Current' /\ InStep'
<1>1. /\ reports' = reports /\ pending' = pending /\ rapid' = rapid
      /\ inRoom' = inRoom /\ inbox' = inbox /\ shown' = shown /\ store' = store
      /\ causes \subseteq causes'
  BY DEF Edit
<1>2. edited' \in Nat /\ edited' # 0
  BY DEF Edit, Wide, Elsewhere
<1>3. (Calm' => Calm) /\ ~ Alone'
  BY <1>1, <1>2 DEF Calm, Alone
<1>4. \A e \in Clients : (OwnFirst(e) => OwnFirst(e)') /\ (Listed(e) => Listed(e)')
  BY <1>1, Untouched
<1> QED
  BY <1>1, <1>2, <1>3, <1>4 DEF Wide, Elsewhere, Current, InStep

LEMMA TakeWide ==
  ASSUME Wide, NEW c \in Clients, Take(c)
  PROVE  Elsewhere' /\ Current' /\ InStep'
<1> DEFINE v == Head(toVrc[c])
           r == [value |-> v, echo |-> TRUE]
<1>0. Typed
  BY DEF Wide, Inv
<1>1. toVrc[c] \in Seq(Values) /\ toVrc[c] # <<>>
  BY <1>0 DEF Take, Typed
<1>2. v \in Values /\ v = toVrc[c][1]
  BY <1>1
<1>3. r \in Report /\ r.echo = TRUE
  BY <1>2 DEF Report
<1>4. /\ toVrc' = [toVrc EXCEPT ![c] = Tail(toVrc[c])]
      /\ vrc' = [vrc EXCEPT ![c] = v]
  BY DEF Take
<1>5. reports' = reports \/ reports' = [reports EXCEPT ![c] = Append(reports[c], r)]
  BY DEF Take
<1>6. /\ pending' = pending /\ rapid' = rapid /\ inRoom' = inRoom /\ inbox' = inbox /\ shown' = shown
      /\ edits' = edits /\ store' = store /\ edited' = edited /\ causes' = causes
  BY DEF Take
<1> HIDE DEF v, r
<1>7. vrc'[c] = v /\ toVrc'[c] = Tail(toVrc[c])
  BY <1>0, <1>4 DEF Typed
<1>8. \A d \in Clients \ {c} : vrc'[d] = vrc[d] /\ toVrc'[d] = toVrc[d] /\ reports'[d] = reports[d]
  BY <1>0, <1>4, <1>5 DEF Typed
<1>9. OwnReport(c)' <=> OwnReport(c)
  <2>1. CASE reports' = reports
    BY <2>1 DEF OwnReport
  <2>2. CASE reports' = [reports EXCEPT ![c] = Append(reports[c], r)]
    <3>1. reports[c] \in Seq(Report) /\ reports'[c] = Append(reports[c], r)
      BY <1>0, <2>2 DEF Typed
    <3>2. /\ Len(reports'[c]) = Len(reports[c]) + 1 /\ Len(reports[c]) \in Nat
          /\ reports'[c][Len(reports[c]) + 1] = r
          /\ \A i \in 1..Len(reports[c]) : reports'[c][i] = reports[c][i]
      BY <1>3, <3>1, Appended
    <3>3. \A i \in 1..Len(reports'[c]) : i \in 1..Len(reports[c]) \/ i = Len(reports[c]) + 1
      BY <3>2
    <3>4. \A i \in 1..Len(reports[c]) : i \in 1..Len(reports'[c])
      BY <3>2
    <3> QED
      BY <1>3, <3>2, <3>3, <3>4 DEF OwnReport
  <2> QED
    BY <1>5, <2>1, <2>2
<1>10. Own(c)' <=> Own(c)
  BY <1>6, <1>9 DEF Own
<1>11. (OwnFirst(c) => OwnFirst(c)') /\ (Listed(c) => Listed(c)')
  BY <1>6, <1>10 DEF OwnFirst, Listed
<1>12. ASSUME Alone, Newest(c), Synced(c) PROVE Newest(c)' /\ Synced(c)'
  <2>1. ~ Own(c)
    BY <1>1, <1>12 DEF Newest
  <2>2. Newest(c)'
    BY <1>10, <2>1 DEF Newest, Own
  <2>3. Len(toVrc[c]) = 1
    BY <1>1, <1>12 DEF Wide, Inv, OneEcho, Alone
  <2>4. toVrc'[c] = <<>>
    <3>1. Len(Tail(toVrc[c])) = 0 /\ Tail(toVrc[c]) \in Seq(Values)
      BY <1>1, <2>3
    <3> QED
      BY <1>7, <3>1, EmptySeq
  <2>5. Due(c)' = Due(c)
    BY <1>1, <1>2, <1>7, <2>4 DEF Due
  <2> QED
    BY <1>6, <1>10, <1>12, <2>2, <2>5 DEF Synced
<1> QED
  BY <1>6, <1>8, <1>11, <1>12, StepOfOne DEF Wide, Elsewhere

LEMMA HandleWide ==
  ASSUME Wide, NEW c \in Clients, handleOscMessage(c)
  PROVE  Elsewhere' /\ Current' /\ InStep'
<1> DEFINE r == Head(reports[c])
           s == Tail(reports[c])
<1>0. Typed
  BY DEF Wide, Inv
<1>1. reports[c] \in Seq(Report) /\ reports[c] # <<>>
  BY <1>0 DEF handleOscMessage, Typed
<1>2. /\ r \in Report /\ r = reports[c][1] /\ s \in Seq(Report)
      /\ Len(s) = Len(reports[c]) - 1 /\ Len(reports[c]) \in Nat \ {0} /\ Len(s) \in Nat
      /\ \A i \in 1..Len(s) : s[i] = reports[c][i + 1]
  BY <1>1
<1>3. /\ reports' = [reports EXCEPT ![c] = s]
      /\ vrc' = vrc /\ toVrc' = toVrc /\ rapid' = rapid /\ inRoom' = inRoom /\ inbox' = inbox
      /\ shown' = shown /\ edits' = edits /\ store' = store /\ edited' = edited
  BY DEF handleOscMessage
<1>4. IF IsEcho(c, r.value)
      THEN pending' = pending /\ causes' = causes \cup Why("swallowed", ~ r.echo)
      ELSE pending' = [pending EXCEPT ![c] = r] /\ causes' = causes
  BY DEF handleOscMessage
<1> HIDE DEF r, s
<1>5. /\ reports'[c] = s
      /\ \A d \in Clients \ {c} : reports'[d] = reports[d] /\ pending'[d] = pending[d]
  BY <1>0, <1>3, <1>4 DEF Typed
<1>6. causes \subseteq causes'
  BY <1>4 DEF Why
<1>7. Calm /\ r.echo => IsEcho(c, r.value)
  <2>1. 1 \in 1..Len(reports[c])
    BY <1>2
  <2> QED
    BY <1>2, <2>1 DEF Wide, Inv, OneEcho, IsEcho, Calm
<1>8. \A i \in 1..Len(s) : i + 1 \in 1..Len(reports[c]) /\ s[i] = reports[c][i + 1]
  BY <1>2
<1>9. OwnReport(c)' => OwnReport(c)
  BY <1>5, <1>8 DEF OwnReport
<1>10. ~ r.echo => OwnReport(c)
  <2>1. 1 \in 1..Len(reports[c])
    BY <1>2
  <2> QED
    BY <1>2, <2>1 DEF OwnReport
<1>11. Calm => (Own(c)' => Own(c))
  <2>1. CASE IsEcho(c, r.value)
    BY <1>3, <1>4, <1>9, <2>1 DEF Own
  <2>2. CASE ~ IsEcho(c, r.value)
    BY <1>7, <1>10, <2>2 DEF Own
  <2> QED
    BY <2>1, <2>2
<1>12. Calm /\ OwnFirst(c) /\ Listed(c) => OwnFirst(c)' /\ Listed(c)'
  BY <1>3, <1>11 DEF OwnFirst, Listed
<1>13. ASSUME Alone, Alone', Newest(c), Synced(c) PROVE Newest(c)' /\ Synced(c)'
  <2>0. Calm
    BY <1>13 DEF Alone, Calm
  <2>1. Own(c)' => toVrc'[c] = <<>>
    BY <1>3, <1>11, <1>13, <2>0 DEF Newest
  <2>2. Len(s) # 0 => Len(s) \in 1..Len(s) /\ s[Len(s)] = reports[c][Len(reports[c])]
    <3>1. Len(s) + 1 = Len(reports[c])
      BY <1>2
    <3>2. Len(s) # 0 => Len(s) \in 1..Len(s)
      <4>1. \A n \in Nat : n # 0 => n \in 1..n
        OBVIOUS
      <4>2. Len(s) \in Nat
        BY <1>2
      <4> QED
        BY <4>1, <4>2
    <3> QED
      BY <1>2, <3>1, <3>2
  <2>3. OwnReport(c)' => /\ ~ reports'[c][Len(reports'[c])].echo
                         /\ reports'[c][Len(reports'[c])].value = vrc'[c]
    <3>1. OwnReport(c)' => Len(s) # 0
      BY <1>2, <1>5 DEF OwnReport
    <3> QED
      BY <1>3, <1>5, <1>9, <1>13, <2>2, <3>1 DEF Newest
  <2>4. CASE r.echo
    <3>1. pending' = pending
      BY <1>4, <1>7, <2>0, <2>4
    <3>2. OwnReport(c) => OwnReport(c)'
      <4> SUFFICES ASSUME NEW i \in 1..Len(reports[c]), ~ reports[c][i].echo PROVE OwnReport(c)'
        BY DEF OwnReport
      <4>1. i # 1
        BY <1>2, <2>4
      <4>2. i - 1 \in 1..Len(s) /\ (i - 1) + 1 = i
        BY <1>2, <4>1
      <4> QED
        BY <1>5, <1>8, <4>2 DEF OwnReport
    <3>3. OwnReport(c)' <=> OwnReport(c)
      BY <1>9, <3>2
    <3>4. Own(c)' <=> Own(c)
      BY <1>3, <3>1, <3>3 DEF Own
    <3>5. Newest(c)'
      BY <1>3, <1>13, <2>1, <2>3, <3>1, <3>3 DEF Newest
    <3>6. Due(c)' = Due(c)
      BY <1>3 DEF Due
    <3>7. Synced(c)'
      BY <1>3, <1>13, <3>4, <3>6 DEF Synced
    <3> QED
      BY <3>5, <3>7
  <2>5. CASE ~ r.echo
    <3>1. ~ IsEcho(c, r.value)
      BY <1>4, <1>13, <2>5 DEF Alone, Why
    <3>2. pending'[c] = r /\ r # Nil
      BY <1>0, <1>2, <1>4, <3>1, OscAssumption DEF Typed
    <3>3. OwnReport(c)
      BY <1>10, <2>5
    <3>4. ~ OwnReport(c)' => r.value = vrc[c]
      <4>1. SUFFICES ASSUME ~ OwnReport(c)' PROVE r.value = vrc[c]
        OBVIOUS
      <4>2. ~ reports[c][Len(reports[c])].echo /\ reports[c][Len(reports[c])].value = vrc[c]
        BY <1>13, <3>3 DEF Newest
      <4>3. Len(s) = 0
        <5>1. SUFFICES ASSUME Len(s) # 0 PROVE FALSE
          OBVIOUS
        <5>2. Len(s) \in 1..Len(s) /\ ~ s[Len(s)].echo
          BY <2>2, <4>2, <5>1
        <5> QED
          BY <1>5, <4>1, <5>2 DEF OwnReport
      <4>4. Len(reports[c]) = 1
        BY <1>2, <4>3
      <4> QED
        BY <1>2, <4>2, <4>4
    <3>5. Own(c)'
      BY <3>2 DEF Own
    <3>6. Newest(c)'
      BY <1>3, <2>1, <2>3, <3>2, <3>4 DEF Newest
    <3>7. Synced(c)'
      BY <3>5 DEF Synced
    <3> QED
      BY <3>6, <3>7
  <2> QED
    BY <2>4, <2>5
<1> QED
  BY <1>3, <1>5, <1>6, <1>12, <1>13, StepOfOne DEF Wide, Elsewhere

\* c takes the first of its inbox; the last one stays the last.
LEMMA Taken ==
  ASSUME Typed, NEW c \in Clients, applyParamBatch(c)
  PROVE  /\ inbox[c] \in Seq(Values) /\ inbox[c] # <<>> /\ Head(inbox[c]) \in Values
         /\ inbox'[c] = Tail(inbox[c]) /\ shown'[c] \in {Nil, Head(inbox[c])}
         /\ \A d \in Clients \ {c} : inbox'[d] = inbox[d] /\ shown'[d] = shown[d]
         /\ inbox'[c] = <<>> => Head(inbox[c]) = inbox[c][Len(inbox[c])]
         /\ inbox'[c] # <<>> => inbox'[c][Len(inbox'[c])] = inbox[c][Len(inbox[c])]
<1> DEFINE s == inbox[c]
<1>1. s \in Seq(Values) /\ s # <<>>
  BY DEF applyParamBatch, Typed
<1>2. inbox'[c] = Tail(s) /\ shown'[c] \in {Nil, Head(s)}
  BY DEF applyParamBatch, updateParameterList, Typed
<1>3. \A d \in Clients \ {c} : inbox'[d] = inbox[d] /\ shown'[d] = shown[d]
  BY DEF applyParamBatch, updateParameterList, Typed
<1> HIDE DEF s
<1>4. /\ Head(s) \in Values /\ Head(s) = s[1] /\ Tail(s) \in Seq(Values)
      /\ Len(Tail(s)) = Len(s) - 1 /\ Len(s) \in Nat \ {0}
      /\ \A i \in 1..Len(Tail(s)) : Tail(s)[i] = s[i + 1]
  BY <1>1
<1>5. Tail(s) = <<>> => Head(s) = s[Len(s)]
  <2>1. Tail(s) = <<>> => Len(Tail(s)) = 0
    <3>1. Len(<<>>) = 0
      OBVIOUS
    <3> QED
      BY <3>1, Zenon
  <2> QED
    BY <1>4, <2>1
<1>6. Tail(s) # <<>> => Tail(s)[Len(Tail(s))] = s[Len(s)]
  <2>1. Tail(s) # <<>> => Len(Tail(s)) # 0
    BY <1>4, EmptySeq
  <2>2. Len(Tail(s)) # 0 => Len(Tail(s)) \in 1..Len(Tail(s))
    BY <1>4
  <2>3. Len(Tail(s)) + 1 = Len(s)
    BY <1>4
  <2> QED
    BY <1>4, <2>1, <2>2, <2>3
<1> QED
  BY <1>1, <1>2, <1>3, <1>4, <1>5, <1>6 DEF s

LEMMA ApplyWide ==
  ASSUME Wide, NEW c \in Clients, applyRemoteBatch(c)
  PROVE  Elsewhere' /\ Current' /\ InStep'
<1>0. Typed
  BY DEF Wide, Inv
<1>1. PICK s : s = (IF shouldApplyRemoteParam(c) THEN <<Head(inbox[c])>> ELSE <<>>) /\ Play(c, s)
  BY DEF applyRemoteBatch
<1>2. /\ inbox[c] # <<>> /\ Head(inbox[c]) \in Values /\ shown'[c] \in {Nil, Head(inbox[c])}
      /\ \A d \in Clients \ {c} : inbox'[d] = inbox[d] /\ shown'[d] = shown[d]
      /\ inbox'[c] = <<>> => Head(inbox[c]) = inbox[c][Len(inbox[c])]
      /\ inbox'[c] # <<>> => inbox'[c][Len(inbox'[c])] = inbox[c][Len(inbox[c])]
  BY <1>0, Taken DEF applyRemoteBatch
<1>3. /\ vrc' = vrc /\ reports' = reports /\ pending' = pending /\ rapid' = rapid
      /\ inRoom' = inRoom /\ edits' = edits /\ store' = store /\ edited' = edited
  BY DEF applyRemoteBatch
<1>4. causes' = causes \cup IF shouldApplyRemoteParam(c) THEN Why("overlapped", EchoDue(c)) ELSE {"skipped"}
  BY DEF applyRemoteBatch
<1>5. causes \subseteq causes'
  BY <1>4 DEF Why
<1>6. toVrc'[c] = toVrc[c] \o s /\ \A d \in Clients \ {c} : toVrc'[d] = toVrc[d]
  BY <1>0, <1>1, PlayOthers
<1>7. inRoom[c]
  BY <1>2 DEF Wide, Elsewhere
<1>8. Own(c)' <=> Own(c)
  BY <1>3 DEF Own, OwnReport
<1>9. OwnFirst(c) /\ Listed(c) => OwnFirst(c)' /\ Listed(c)'
  <2>1. OwnFirst(c) => ~ Own(c)'
    BY <1>2, <1>8 DEF OwnFirst
  <2>2. Listed(c) => Listed(c)'
    BY <1>2, <1>3, <1>7 DEF Listed
  <2> QED
    BY <2>1, <2>2 DEF OwnFirst
<1>10. ASSUME Alone', OwnFirst(c), Listed(c) PROVE Newest(c)' /\ Synced(c)'
  <2>1. ~ Own(c)'
    BY <1>2, <1>8, <1>10 DEF OwnFirst
  <2>2. Newest(c)'
    BY <2>1 DEF Newest, Own
  <2>3. shouldApplyRemoteParam(c) /\ ~ EchoDue(c)
    BY <1>4, <1>10 DEF Alone, Why
  <2>4. toVrc[c] = <<>> /\ s = <<Head(inbox[c])>>
    BY <1>1, <2>3 DEF EchoDue
  <2>5. toVrc'[c] = <<Head(inbox[c])>>
    BY <1>2, <1>6, <2>4
  <2>6. Due(c)' = Head(inbox[c])
    BY <2>5 DEF Due
  <2>7. inbox'[c] = <<>> => Head(inbox[c]) = store
    BY <1>2, <1>7, <1>10 DEF Listed
  <2> QED
    BY <1>3, <2>2, <2>6, <2>7 DEF Synced
<1> QED
  BY <1>2, <1>3, <1>5, <1>6, <1>7, <1>9, <1>10, StepOfOne DEF Wide, Elsewhere

LEMMA RemoteEditWide ==
  ASSUME Wide, NEW c \in Clients, onRemoteParamEdit(c)
  PROVE  Elsewhere' /\ Current' /\ InStep'
<1>1. /\ reports' = reports /\ pending' = pending /\ rapid' = rapid
      /\ inRoom' = inRoom /\ inbox' = inbox /\ shown' = shown /\ store' = store
      /\ edited' = edited /\ causes \subseteq causes'
  BY DEF onRemoteParamEdit
<1>2. edited # 0
  BY DEF onRemoteParamEdit, Wide, Elsewhere
<1>3. (Calm' => Calm) /\ ~ Alone'
  BY <1>1, <1>2 DEF Calm, Alone
<1>4. \A e \in Clients : (OwnFirst(e) => OwnFirst(e)') /\ (Listed(e) => Listed(e)')
  BY <1>1, Untouched
<1> QED
  BY <1>1, <1>2, <1>3, <1>4 DEF Wide, Elsewhere, Current, InStep

\* What sending a value does to the others, and to c.
LEMMA Sent ==
  ASSUME Typed, NEW c \in Clients, NEW v \in Values, onLocalParamBatch(c, v)
  PROVE  /\ inbox'[c] = inbox[c]
         /\ Sends(c) => store' = v /\ shown'[c] = v
         /\ ~ Sends(c) => store' = store /\ inbox' = inbox /\ shown' = shown
         /\ \A d \in Clients \ {c} :
              /\ shown'[d] = shown[d]
              /\ ~ inRoom[d] => inbox'[d] = inbox[d]
              /\ Sends(c) /\ inRoom[d] => inbox'[d] # <<>> /\ inbox'[d][Len(inbox'[d])] = v
<1>1. c \notin Others(c) /\ \A d \in Clients \ {c} : d \in Others(c) <=> inRoom[d]
  BY DEF Others
<1>2. ASSUME NEW d \in Clients
      PROVE  Append(inbox[d], v) # <<>> /\ Append(inbox[d], v)[Len(Append(inbox[d], v))] = v
  <2>1. inbox[d] \in Seq(Values)
    BY DEF Typed
  <2>2. /\ Len(Append(inbox[d], v)) = Len(inbox[d]) + 1 /\ Len(inbox[d]) \in Nat
        /\ Append(inbox[d], v)[Len(inbox[d]) + 1] = v
    BY <2>1
  <2>3. Len(<<>>) = 0
    OBVIOUS
  <2> QED
    BY <2>2, <2>3
<1>3. CASE Sends(c)
  <2>1. \A d \in Clients :
          inbox'[d] = IF d \in Others(c) THEN Append(inbox[d], v) ELSE inbox[d]
    BY <1>3 DEF onLocalParamBatch, sendParamBatch
  <2>2. store' = v /\ shown' = [shown EXCEPT ![c] = v]
    BY <1>3 DEF onLocalParamBatch, sendParamBatch, applyLocalParamBatch, updateParameterList, Sends
  <2> QED
    BY <1>1, <1>2, <1>3, <2>1, <2>2 DEF Typed
<1>4. CASE ~ Sends(c)
  BY <1>4 DEF onLocalParamBatch
<1> QED
  BY <1>3, <1>4

\* Sending v for c when no change of the others is leaving: what is left to
\* show is about c.
LEMMA SendWide ==
  ASSUME Wide, NEW c \in Clients, NEW v \in Values, onLocalParamBatch(c, v),
         vrc' = vrc, toVrc' = toVrc, reports' = reports, inRoom' = inRoom, edits' = edits, edited' = edited,
         \A d \in Clients \ {c} : pending'[d] = pending[d] /\ rapid'[d] = rapid[d],
         causes \subseteq causes',
         Calm' /\ inRoom[c] => ~ Crossing(c) /\ inbox[c] = <<>>,
         Alone' /\ inRoom[c] => passes[c],
         Alone /\ Alone' /\ Newest(c) /\ Synced(c) /\ Listed(c) =>
           Newest(c)' /\ (inRoom[c] /\ ~ Own(c)' => Due(c) = v)
  PROVE  Elsewhere' /\ Current' /\ InStep'
<1>0. Typed
  BY DEF Wide, Inv
<1>1. /\ inbox'[c] = inbox[c]
      /\ Sends(c) => store' = v /\ shown'[c] = v
      /\ ~ Sends(c) => store' = store /\ inbox' = inbox /\ shown' = shown
      /\ \A d \in Clients \ {c} :
           /\ shown'[d] = shown[d]
           /\ ~ inRoom[d] => inbox'[d] = inbox[d]
           /\ Sends(c) /\ inRoom[d] => inbox'[d] # <<>> /\ inbox'[d][Len(inbox'[d])] = v
  BY <1>0, Sent
<1>2. (Calm' => Calm) /\ (Alone' => Alone) /\ (Alone => Calm)
  BY DEF Calm, Alone
<1>3. Elsewhere'
  BY <1>1 DEF Wide, Elsewhere
<1>4. \A d \in Clients \ {c} : Own(d)' <=> Own(d)
  BY Untouched
<1>5. \A d \in Clients : ~ inRoom[d] => inbox'[d] = <<>>
  BY <1>1 DEF Wide, Elsewhere
<1>6. ASSUME Calm', NEW d \in Clients PROVE OwnFirst(d)' /\ Listed(d)'
  <2>1. OwnFirst(d) /\ Listed(d)
    BY <1>2, <1>6 DEF Wide, Current
  <2>2. CASE ~ inRoom[d]
    BY <1>5, <2>2 DEF OwnFirst, Listed
  <2>3. CASE d = c /\ inRoom[d]
    BY <1>1, <1>6, <2>1, <2>3 DEF OwnFirst, Listed
  <2>4. CASE d # c /\ inRoom[d] /\ Sends(c)
    <3>1. ~ Leaving(d)
      BY <1>6, <2>4 DEF Crossing, Sends, Others
    <3>2. ~ Own(d)'
      BY <1>4, <2>4, <3>1, OwnLeaves
    <3> QED
      BY <1>1, <2>4, <3>2 DEF OwnFirst, Listed
  <2>5. CASE d # c /\ ~ Sends(c)
    BY <1>1, <2>1, <2>5, Untouched
  <2> QED
    BY <2>2, <2>3, <2>4, <2>5
<1>7. ASSUME Alone', NEW d \in Clients PROVE Newest(d)' /\ Synced(d)'
  <2>1. Newest(d) /\ Synced(d) /\ Listed(d)
    BY <1>2, <1>7 DEF Wide, Current, InStep
  <2>2. CASE d = c
    <3>1. Newest(c)' /\ (inRoom[c] /\ ~ Own(c)' => Due(c) = v)
      BY <1>2, <1>7, <2>1, <2>2
    <3>2. Due(c)' = Due(c)
      BY DEF Due
    <3> QED
      BY <1>1, <1>7, <2>2, <3>1, <3>2 DEF Synced, Sends
  <2>3. CASE d # c /\ Sends(c)
    <3>1. Newest(d)'
      BY <2>1, <2>3, Untouched
    <3> QED
      BY <1>1, <2>3, <3>1 DEF Synced
  <2>4. CASE d # c /\ ~ Sends(c)
    BY <1>1, <2>1, <2>4, Untouched
  <2> QED
    BY <2>2, <2>3, <2>4
<1> QED
  BY <1>3, <1>6, <1>7 DEF Current, InStep

LEMMA FlushPendingWide ==
  ASSUME Wide, NEW c \in Clients, flushPendingParams(c)
  PROVE  Elsewhere' /\ Current' /\ InStep'
<1>0. Typed
  BY DEF Wide, Inv
<1>1. /\ vrc' = vrc /\ toVrc' = toVrc /\ reports' = reports /\ inRoom' = inRoom
      /\ edits' = edits /\ edited' = edited
      /\ pending[c] # Nil /\ pending' = [pending EXCEPT ![c] = Nil]
      /\ \/ /\ rapid' = [rapid EXCEPT ![c] = pending[c]]
            /\ store' = store /\ inbox' = inbox /\ shown' = shown /\ causes' = causes
         \/ /\ onLocalParamBatch(c, pending[c].value) /\ rapid' = rapid
            /\ causes' = causes \cup Why("slowed", rapid[c] # Nil) \cup Sending(c)
  BY DEF flushPendingParams
<1>2. /\ pending'[c] = Nil /\ pending[c].value \in Values
      /\ \A d \in Clients \ {c} : pending'[d] = pending[d] /\ rapid'[d] = rapid[d]
  BY <1>0, <1>1 DEF Typed, Report
<1>3. (OwnReport(c)' <=> OwnReport(c)) /\ Own(c)
  BY <1>1 DEF OwnReport, Own
<1>4. CASE /\ rapid' = [rapid EXCEPT ![c] = pending[c]]
           /\ store' = store /\ inbox' = inbox /\ shown' = shown /\ causes' = causes
  <2>1. rapid'[c] = pending[c]
    BY <1>0, <1>4 DEF Typed
  <2>2. Own(c)'
    BY <1>1, <2>1 DEF Own
  <2>3. OwnFirst(c) /\ Listed(c) => OwnFirst(c)' /\ Listed(c)'
    BY <1>1, <1>3, <1>4 DEF OwnFirst, Listed
  <2>4. Newest(c) => Newest(c)'
    BY <1>1, <1>2, <1>3, <2>1 DEF Newest
  <2>5. Synced(c)'
    BY <2>2 DEF Synced
  <2> QED
    BY <1>1, <1>2, <1>4, <2>3, <2>4, <2>5, StepOfOne DEF Wide, Elsewhere
<1>5. CASE /\ onLocalParamBatch(c, pending[c].value) /\ rapid' = rapid
           /\ causes' = causes \cup Why("slowed", rapid[c] # Nil) \cup Sending(c)
  <2>1. causes \subseteq causes'
    BY <1>5
  <2>2. Calm' /\ inRoom[c] => ~ Crossing(c) /\ inbox[c] = <<>>
    <3>1. Calm' => Calm /\ ~ Crossing(c)
      BY <1>5 DEF Calm, Sending, Why
    <3> QED
      BY <1>3, <3>1 DEF Wide, Current, OwnFirst
  <2>4. Alone' /\ inRoom[c] => passes[c]
    BY <1>5 DEF Alone, Sending, Why
  <2>3. ASSUME Alone', Newest(c)
        PROVE  Newest(c)' /\ (inRoom[c] /\ ~ Own(c)' => Due(c) = pending[c].value)
    <3>1. rapid[c] = Nil /\ toVrc[c] = <<>>
      BY <1>3, <1>5, <2>3 DEF Alone, Why, Newest
    <3>2. Newest(c)'
      BY <1>1, <1>2, <1>3, <1>5, <2>3, <3>1 DEF Newest
    <3>3. ~ Own(c)' => ~ OwnReport(c)
      BY <1>3 DEF Own
    <3>4. ~ OwnReport(c) => pending[c].value = vrc[c]
      BY <1>1, <2>3 DEF Newest
    <3> QED
      BY <3>1, <3>2, <3>3, <3>4 DEF Due
  <2> QED
    BY <1>1, <1>2, <1>5, <2>1, <2>2, <2>3, <2>4, SendWide
<1> QED
  BY <1>1, <1>4, <1>5

LEMMA FlushRapidWide ==
  ASSUME Wide, NEW c \in Clients, flushRapidParams(c)
  PROVE  Elsewhere' /\ Current' /\ InStep'
<1>0. Typed
  BY DEF Wide, Inv
<1>1. /\ vrc' = vrc /\ toVrc' = toVrc /\ reports' = reports /\ inRoom' = inRoom /\ pending' = pending
      /\ edits' = edits /\ edited' = edited
      /\ rapid[c] # Nil /\ rapid' = [rapid EXCEPT ![c] = Nil]
      /\ onLocalParamBatch(c, rapid[c].value)
      /\ causes' = causes \cup Sending(c)
  BY DEF flushRapidParams
<1>2. /\ rapid'[c] = Nil /\ rapid[c].value \in Values
      /\ \A d \in Clients \ {c} : pending'[d] = pending[d] /\ rapid'[d] = rapid[d]
  BY <1>0, <1>1 DEF Typed, Report
<1>3. (OwnReport(c)' <=> OwnReport(c)) /\ Own(c)
  BY <1>1 DEF OwnReport, Own
<1>6. Alone' /\ inRoom[c] => passes[c]
  BY <1>1 DEF Alone, Sending, Why
<1>4. Calm' /\ inRoom[c] => ~ Crossing(c) /\ inbox[c] = <<>>
  <2>1. Calm' => Calm /\ ~ Crossing(c)
    BY <1>1 DEF Calm, Sending, Why
  <2> QED
    BY <1>3, <2>1 DEF Wide, Current, OwnFirst
<1>5. ASSUME Newest(c)
      PROVE  Newest(c)' /\ (inRoom[c] /\ ~ Own(c)' => Due(c) = rapid[c].value)
  <2>1. toVrc[c] = <<>>
    BY <1>3, <1>5 DEF Newest
  <2>2. Newest(c)'
    BY <1>1, <1>2, <1>3, <1>5, <2>1 DEF Newest
  <2>3. ~ Own(c)' => ~ OwnReport(c) /\ pending[c] = Nil
    BY <1>1, <1>3 DEF Own
  <2>4. ~ OwnReport(c) /\ pending[c] = Nil => rapid[c].value = vrc[c]
    BY <1>1, <1>5 DEF Newest
  <2> QED
    BY <2>1, <2>2, <2>3, <2>4 DEF Due
<1> QED
  BY <1>1, <1>2, <1>4, <1>5, <1>6, SendWide

LEMMA SendAllWide ==
  ASSUME Wide, NEW c \in Clients, sendAllParams(c)
  PROVE  Elsewhere' /\ Current' /\ InStep'
<1>1. /\ vrc' = vrc /\ toVrc' = toVrc /\ reports' = reports /\ inRoom' = inRoom
      /\ pending' = pending /\ rapid' = rapid /\ edits' = edits /\ edited' = edited
      /\ inRoom[c] /\ passes[c] /\ shown[c] # Nil /\ onLocalParamBatch(c, shown[c])
      /\ causes' = causes \cup Why("crossed", inbox[c] # <<>> \/ Crossing(c))
  BY DEF sendAllParams, Sends, onLocalParamBatch
<1>2. shown[c] \in Values
  BY <1>1 DEF Wide, Inv, Typed
<1>3. Calm' => ~ Crossing(c) /\ inbox[c] = <<>>
  BY <1>1 DEF Calm, Why
<1>4. Own(c)' <=> Own(c)
  BY <1>1 DEF OwnReport, Own
<1>5. ASSUME Alone', Newest(c), Synced(c), Listed(c)
      PROVE  Newest(c)' /\ (inRoom[c] /\ ~ Own(c)' => Due(c) = shown[c])
  <2>1. Newest(c)'
    BY <1>1, <1>5, Untouched
  <2>2. inbox[c] = <<>>
    BY <1>3, <1>5 DEF Alone, Calm
  <2>3. shown[c] = store /\ store # Nil
    BY <1>1, <1>5, <2>2 DEF Listed
  <2> QED
    BY <1>4, <1>5, <2>1, <2>2, <2>3 DEF Synced
<1> QED
  BY <1>1, <1>2, <1>3, <1>5, SendWide

-----------------------------------------------------------------------------

LEMMA NextWide ==
  ASSUME Timely, Wide, [Next]_vars
  PROVE  Wide'
<1>0. SUFFICES Elsewhere' /\ Current' /\ InStep'
  BY NextInv DEF Wide
<1>1. CASE Tick
  BY <1>1, StepOfNone DEF Tick
<1>2. ASSUME NEW c \in Clients, NEW v \in Values, Change(c, v) PROVE Elsewhere' /\ Current' /\ InStep'
  BY <1>2, ChangeWide
<1>3. ASSUME NEW c \in Clients, NEW d \in Clients, NEW v \in Values, Edit(c, d, v)
      PROVE  Elsewhere' /\ Current' /\ InStep'
  BY <1>3, EditWide
<1>4. ASSUME NEW c \in Clients, Toggle(c) PROVE Elsewhere' /\ Current' /\ InStep'
  BY <1>4, StepOfNone DEF Toggle
<1>5. ASSUME NEW c \in Clients, applyRoomSettingsUpdated(c) \/ AvatarChange(c)
      PROVE  Elsewhere' /\ Current' /\ InStep'
  <2>1. \A d \in Clients : shown'[d] \in {Nil, shown[d]}
    BY <1>5 DEF applyRoomSettingsUpdated, AvatarChange, updateParameterList, Unlist, Wide, Inv, Typed
  <2> QED
    BY <1>5, <2>1, StepOfNone DEF applyRoomSettingsUpdated, AvatarChange
<1>6. ASSUME NEW c \in Clients, Join(c) \/ Leave(c) PROVE Elsewhere' /\ Current' /\ InStep'
  BY <1>6, JoinWide, LeaveWide
<1>7. ASSUME NEW c \in Clients, sendAllParams(c) PROVE Elsewhere' /\ Current' /\ InStep'
  BY <1>7, SendAllWide
<1>8. ASSUME NEW c \in Clients, Take(c) PROVE Elsewhere' /\ Current' /\ InStep'
  BY <1>8, TakeWide
<1>9. ASSUME NEW c \in Clients, Service(c) PROVE Elsewhere' /\ Current' /\ InStep'
  BY <1>9, HandleWide, ApplyWide, RemoteEditWide, FlushPendingWide, FlushRapidWide DEF Service
<1>10. CASE UNCHANGED vars
  BY <1>10, StepOfNone DEF vars
<1> QED
  BY <1>1, <1>2, <1>3, <1>4, <1>5, <1>6, <1>7, <1>8, <1>9, <1>10 DEF Next, User

LEMMA WideSuffices == Wide => ListIsCurrent /\ Agreement
<1> SUFFICES ASSUME Wide PROVE ListIsCurrent /\ Agreement
  OBVIOUS
<1>1. causes \cap {"crossed", "overlapped"} = {} => Calm
  BY DEF Calm
<1>2. ListIsCurrent
  BY <1>1 DEF Wide, Current, Listed, ListIsCurrent
<1>3. ASSUME NEW c \in Clients, Quiet, Alone, store # Nil, inRoom[c] PROVE vrc[c] = store
  <2>1. ~ Own(c) /\ inbox[c] = <<>> /\ toVrc[c] = <<>>
    BY <1>3, OwnLeaves DEF Quiet, Arriving
  <2> QED
    BY <1>3, <2>1 DEF Wide, InStep, Synced, Due
<1>4. Agreement
  BY <1>3 DEF Agreement, Alone
<1> QED
  BY <1>2, <1>4

LEMMA WideHolds == Timely => (Spec => []Wide)
<1> SUFFICES ASSUME Timely PROVE Spec => []Wide
  OBVIOUS
<1>1. Init => Wide
  BY InitInv, InitWide DEF Wide
<1>2. Wide /\ [Next]_vars => Wide'
  BY NextWide
<1> QED
  BY <1>1, <1>2, PTL DEF Spec

\* If VRChat answers in time, and as long as no changes crossed and no played
\* values overlapped, a client that has taken what the server sent lists the
\* server's value: what it sends with sendAllParams is not out of date.
THEOREM ListsAreCurrent == Timely => (Spec => []ListIsCurrent)
<1> SUFFICES ASSUME Timely PROVE Spec => []ListIsCurrent
  OBVIOUS
<1>1. Spec => []Wide
  BY WideHolds
<1> QED
  BY <1>1, WideSuffices, PTL

\* If VRChat answers in time and nothing was edited, the VRChats of the clients in
\* the room have the server's value when nothing is on its way; only changes that
\* crossed, were taken for an echo, came out of order or were kept back by the
\* room's filter, and values that overlapped or were not played back keep them
\* apart (onLocalParamBatch, applyRemoteBatch).
THEOREM ClientsAgree == Timely => (Spec => []Agreement)
<1> SUFFICES ASSUME Timely PROVE Spec => []Agreement
  OBVIOUS
<1>1. Spec => []Wide
  BY WideHolds
<1> QED
  BY <1>1, WideSuffices, PTL

=============================================================================

--------------------------- MODULE VirtualHmd_proofs ---------------------------
(***************************************************************************)
(* The user's driver_null survives every crash and every failed write, in  *)
(* the middle of a write too, for any set of sections, unless it is lost   *)
(* in one of the three ways VirtualHmd names.                              *)
(***************************************************************************)
EXTENDS VirtualHmd, TLAPS

\* What the backup says is the user's.
BackupGood == backup \in Values => Good(backup)

\* What the settings say is the user's, or the backup has it, or the running call
\* is about to write it.
Backed == Good(Shown) \/ backup \in Values \/ pc = "fillRestored"

\* What the running call knows and has done.
CallKnows ==
  /\ pc = "keep" /\ backup = NoFile => Good(config) /\ Good(Shown)
  /\ pc = "fillBackup" => Good(config) /\ Good(Shown)
  /\ pc = "fillOurs" => backup \in Values
  /\ pc \in {"put", "restore"} => Good(Shown) \/ backup \in Values
  /\ pc = "put" => backup # NoFile
  /\ pc = "restore" => config = Shown
  /\ pc \in {"undo", "fillRestored"} => Good(config) /\ backup # Damaged
  /\ pc = "forget" => Good(Shown)

\* All of it while the user's value is not lost.
Safe == BackupGood /\ Backed /\ CallKnows

Inv == TypeOK /\ (lost \/ Safe)

-----------------------------------------------------------------------------

\* The special values are no sections.
LEMMA Distinct ==
  /\ NoFile \notin Values /\ Damaged \notin Values /\ NoFile # Damaged
  /\ Absent \in Values /\ Ours \in Values /\ Sections \subseteq Values
BY HmdAssumption DEF Values

\* Switching a section off gives a section, or the application's.
LEMMA SwitchedOffType == \A v \in Values : SwitchedOff(v) \in Values
BY HmdAssumption DEF SwitchedOff, Values

\* A good value may be switched off.
LEMMA OffGood ==
  ASSUME TypeOK, NEW v, Good(v) PROVE Good(SwitchedOff(v))
<1>1. CASE v = Absent
  BY <1>1 DEF SwitchedOff
<1>2. CASE v # Absent
  <2>1. wanted \in Sections
    BY <1>2, HmdAssumption DEF TypeOK, Good
  <2>2. v \in {wanted, Off[wanted]}
    BY DEF Good
  <2>3. Off[v] = Off[wanted]
    BY <2>1, <2>2, HmdAssumption
  <2> QED
    BY <1>2, <2>1, <2>3, HmdAssumption DEF Good, SwitchedOff
<1> QED
  BY <1>1, <1>2

\* The initial files are the user's.
LEMMA InitInv == Init => Inv
BY Distinct, HmdAssumption DEF Init, Inv, TypeOK, Safe, BackupGood, Backed, CallKnows, Good, Shown, Values

\* enableVirtualHmd keeps the invariant.
LEMMA EnableInv ==
  ASSUME Inv, EnableRead \/ Keep \/ FillBackup \/ Put \/ FillOurs PROVE Inv'
<1> USE Distinct
<1>1. CASE EnableRead
  BY <1>1 DEF EnableRead, Inv, TypeOK, Safe, BackupGood, Backed, CallKnows, Good, Shown, Filling
<1>2. CASE Keep
  BY <1>2 DEF Keep, Inv, TypeOK, Safe, BackupGood, Backed, CallKnows, Good, Shown, Filling
<1>3. CASE FillBackup
  BY <1>3 DEF FillBackup, Inv, TypeOK, Safe, BackupGood, Backed, CallKnows, Good, Shown, Filling
<1>4. CASE Put
  BY <1>4 DEF Put, Inv, TypeOK, Safe, BackupGood, Backed, CallKnows, Good, Shown, Filling
<1>5. CASE FillOurs
  BY <1>5 DEF FillOurs, Inv, TypeOK, Safe, BackupGood, Backed, CallKnows, Good, Shown, Filling
<1> QED
  BY <1>1, <1>2, <1>3, <1>4, <1>5

\* disableVirtualHmd keeps the invariant, as far as it reads the settings.
LEMMA DisableReadInv ==
  ASSUME Inv, AtRest, NEW quit \in BOOLEAN, NEW found \in BOOLEAN,
         DisableRead(quit, found),
         UNCHANGED <<settings, wanted>>, enabled' \in BOOLEAN
  PROVE  Inv'
<1> USE Distinct
<1>1. /\ pc' \in {"down", "idle", "restore"} /\ quits' \in BOOLEAN
      /\ steam' \in BOOLEAN
  BY DEF DisableRead, Returned
<1>2. CASE UNCHANGED <<backup, config, lost>>
  BY <1>1, <1>2 DEF DisableRead, Returned, Inv, TypeOK, Safe, BackupGood, Backed, CallKnows, Good, Shown, AtRest
<1>3. CASE /\ backup' = NoFile /\ lost' = (lost \/ ~ Good(Shown))
           /\ pc' = Returned(quit) /\ UNCHANGED config
  <2>1. pc' \in {"down", "idle"}
    BY <1>3 DEF Returned
  <2> QED
    BY <1>1, <1>3, <2>1 DEF Inv, TypeOK, Safe, BackupGood, Backed, CallKnows, Good, Shown
<1>4. CASE /\ settings \notin {NoFile, Damaged} /\ config' = settings
           /\ pc' = "restore" /\ UNCHANGED <<backup, lost>>
  BY <1>1, <1>4 DEF Inv, TypeOK, Safe, BackupGood, Backed, CallKnows, Good, Shown, AtRest
<1> QED
  BY <1>2, <1>3, <1>4 DEF DisableRead

\* So do the calls that begin with it.
LEMMA CallsInv ==
  ASSUME Inv, Start \/ (\E quit \in BOOLEAN : Leave(quit)) PROVE Inv'
<1> USE Distinct
<1>1. CASE Start
  <2>1. CASE backup # NoFile
    BY <1>1, <2>1, DisableReadInv DEF Start, AtRest
  <2>2. CASE backup = NoFile
    BY <1>1, <2>2 DEF Start, Inv, TypeOK, Safe, BackupGood, Backed, CallKnows, Good, Shown
  <2> QED
    BY <2>1, <2>2
<1>2. ASSUME NEW quit \in BOOLEAN, Leave(quit) PROVE Inv'
  <2>1. CASE enabled \/ backup # NoFile
    BY <1>2, <2>1, DisableReadInv DEF Leave, AtRest, Inv, TypeOK
  <2>2. CASE ~ (enabled \/ backup # NoFile)
    BY <1>2, <2>2 DEF Leave, Returned, Inv, TypeOK, Safe, BackupGood, Backed, CallKnows, Good, Shown
  <2> QED
    BY <2>1, <2>2
<1> QED
  BY <1>1, <1>2

\* The rest of disableVirtualHmd keeps the invariant.
LEMMA RestoreInv ==
  ASSUME Inv, Restore \/ Undo \/ FillRestored \/ Forget PROVE Inv'
<1> USE Distinct
<1>1. CASE Restore
  <2>1. /\ settings' = settings /\ backup' = backup /\ enabled' = enabled
        /\ steam' = steam /\ quits' = quits /\ wanted' = wanted /\ lost' = lost
    BY <1>1 DEF Restore
  <2>2. CASE backup = Damaged
    BY <1>1, <2>1, <2>2 DEF Restore, Returned, Inv, TypeOK, Safe, BackupGood, Backed, CallKnows, Good, Shown
  <2>3. CASE backup # Damaged
    <3>1. pc' = "undo" /\ config' = IF backup = NoFile THEN SwitchedOff(config) ELSE backup
      BY <1>1, <2>3 DEF Restore
    <3>2. config' \in Values
      BY <2>3, <3>1, SwitchedOffType DEF Inv, TypeOK
    <3>3. Safe => Good(config')
      <4>1. SUFFICES ASSUME Safe PROVE Good(config')
        OBVIOUS
      <4>2. CASE backup # NoFile
        BY <2>3, <3>1, <4>1, <4>2 DEF Inv, TypeOK, Safe, BackupGood
      <4>3. CASE backup = NoFile
        BY <1>1, <3>1, <4>1, <4>3, OffGood DEF Restore, Inv, Safe, CallKnows
      <4> QED
        BY <4>2, <4>3
    <3>4. Safe => Safe'
      BY <1>1, <2>1, <2>3, <3>1, <3>3 DEF Restore, Safe, BackupGood, Backed, CallKnows, Good, Shown
    <3> QED
      BY <2>1, <3>1, <3>2, <3>4 DEF Inv, TypeOK
  <2> QED
    BY <2>2, <2>3
<1>2. CASE Undo
  BY <1>2 DEF Undo, Inv, TypeOK, Safe, BackupGood, Backed, CallKnows, Good, Shown, Filling
<1>3. CASE FillRestored
  BY <1>3 DEF FillRestored, Inv, TypeOK, Safe, BackupGood, Backed, CallKnows, Good, Shown, Filling
<1>4. CASE Forget
  BY <1>4 DEF Forget, Returned, Inv, TypeOK, Safe, BackupGood, Backed, CallKnows, Good, Shown, Filling
<1> QED
  BY <1>1, <1>2, <1>3, <1>4

\* A write that fails, a killed application and the user keep the invariant.
LEMMA OthersInv ==
  ASSUME Inv,
         Fail \/ Crash \/ (\E v \in Sections \cup {Absent} : Edit(v)) \/ Delete
  PROVE  Inv'
<1> USE Distinct
<1>1. CASE Fail
  BY <1>1 DEF Fail, CutShort, Returned, Inv, TypeOK, Safe, BackupGood, Backed, CallKnows, Good, Shown, Filling
<1>2. CASE Crash
  BY <1>2 DEF Crash, CutShort, Inv, TypeOK, Safe, BackupGood, Backed, CallKnows, Good, Shown, Filling
<1>3. ASSUME NEW v \in Sections \cup {Absent}, Edit(v) PROVE Inv'
  BY <1>3 DEF Edit, AtRest, Inv, TypeOK, Safe, BackupGood, Backed, CallKnows, Good, Shown, Filling
<1>4. CASE Delete
  BY <1>4 DEF Delete, AtRest, Inv, TypeOK, Safe, BackupGood, Backed, CallKnows, Good, Shown, Filling
<1> QED
  BY <1>1, <1>2, <1>3, <1>4

\* The invariant holds for ever.
LEMMA InvAlways == Spec => []Inv
<1>1. Inv /\ [Next]_vars => Inv'
  <2> SUFFICES ASSUME Inv, [Next]_vars PROVE Inv'
    OBVIOUS
  <2>1. CASE UNCHANGED vars
    BY <2>1 DEF vars, Inv, TypeOK, Safe, BackupGood, Backed, CallKnows, Good, Shown
  <2>2. CASE Next
    BY <2>2, EnableInv, CallsInv, RestoreInv, OthersInv DEF Next
  <2> QED
    BY <2>1, <2>2
<1> QED
  BY <1>1, InitInv, PTL DEF Spec

-----------------------------------------------------------------------------

\* Wherever a call ends, in the middle of a write too, the user's driver_null is in
\* the settings or in the backup or about to be put back, unless the application
\* has destroyed it: disableVirtualHmd by removing a backup when Steam or its
\* settings are not found, or in a write cut short without a backup,
\* enableVirtualHmd by enabling the virtual HMD with a damaged backup.
THEOREM UserSectionKept == Spec => []SectionKept
<1>1. Inv => SectionKept
  BY DEF Inv, Safe, BackupGood, Backed, CallKnows, SectionKept
<1> QED
  BY <1>1, InvAlways, PTL

\* A backup is there as long as something of the application is left in the
\* settings (disableVirtualHmd removes it last), unless the user's value was
\* destroyed in one of these ways.
THEOREM NothingOfOursLeft == Spec => []NothingOfOurs
<1>1. Inv => NothingOfOurs
  BY Distinct DEF Inv, Safe, Backed, NothingOfOurs, AtRest
<1> QED
  BY <1>1, InvAlways, PTL
=============================================================================

------------------------------ MODULE VirtualHmd ------------------------------
(***************************************************************************)
(* The virtual HMD (virtual-hmd.ts and its callers in index.ts of the main *)
(* process): while the application receives trackers without a headset,    *)
(* driver_null of SteamVR's settings has the application's value, and a    *)
(* backup file keeps the user's, which is put back afterwards.  Nothing is *)
(* put back when Steam or its settings are not found, or when the backup   *)
(* is damaged: history variable lost says that the user's value has gone.  *)
(*                                                                         *)
(* Each action is one operation on a file.  Writing a file empties it      *)
(* first: an application that ends in between leaves a damaged one.        *)
(***************************************************************************)
CONSTANTS
  Sections,     \* what the user may want driver_null to be
  Ours,         \* what enableVirtualHmd makes it
  Off,          \* Off[v]: v with enable = false
  Absent,       \* no driver_null; null in the backup
  NoFile,       \* there is no such file
  Damaged       \* the file is not JSON

ASSUME HmdAssumption ==
  /\ Ours \notin Sections
  /\ Off \in [Sections \cup {Ours} -> Sections \cup {Ours}]
  /\ \A v \in Sections : Off[v] \in Sections /\ Off[Off[v]] = Off[v]
  /\ Absent \notin Sections \cup {Ours}
  /\ NoFile \notin Sections \cup {Ours, Absent}
  /\ Damaged \notin Sections \cup {Ours, Absent, NoFile}

VARIABLES
  settings,  \* driver_null in steamvr.vrsettings
  backup,    \* the value in the backup file
  enabled,   \* didWeEnableVirtualHmd
  steam,     \* cachedSteamPath # null
  config,    \* driver_null of the running call's config
  pc,        \* where the running call is; "idle", or "down" without application
  quits,     \* TRUE: the application ends after the running call
  wanted,    \* what the user wants driver_null to be
  lost       \* history: the application has destroyed what the user wants

vars == <<settings, backup, enabled, steam, config, pc, quits, wanted, lost>>

Values  == Sections \cup {Ours, Absent}
AtRest  == pc \in {"down", "idle"}
Filling == {"fillBackup", "fillOurs", "fillRestored"}

TypeOK ==
  /\ settings \in Values \cup {NoFile, Damaged}
  /\ backup \in Values \cup {NoFile, Damaged}
  /\ enabled \in BOOLEAN
  /\ config \in Values
  /\ pc \in {"down", "idle", "keep", "put", "restore", "undo", "forget"} \cup Filling
  /\ quits \in BOOLEAN
  /\ wanted \in Sections \cup {Absent}
  /\ steam \in BOOLEAN /\ lost \in BOOLEAN

\* driver_null as the settings have it.
Shown == IF settings = NoFile THEN Absent ELSE settings

\* A value of driver_null the user can live with: the wanted one, perhaps
\* switched off.
Good(v) == v = wanted \/ (wanted # Absent /\ v = Off[wanted])

Init ==
  /\ settings \in Sections \cup {Absent, NoFile}
  /\ wanted = Shown /\ lost = FALSE
  /\ backup = NoFile
  /\ enabled = FALSE /\ steam = FALSE /\ config = Absent /\ pc = "down" /\ quits = FALSE

Returned(quit) == IF quit THEN "down" ELSE "idle"

-----------------------------------------------------------------------------
(* enableVirtualHmd, which ensureVirtualHmdForReceive calls unless SteamVR *)
(* runs.                                                                   *)

\* Up to the writing of the backup.  Steam has been found, now or before; when it
\* is not found the call returns at once.
EnableRead ==
  /\ pc = "idle"
  /\ settings # Damaged
  /\ steam' = TRUE
  /\ config' = Shown
  /\ pc' = "keep"
  /\ quits' = FALSE
  /\ UNCHANGED <<settings, backup, enabled, wanted, lost>>

KeepAlways ==
  /\ pc = "keep"
  /\ backup' = Damaged /\ pc' = "fillBackup"
  /\ UNCHANGED <<settings, enabled, config, steam, quits, wanted, lost>>

\* A backup that exists has not been put back yet: it stays, damaged or not.
Keep ==
  /\ pc = "keep"
  /\ IF backup = NoFile THEN backup' = Damaged /\ pc' = "fillBackup"
                        ELSE pc' = "put" /\ UNCHANGED backup
  /\ UNCHANGED <<settings, enabled, config, steam, quits, wanted, lost>>

FillBackup ==
  /\ pc = "fillBackup"
  /\ backup' = config
  /\ pc' = "put"
  /\ UNCHANGED <<settings, enabled, config, steam, quits, wanted, lost>>

Put ==
  /\ pc = "put"
  /\ settings' = Damaged
  /\ lost' = (lost \/ backup = Damaged)
  /\ pc' = "fillOurs"
  /\ UNCHANGED <<backup, enabled, config, steam, quits, wanted>>

FillOurs ==
  /\ pc = "fillOurs"
  /\ settings' = Ours
  /\ enabled' = TRUE
  /\ pc' = "idle"
  /\ UNCHANGED <<backup, config, steam, quits, wanted, lost>>

-----------------------------------------------------------------------------
(* disableVirtualHmd.                                                      *)

\* What findSteamPath may find: the folder once it has been found, and else any.
findSteamPath(found) == steam => found

\* Up to the reading of the settings.  Without Steam or without its settings the
\* backup is removed all the same, if it can be, whatever the settings have.
DisableRead(quit, found) ==
  /\ quits' = quit
  /\ steam' = found
  /\ \/ /\ ~ found \/ settings = NoFile
        /\ \/ backup' = NoFile /\ lost' = (lost \/ ~ Good(Shown))
           \/ UNCHANGED <<backup, lost>>
        /\ pc' = Returned(quit)
        /\ UNCHANGED config
     \/ /\ found /\ settings # NoFile    \* not readable, or not JSON
        /\ pc' = Returned(quit)
        /\ UNCHANGED <<backup, config, lost>>
     \/ /\ found /\ settings \notin {NoFile, Damaged}
        /\ config' = settings
        /\ pc' = "restore"
        /\ UNCHANGED <<backup, lost>>

\* The user stops receiving trackers, or closes the window.
Leave(quit) ==
  /\ pc = "idle"
  /\ IF enabled \/ backup # NoFile
     THEN \E found \in BOOLEAN : findSteamPath(found) /\ DisableRead(quit, found)
     ELSE /\ pc' = Returned(quit) /\ quits' = quit
          /\ UNCHANGED <<backup, steam, config, lost>>
  /\ UNCHANGED <<settings, enabled, wanted>>

\* The application starts, and recovers if there is a backup.
Start ==
  /\ pc = "down"
  /\ enabled' = FALSE
  /\ IF backup # NoFile
     THEN \E found \in BOOLEAN : DisableRead(FALSE, found)
     ELSE /\ pc' = "idle" /\ quits' = FALSE /\ steam' = FALSE
          /\ UNCHANGED <<backup, config, lost>>
  /\ UNCHANGED <<settings, wanted>>

SwitchedOff(v) == IF v = Absent THEN Absent ELSE Off[v]

RestoreUnlessNull ==
  /\ pc = "restore"
  /\ IF backup = Damaged THEN pc' = Returned(quits) /\ UNCHANGED config
     ELSE /\ pc' = "undo"
          /\ config' = CASE backup = NoFile -> SwitchedOff(config)
                         [] backup = Absent -> config
                         [] OTHER           -> backup
  /\ UNCHANGED <<settings, backup, enabled, steam, quits, wanted, lost>>

\* The reading of the backup.  Without one the section is only switched off.
Restore ==
  /\ pc = "restore"
  /\ IF backup = Damaged THEN pc' = Returned(quits) /\ UNCHANGED config
     ELSE /\ pc' = "undo"
          /\ config' = IF backup = NoFile THEN SwitchedOff(config) ELSE backup
  /\ UNCHANGED <<settings, backup, enabled, steam, quits, wanted, lost>>

Undo ==
  /\ pc = "undo"
  /\ settings' = Damaged
  /\ pc' = "fillRestored"
  /\ UNCHANGED <<backup, enabled, config, steam, quits, wanted, lost>>

FillRestored ==
  /\ pc = "fillRestored"
  /\ settings' = config
  /\ enabled' = FALSE
  /\ pc' = "forget"
  /\ UNCHANGED <<backup, config, steam, quits, wanted, lost>>

\* removeBackup
Forget ==
  /\ pc = "forget"
  /\ backup' = NoFile
  /\ pc' = Returned(quits)
  /\ UNCHANGED <<settings, enabled, config, steam, quits, wanted, lost>>

-----------------------------------------------------------------------------
(* What goes wrong, and what the user does.                                *)

\* A write that is cut short leaves a damaged file; if it was putting back a value
\* that no backup keeps, the value has gone.
CutShort == lost' = (lost \/ (pc = "fillRestored" /\ backup = NoFile))

\* Writing or removing a file fails, before it touches the file or in the middle;
\* the call catches the exception and returns.
Fail ==
  /\ pc \in {"keep", "put", "undo", "forget"} \cup Filling
  /\ CutShort
  /\ pc' = Returned(quits)
  /\ UNCHANGED <<settings, backup, enabled, steam, config, quits, wanted>>

\* The application is killed.
Crash ==
  /\ pc # "down"
  /\ CutShort
  /\ pc' = "down"
  /\ UNCHANGED <<settings, backup, enabled, steam, config, quits, wanted>>

\* The user changes driver_null while no backup waits to be put back.
Edit(v) ==
  /\ AtRest /\ backup \in {NoFile, Damaged}
  /\ settings' = v /\ wanted' = v /\ lost' = FALSE
  /\ UNCHANGED <<backup, enabled, steam, config, pc, quits>>

\* The user deletes SteamVR's settings, but not what the backup keeps.
Delete ==
  /\ AtRest
  /\ settings' = NoFile
  /\ IF backup \in {NoFile, Damaged} THEN wanted' = Absent /\ lost' = FALSE
                                     ELSE UNCHANGED <<wanted, lost>>
  /\ UNCHANGED <<backup, enabled, steam, config, pc, quits>>

Next ==
  \/ EnableRead \/ Keep \/ FillBackup \/ Put \/ FillOurs
  \/ \E quit \in BOOLEAN : Leave(quit)
  \/ Start
  \/ Restore \/ Undo \/ FillRestored \/ Forget
  \/ Fail \/ Crash
  \/ \E v \in Sections \cup {Absent} : Edit(v)
  \/ Delete

Spec == Init /\ [][Next]_vars

-----------------------------------------------------------------------------
(* Properties.                                                             *)

\* "Persist original driver_null to disk so we can recover after a crash": the
\* user's driver_null is always in the settings, in the backup, or about to be
\* put back by the running call, although any call may end in the middle, also of
\* a write, as long as the application has not destroyed it.  It does so in three
\* ways only: by removing a backup when Steam or its settings are not found
\* (DisableRead), by enabling the virtual HMD with a damaged backup (Put), and by
\* a write cut short that switches off a section without a backup (CutShort).
SectionKept ==
  \/ lost
  \/ Good(Shown) \/ Good(backup)
  \/ pc = "fillRestored" /\ Good(config)

\* While no call is running and there is no backup, nothing of the application
\* is left in the settings (disableVirtualHmd removes the backup last), unless
\* the user's value was lost in one of these ways.
NothingOfOurs == AtRest /\ backup = NoFile => lost \/ Good(Shown)
=============================================================================

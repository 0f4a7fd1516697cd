---------------------------- MODULE DeviceProofs -----------------------------
(***************************************************************************)
(* Proofs about Settings and Device.  For every layout of the record,      *)
(* whatever callers change and whenever resets come, a group that is not   *)
(* owed is in the EEPROM, the defaults stay, and the byte-by-byte manager  *)
(* implements SettingsStore.  For any cards, files and settings the main   *)
(* program uses the manager as Settings says and hands on the last file    *)
(* that was reported.                                                      *)
(***************************************************************************)
EXTENDS Device, TLAPS

-----------------------------------------------------------------------------
(* The settings manager.                                                   *)

(* What the main thread has done of its current job: the bytes below       *)
(* `address' are already in the EEPROM.                                    *)
Progress ==
  /\ job \in {"off", "idle"} => group = NoGroup
  /\ job = "off" => settings_flags = {} /\ touched = {}
  /\ job = "save" =>
       /\ group \in settings_flags
       /\ address \in Offset[group] .. GroupEnd(group)
       /\ \A a \in Region[group] : a < address => eeprom[a] = ram[a]
  /\ job = "restore" => \A a \in Ram : a < address => eeprom[a] = ram[a]

Inv == SettingsTypeOK /\ Progress /\ Saved

-----------------------------------------------------------------------------
(* The layout: groups lie within the record, and apart from each other.    *)
LEMMA LayoutFacts ==
  /\ SIZE \in Nat /\ SIZE > 0 /\ SIZE <= EEPROM_ENDING_ADDRESS
  /\ EEPROM_ENDING_ADDRESS \in Nat /\ 2 * SIZE <= EEPROM_ENDING_ADDRESS
  /\ Ram \subseteq Eeprom
  /\ \A g \in Groups :
       /\ Offset[g] \in Nat /\ Offset[g + 1] \in Nat
       /\ Offset[g] < Offset[g + 1] /\ Offset[g + 1] <= SIZE
       /\ Region[g] = Offset[g] .. Offset[g + 1] - 1
       /\ Region[g] \subseteq Ram
<1>1. /\ N \in Nat /\ N >= 1 /\ N + 1 \in 1 .. N + 1 /\ 1 \in 1 .. N + 1
      /\ Offset \in [1 .. N + 1 -> Nat] /\ Offset[1] = 0
      /\ \A g, h \in 1 .. N + 1 : g < h => Offset[g] < Offset[h]
      /\ EEPROM_ENDING_ADDRESS \in Nat /\ 2 * SIZE <= EEPROM_ENDING_ADDRESS
  BY SettingsAssumption
<1>2. SIZE \in Nat /\ SIZE > 0
  BY <1>1 DEF SIZE
<1>3. SIZE <= EEPROM_ENDING_ADDRESS
  BY <1>1, <1>2
<1>4. Ram \subseteq Eeprom
  BY <1>1, <1>2, <1>3 DEF Ram, Eeprom
<1>5. ASSUME NEW g \in Groups
      PROVE  /\ Offset[g] \in Nat /\ Offset[g + 1] \in Nat
             /\ Offset[g] < Offset[g + 1] /\ Offset[g + 1] <= SIZE
             /\ Region[g] = Offset[g] .. Offset[g + 1] - 1
             /\ Region[g] \subseteq Ram
  <2>1. g \in 1 .. N + 1 /\ g + 1 \in 1 .. N + 1 /\ g < g + 1
    BY <1>1 DEF Groups
  <2>2. Offset[g] \in Nat /\ Offset[g + 1] \in Nat /\ Offset[g] < Offset[g + 1]
    BY <1>1, <2>1
  <2>3. Offset[g + 1] <= SIZE
    <3>1. CASE g + 1 = N + 1
      BY <2>2, <3>1 DEF SIZE
    <3>2. CASE g + 1 < N + 1
      BY <1>1, <2>1, <2>2, <3>2 DEF SIZE
    <3> QED
      BY <1>1, <2>1, <3>1, <3>2
  <2>4. Region[g] = Offset[g] .. Offset[g + 1] - 1
    BY DEF Region
  <2> QED
    BY <1>2, <2>2, <2>3, <2>4 DEF Ram
<1> QED
  BY <1>1, <1>2, <1>3, <1>4, <1>5

(* A byte of the record belongs to some group, and to no other.            *)
LEMMA Covered == \A a \in Ram : \E g \in Groups : a \in Region[g]
  BY SettingsAssumption

LEMMA Apart ==
  ASSUME NEW g \in Groups, NEW h \in Groups, g # h, NEW a \in Region[g]
  PROVE  a \notin Region[h]
<1>1. /\ N \in Nat /\ \A k, l \in 1 .. N + 1 : k < l => Offset[k] < Offset[l]
  BY SettingsAssumption
<1>2. a \in Offset[g] .. Offset[g + 1] - 1 /\ Region[h] = Offset[h] .. Offset[h + 1] - 1
  BY LayoutFacts
<1>3. /\ Offset[g] \in Nat /\ Offset[h] \in Nat
      /\ Offset[g + 1] \in Nat /\ Offset[h + 1] \in Nat
  BY LayoutFacts
<1>4. CASE g < h
  <2>1. g + 1 = h \/ g + 1 < h
    BY <1>1, <1>4 DEF Groups
  <2>2. Offset[g + 1] <= Offset[h]
    BY <1>1, <1>3, <2>1 DEF Groups
  <2> QED
    BY <1>2, <1>3, <2>2
<1>5. CASE h < g
  <2>1. h + 1 = g \/ h + 1 < g
    BY <1>1, <1>5 DEF Groups
  <2>2. Offset[h + 1] <= Offset[g]
    BY <1>1, <1>3, <2>1 DEF Groups
  <2> QED
    BY <1>2, <1>3, <2>2
<1> QED
  BY <1>1, <1>4, <1>5 DEF Groups

-----------------------------------------------------------------------------
LEMMA InitEstablishes == SettingsInit => Inv
<1> SUFFICES ASSUME SettingsInit PROVE Inv
  OBVIOUS
<1>1. SettingsTypeOK
  BY SettingsAssumption, LayoutFacts DEF SettingsInit, SettingsTypeOK
<1>2. Progress /\ Saved
  BY DEF SettingsInit, Progress, Saved
<1> QED
  BY <1>1, <1>2 DEF Inv

(* The first flag is one of the flags, if there is one at all.             *)
LEMMA FirstIsFlagged ==
  ASSUME NEW flags, NEW g \in First(flags) PROVE g \in flags
  BY DEF First

LEMMA InitKeeps == Inv /\ settings_init => Inv'
<1> SUFFICES ASSUME Inv, settings_init PROVE Inv'
  OBVIOUS
<1>1. SettingsTypeOK'
  BY LayoutFacts DEF Inv, SettingsTypeOK, settings_init
<1>2. Progress'
  BY DEF Inv, Progress, settings_init
<1>3. Saved'
  BY LayoutFacts DEF Saved, settings_init
<1> QED
  BY <1>1, <1>2, <1>3 DEF Inv

LEMMA GetKeeps ==
  ASSUME Inv, NEW g \in Groups, NEW a \in Ram, NEW b \in Bytes, settings_get(g, a, b)
  PROVE  Inv'
<1>1. SettingsTypeOK'
  BY DEF Inv, SettingsTypeOK, settings_get
<1>2. Progress'
  BY DEF Inv, Progress, settings_get
<1>3. ASSUME NEW h \in Groups, h \notin (settings_flags \cup touched)', NEW c \in Region[h]
      PROVE  eeprom'[c] = ram'[c]
  <2>1. h # g /\ h \notin settings_flags \cup touched /\ job = "idle" /\ a \in Region[g]
    BY <1>3 DEF settings_get
  <2>2. c # a
    BY <1>3, <2>1, Apart
  <2>3. eeprom[c] = ram[c]
    BY <1>3, <2>1 DEF Inv, Saved
  <2> QED
    BY <2>2, <2>3 DEF Inv, SettingsTypeOK, settings_get
<1> QED
  BY <1>1, <1>2, <1>3 DEF Inv, Saved

LEMMA CommitKeeps ==
  ASSUME Inv, NEW g \in Groups, settings_commit(g) PROVE Inv'
<1>1. SettingsTypeOK'
  BY DEF Inv, SettingsTypeOK, settings_commit
<1>2. Progress'
  BY DEF Inv, Progress, settings_commit
<1>3. Saved'
  BY DEF Inv, Saved, settings_commit
<1> QED
  BY <1>1, <1>2, <1>3 DEF Inv

LEMMA CheckKeeps == Inv /\ settings_check_data => Inv'
<1> SUFFICES ASSUME Inv, settings_check_data PROVE Inv'
  OBVIOUS
<1>1. PICK g \in First(settings_flags) : SaveGroup(g)
  BY DEF settings_check_data
<1>2. g \in settings_flags /\ g \in Groups
  BY FirstIsFlagged DEF Inv, SettingsTypeOK
<1>3. SettingsTypeOK'
  BY <1>1, <1>2, LayoutFacts DEF Inv, SettingsTypeOK, settings_check_data, SaveGroup
<1>4. Progress'
  BY <1>1, <1>2, LayoutFacts
    DEF Inv, Progress, settings_check_data, SaveGroup, GroupEnd
<1>5. Saved'
  BY <1>1 DEF Inv, Saved, settings_check_data, SaveGroup
<1> QED
  BY <1>3, <1>4, <1>5 DEF Inv

(* A byte on its way from the record to its place.                         *)
LEMMA WriteFacts ==
  ASSUME Inv, EEPROM_Write
  PROVE  /\ address \in Ram /\ eeprom' \in [Eeprom -> Bytes]
         /\ eeprom'[address] = ram[address]
         /\ \A a \in Eeprom : a # address => eeprom'[a] = eeprom[a]
         /\ job = "save" => address \in Region[group] /\ group \in settings_flags
<1>1. /\ address \in Nat /\ ram \in [Ram -> Bytes] /\ eeprom \in [Eeprom -> Bytes]
      /\ eeprom' = [eeprom EXCEPT ![address] = ram[address]]
  BY LayoutFacts DEF Inv, SettingsTypeOK, EEPROM_Write, Cell
<1>2. CASE job = "save"
  <2>1. group \in Groups /\ group \in settings_flags
    BY <1>2 DEF Inv, Progress, SettingsTypeOK
  <2>2. address \in Region[group]
    BY <1>1, <1>2, <2>1, LayoutFacts DEF Inv, Progress, EEPROM_Write, GroupEnd
  <2>3. address \in Ram
    BY <2>1, <2>2, LayoutFacts
  <2> QED
    BY <1>1, <2>1, <2>2, <2>3, LayoutFacts
<1>3. CASE job = "restore"
  <2>1. address \in Ram
    BY <1>1, <1>3, LayoutFacts DEF EEPROM_Write, Ram
  <2> QED
    BY <1>1, <1>3, <2>1, LayoutFacts
<1> QED
  BY <1>2, <1>3 DEF EEPROM_Write

LEMMA WriteKeeps == Inv /\ EEPROM_Write => Inv'
<1> SUFFICES ASSUME Inv, EEPROM_Write PROVE Inv'
  OBVIOUS
<1>1. /\ UNCHANGED <<ram, settings_flags, job, group, touched>>
      /\ address' = address + 1 /\ address \in Nat /\ job \in {"save", "restore"}
  BY LayoutFacts DEF Inv, SettingsTypeOK, EEPROM_Write, NextByte
<1>2. address' \in 0 .. SIZE
  BY <1>1, WriteFacts, LayoutFacts DEF Ram
<1>3. SettingsTypeOK'
  BY <1>1, <1>2, WriteFacts DEF Inv, SettingsTypeOK
<1>4. ASSUME NEW a \in Ram, eeprom[a] = ram[a] \/ a = address
      PROVE  eeprom'[a] = ram'[a]
  BY <1>1, <1>4, WriteFacts, LayoutFacts
<1>5. ASSUME job = "save", NEW a \in Region[group], a < address'
      PROVE  eeprom'[a] = ram'[a]
  <2>1. a \in Ram /\ a \in Nat /\ (a < address \/ a = address)
    BY <1>1, <1>5, LayoutFacts DEF Inv, Progress, SettingsTypeOK, Ram
  <2> QED
    BY <1>4, <1>5, <2>1 DEF Inv, Progress
<1>6. ASSUME job = "save"
      PROVE  group \in settings_flags /\ address' \in Offset[group] .. GroupEnd(group)
  <2>1. group \in Groups /\ group \in settings_flags /\ address \in Region[group]
    BY <1>6, WriteFacts DEF Inv, SettingsTypeOK
  <2> QED
    BY <1>1, <2>1, LayoutFacts DEF GroupEnd
<1>7. ASSUME job = "restore", NEW a \in Ram, a < address'
      PROVE  eeprom'[a] = ram'[a]
  <2>1. a \in Nat /\ (a < address \/ a = address)
    BY <1>1, <1>7, LayoutFacts DEF Ram
  <2> QED
    BY <1>4, <1>7, <2>1 DEF Inv, Progress
<1>8. Progress'
  BY <1>1, <1>5, <1>6, <1>7 DEF Progress, GroupEnd
<1>9. ASSUME job = "save", NEW g \in Groups \ (settings_flags \cup touched), NEW a \in Region[g]
      PROVE  eeprom'[a] = ram'[a]
  BY <1>4, <1>9, LayoutFacts DEF Inv, Saved
<1>10. Saved'
  BY <1>1, <1>9 DEF Saved
<1> QED
  BY <1>3, <1>8, <1>10 DEF Inv

(* The group whose end is reached is in the EEPROM.                        *)
LEMMA SavedGroup ==
  ASSUME Inv, GroupSaved
  PROVE  /\ group \in Groups /\ group \in settings_flags
         /\ \A a \in Region[group] : eeprom[a] = ram[a]
<1>1. job = "save" /\ group \in Groups /\ group \in settings_flags
  BY DEF Inv, Progress, SettingsTypeOK, GroupSaved
<1>2. ASSUME NEW a \in Region[group] PROVE eeprom[a] = ram[a]
  <2>1. a < address
    BY <1>1, <1>2, LayoutFacts DEF GroupSaved, GroupEnd
  <2> QED
    BY <1>1, <1>2, <2>1 DEF Inv, Progress
<1> QED
  BY <1>1, <1>2

LEMMA GroupSavedKeeps == Inv /\ GroupSaved => Inv'
<1> SUFFICES ASSUME Inv, GroupSaved PROVE Inv'
  OBVIOUS
<1>1. /\ settings_flags' = settings_flags \ {group} /\ job = "save"
      /\ UNCHANGED <<ram, eeprom, touched>>
  BY DEF GroupSaved, Clear
<1>2. Saved'
  <2>1. ASSUME NEW g \in Groups \ (settings_flags \cup touched)', NEW a \in Region[g]
        PROVE  eeprom[a] = ram[a]
    BY <1>1, <2>1, SavedGroup DEF Inv, Saved
  <2> QED
    BY <1>1, <2>1 DEF Saved
<1>3. CASE settings_flags' = {} /\ Idle
  <2>1. SettingsTypeOK'
    BY <1>1, <1>3, LayoutFacts DEF Inv, SettingsTypeOK, Idle
  <2>2. Progress'
    BY <1>3 DEF Progress, Idle
  <2> QED
    BY <1>2, <2>1, <2>2 DEF Inv
<1>4. CASE \E g \in First(settings_flags') : SaveGroup(g)
  <2>1. PICK g \in First(settings_flags') : SaveGroup(g)
    BY <1>4
  <2>2. g \in settings_flags' /\ g \in Groups
    BY <1>1, FirstIsFlagged DEF Inv, SettingsTypeOK
  <2>3. SettingsTypeOK'
    BY <1>1, <2>1, <2>2, LayoutFacts DEF Inv, SettingsTypeOK, SaveGroup
  <2>4. Progress'
    BY <2>1, <2>2, LayoutFacts DEF Progress, SaveGroup, GroupEnd
  <2> QED
    BY <1>2, <2>3, <2>4 DEF Inv
<1> QED
  BY <1>3, <1>4 DEF GroupSaved

LEMMA RestoreKeeps == Inv /\ settings_restore_default => Inv'
<1> SUFFICES ASSUME Inv, settings_restore_default PROVE Inv'
  OBVIOUS
<1>1. \A a \in Ram : EEPROM_ENDING_ADDRESS - SIZE + a \in Eeprom
  BY LayoutFacts DEF Ram, Eeprom
<1>2. SettingsTypeOK'
  BY <1>1, LayoutFacts DEF Inv, SettingsTypeOK, settings_restore_default
<1>3. Progress'
  BY LayoutFacts DEF Progress, settings_restore_default, Ram
<1>4. Saved'
  BY DEF Saved, settings_restore_default
<1> QED
  BY <1>2, <1>3, <1>4 DEF Inv

LEMMA RestoreDoneKeeps == Inv /\ RestoreDone => Inv'
<1> SUFFICES ASSUME Inv, RestoreDone PROVE Inv'
  OBVIOUS
<1>1. SettingsTypeOK'
  BY LayoutFacts DEF Inv, SettingsTypeOK, RestoreDone, Idle
<1>2. Progress'
  BY DEF Progress, RestoreDone, Idle
<1>3. \A a \in Ram : eeprom[a] = ram[a]
  BY LayoutFacts DEF Inv, Progress, RestoreDone, Ram
<1>4. Saved'
  BY <1>3, LayoutFacts DEF Saved, RestoreDone
<1> QED
  BY <1>1, <1>2, <1>4 DEF Inv

LEMMA PowerLostKeeps == Inv /\ PowerLost => Inv'
<1> SUFFICES ASSUME Inv, PowerLost PROVE Inv'
  OBVIOUS
<1>1. SettingsTypeOK'
  BY SettingsAssumption, LayoutFacts DEF Inv, SettingsTypeOK, PowerLost
<1>2. Progress' /\ Saved'
  BY DEF Progress, Saved, PowerLost
<1> QED
  BY <1>1, <1>2 DEF Inv

LEMMA StepKeeps == Inv /\ [SettingsNext]_settingsVars => Inv'
<1> SUFFICES ASSUME Inv, [SettingsNext]_settingsVars PROVE Inv'
  OBVIOUS
<1>1. CASE settings_init
  BY <1>1, InitKeeps
<1>2. CASE Caller
  BY <1>2, GetKeeps, CommitKeeps, RestoreKeeps DEF Caller
<1>3. CASE Saving
  BY <1>3, CheckKeeps, WriteKeeps, GroupSavedKeeps, RestoreDoneKeeps DEF Saving
<1>4. CASE PowerLost
  BY <1>4, PowerLostKeeps
<1>5. CASE UNCHANGED settingsVars
  BY <1>5 DEF Inv, SettingsTypeOK, Progress, Saved, settingsVars, GroupEnd
<1> QED
  BY <1>1, <1>2, <1>3, <1>4, <1>5 DEF SettingsNext

LEMMA InvAlways == SettingsSpec => []Inv
<1>1. SettingsInit => Inv
  BY InitEstablishes
<1>2. Inv /\ [SettingsNext]_settingsVars => Inv'
  BY StepKeeps
<1> QED
  BY <1>1, <1>2, PTL DEF SettingsSpec

-----------------------------------------------------------------------------
(* settings_manager.c: every variable keeps its type, so that no copy      *)
(* reads or writes outside the record or the EEPROM.                       *)
THEOREM TypeCorrect == SettingsSpec => []SettingsTypeOK
<1>1. Inv => SettingsTypeOK
  BY DEF Inv
<1> QED
  BY <1>1, InvAlways, PTL

(* settings_manager.c:89: a group that is neither flagged nor changed      *)
(* since its commit is in the EEPROM, wherever resets cut the saving.      *)
THEOREM SavedAlways == SettingsSpec => []Saved
<1>1. Inv => Saved
  BY DEF Inv
<1> QED
  BY <1>1, InvAlways, PTL

(* settings_manager.c:128: no save and no restore overwrites the defaults. *)
THEOREM DefaultsAlways == SettingsSpec => DefaultsKept
<1>1. ASSUME Inv, [SettingsNext]_settingsVars
      PROVE  [\A a \in Eeprom \ Ram : eeprom'[a] = eeprom[a]]_settingsVars
  <2>1. CASE EEPROM_Write
    BY <1>1, <2>1, WriteFacts
  <2>2. CASE UNCHANGED eeprom
    BY <2>2
  <2>3. EEPROM_Write \/ UNCHANGED eeprom
    BY <1>1 DEF SettingsNext, Caller, Saving, settings_init, settings_get, settings_commit,
       settings_check_data, GroupSaved, settings_restore_default, RestoreDone, PowerLost,
       settingsVars
  <2> QED
    BY <2>1, <2>2, <2>3
<1> QED
  BY <1>1, InvAlways, PTL DEF SettingsSpec, DefaultsKept

-----------------------------------------------------------------------------
(* The refinement.                                                         *)

LEMMA StoreAddr == Store!Addr = Ram
<1>1. ASSUME NEW a \in Store!Addr PROVE a \in Ram
  <2>1. PICK g \in Groups : a \in Region[g]
    BY <1>1 DEF Store!Addr
  <2> QED
    BY <2>1, LayoutFacts
<1>2. ASSUME NEW a \in Ram PROVE a \in Store!Addr
  BY <1>2, Covered DEF Store!Addr
<1> QED
  BY <1>1, <1>2

LEMMA StoreStarts == SettingsInit => Store!Init
<1> SUFFICES ASSUME SettingsInit PROVE Store!Init
  OBVIOUS
<1>1. [a \in Ram |-> eeprom[a]] \in [Ram -> Bytes]
  BY LayoutFacts DEF SettingsInit
<1> QED
  BY <1>1, StoreAddr DEF SettingsInit, Store!Init

(* What the EEPROM holds of the record, and what a caller would read.      *)
Durable == [a \in Ram |-> eeprom[a]]
Working == IF job = "off" THEN Durable ELSE ram
Owed == settings_flags \cup (IF job = "restore" THEN Groups ELSE {})

LEMMA StoreWrites ==
  ASSUME Inv, EEPROM_Write PROVE Store!Save
<1>1. /\ job \in {"save", "restore"} /\ UNCHANGED <<ram, settings_flags, job>>
      /\ address \in Ram
  BY WriteFacts DEF EEPROM_Write
<1>2. Durable' = [Durable EXCEPT ![address] = ram[address]]
  BY <1>1, WriteFacts, LayoutFacts DEF Durable
<1>3. PICK g \in Owed : address \in Region[g]
  <2>1. CASE job = "save"
    BY <2>1, WriteFacts DEF Owed
  <2>2. CASE job = "restore"
    BY <1>1, <2>2, Covered DEF Owed
  <2> QED
    BY <1>1, <2>1, <2>2
<1>4. Working = ram /\ Working' = Working /\ Owed' = Owed
  BY <1>1 DEF Working, Owed
<1>5. \E h \in Owed : \E a \in Region[h] : Durable' = [Durable EXCEPT ![a] = Working[a]]
  BY <1>2, <1>3, <1>4
<1> QED
  BY <1>4, <1>5 DEF Store!Save, Working, Durable, Owed

LEMMA StoreSettles ==
  ASSUME Inv, GroupSaved PROVE Store!Settle
<1>1. /\ settings_flags' = settings_flags \ {group} /\ job = "save"
      /\ UNCHANGED <<ram, eeprom>> /\ job' \in {"idle", "save"}
  BY DEF GroupSaved, Clear, Idle, SaveGroup
<1>2. \A a \in Region[group] : ram[a] = Durable[a]
  BY SavedGroup, LayoutFacts DEF Durable
<1>3. Owed = settings_flags /\ Owed' = Owed \ {group}
  BY <1>1 DEF Owed
<1>4. Working = ram /\ Working' = ram
  BY <1>1 DEF Working
<1>5. \A g \in Owed \ Owed' : \A a \in Region[g] : Working[a] = Durable[a]
  BY <1>2, <1>3, <1>4
<1> QED
  BY <1>1, <1>3, <1>4, <1>5 DEF Store!Settle, Store!Agree, Working, Durable, Owed

LEMMA StoreRestored ==
  ASSUME Inv, RestoreDone PROVE Store!Settle
<1>1. /\ job = "restore" /\ job' = "idle" /\ UNCHANGED <<ram, settings_flags, eeprom>>
      /\ settings_flags \subseteq Groups
  BY DEF RestoreDone, Idle, Inv, SettingsTypeOK
<1>2. \A a \in Ram : ram[a] = Durable[a]
  BY LayoutFacts DEF Inv, Progress, RestoreDone, Ram, Durable
<1>3. Owed = Groups /\ Owed' = settings_flags
  BY <1>1 DEF Owed
<1>4. Working = ram /\ Working' = ram
  BY <1>1 DEF Working
<1>5. \A g \in Owed \ Owed' : \A a \in Region[g] : Working[a] = Durable[a]
  BY <1>2, <1>3, <1>4, LayoutFacts
<1> QED
  BY <1>1, <1>3, <1>4, <1>5 DEF Store!Settle, Store!Agree, Working, Durable, Owed

LEMMA StoreSteps ==
  ASSUME Inv, Inv', [SettingsNext]_settingsVars PROVE [Store!Next]_(Store!vars)
<1>1. CASE settings_init
  BY <1>1 DEF settings_init, Store!vars, Inv, Progress
<1>2. ASSUME NEW g \in Groups, NEW a \in Ram, NEW b \in Bytes, settings_get(g, a, b)
      PROVE  Store!Put
  BY <1>2, StoreAddr DEF settings_get, Store!Put, Inv, SettingsTypeOK
<1>3. ASSUME NEW g \in Groups, settings_commit(g)
      PROVE  Store!Owe
  BY <1>3 DEF settings_commit, Store!Owe, Inv, SettingsTypeOK
<1>4. CASE settings_check_data
  BY <1>4 DEF settings_check_data, SaveGroup, Store!vars
<1>5. CASE settings_restore_default
  BY <1>5, StoreAddr DEF settings_restore_default, Store!Replace, Store!Next, Inv, SettingsTypeOK
<1>6. CASE PowerLost
  BY <1>6 DEF PowerLost, Store!Reset, Store!Next
<1>7. CASE UNCHANGED settingsVars
  BY <1>7 DEF settingsVars, Store!vars
<1>8. CASE Saving
  BY <1>4, <1>8, StoreWrites, StoreSettles, StoreRestored DEF Saving, Store!Next
<1>9. CASE Caller
  BY <1>2, <1>3, <1>5, <1>9 DEF Caller, Store!Next
<1> QED
  BY <1>1, <1>6, <1>7, <1>8, <1>9 DEF SettingsNext

(* settings_manager.h: the manager implements a store in which a byte      *)
(* becomes durable only while its group is owed, and a group is owed until *)
(* all of it is durable.                                                   *)
THEOREM Implements == SettingsSpec => StoreImplemented
<1>1. SettingsInit => Store!Init
  BY StoreStarts
<1>2. Inv /\ Inv' /\ [SettingsNext]_settingsVars => [Store!Next]_(Store!vars)
  BY StoreSteps
<1> QED
  BY <1>1, <1>2, InvAlways, PTL DEF SettingsSpec, StoreImplemented, Store!Spec

-----------------------------------------------------------------------------
(* The main program.                                                       *)

(* A file that waits to be parsed is the last one that was reported.       *)
FileInv ==
  /\ file_download_flag => file_downloaded = reported
  /\ file_download_flag \/ parsed = reported

-----------------------------------------------------------------------------
(* Every step of the program is one of the settings manager, or none.      *)
LEMMA DeviceUsesSettings == [DeviceNext]_deviceVars => [SettingsNext]_settingsVars
<1> SUFFICES ASSUME [DeviceNext]_deviceVars PROVE [SettingsNext]_settingsVars
  OBVIOUS
<1>1. CASE Main
  <2>1. CASE configure_board
    BY <2>1 DEF configure_board, SettingsNext
  <2>2. CASE network_read_packet
    BY <2>2 DEF network_read_packet, file_handler, post_handler, SettingsNext
  <2>3. CASE BeatSave
    BY <2>3 DEF BeatSave, SettingsNext
  <2>4. CASE configure_rtc \/ configure_file_system \/ FAT32_Init \/ configure_webserver
    BY <2>4 DEF configure_rtc, configure_file_system, FAT32_Init, configure_webserver
  <2>5. CASE task_dispatch \/ BeatFile
    BY <2>5 DEF task_dispatch, BeatFile
  <2> QED
    BY <1>1, <2>1, <2>2, <2>3, <2>4, <2>5 DEF Main
<1>2. CASE CardChange \/ task_clock_ISR
  BY <1>2 DEF CardChange, task_clock_ISR
<1>3. CASE Reset
  BY <1>3 DEF Reset, SettingsNext
<1>4. CASE UNCHANGED deviceVars
  BY <1>4 DEF deviceVars
<1> QED
  BY <1>1, <1>2, <1>3, <1>4 DEF DeviceNext

(* main.c, boardConf.c: in the whole program, too, the settings manager is *)
(* used as its own specification says, so that what is proved of it there  *)
(* holds here.                                                             *)
THEOREM ProgramUsesSettings == DeviceSpec => SettingsSpec
<1>1. DeviceInit => SettingsInit
  BY DEF DeviceInit
<1> QED
  BY <1>1, DeviceUsesSettings, PTL DEF DeviceSpec, SettingsSpec

-----------------------------------------------------------------------------
(* What main.c adds to the settings manager's state has its type.          *)
MainTyped ==
  /\ at \in {"board", "rtc", "card", "init", "web", "read", "dispatch", "save", "file"}
  /\ tries \in 0 .. TRIES
  /\ card \in Cards \cup {NONE}
  /\ {file_downloaded, reported, parsed} \subseteq Files \cup {NONE}

LEMMA MainStarts == DeviceInit => MainTyped
  BY DeviceAssumption DEF DeviceInit, MainTyped

LEMMA MainSteps == MainTyped /\ [DeviceNext]_deviceVars => MainTyped'
<1> SUFFICES ASSUME MainTyped, [DeviceNext]_deviceVars PROVE MainTyped'
  OBVIOUS
<1> USE DeviceAssumption DEF MainTyped, fileVars
<1>1. CASE Main
  <2>1. CASE configure_board
    BY <2>1 DEF configure_board
  <2>2. CASE configure_rtc
    BY <2>2 DEF configure_rtc
  <2>3. CASE configure_file_system
    BY <2>3 DEF configure_file_system
  <2>4. CASE FAT32_Init
    BY <2>4 DEF FAT32_Init
  <2>5. CASE configure_webserver
    BY <2>5 DEF configure_webserver
  <2>6. CASE network_read_packet
    BY <2>6 DEF network_read_packet, file_handler, Remembered, post_handler
  <2>7. CASE task_dispatch
    BY <2>7 DEF task_dispatch
  <2>8. CASE BeatSave
    BY <2>8 DEF BeatSave
  <2>9. CASE BeatFile
    BY <2>9 DEF BeatFile
  <2> QED
    BY <1>1, <2>1, <2>2, <2>3, <2>4, <2>5, <2>6, <2>7, <2>8, <2>9 DEF Main
<1>2. CASE CardChange
  BY <1>2 DEF CardChange
<1>3. CASE task_clock_ISR
  BY <1>3 DEF task_clock_ISR
<1>4. CASE Reset
  BY <1>4 DEF Reset
<1>5. CASE UNCHANGED deviceVars
  BY <1>5 DEF deviceVars
<1> QED
  BY <1>1, <1>2, <1>3, <1>4, <1>5 DEF DeviceNext

(* main.c: every variable of the program keeps its type, and the attempts  *)
(* at a card never run below zero.                                         *)
THEOREM ProgramTypes == DeviceSpec => []DeviceTypeOK
<1>1. DeviceSpec => []MainTyped
  BY MainStarts, MainSteps, PTL DEF DeviceSpec
<1>2. DeviceSpec => []SettingsTypeOK
  BY ProgramUsesSettings, TypeCorrect, PTL
<1>3. MainTyped /\ SettingsTypeOK => DeviceTypeOK
  BY DEF MainTyped, DeviceTypeOK
<1> QED
  BY <1>1, <1>2, <1>3, PTL

-----------------------------------------------------------------------------
LEMMA FileStarts == DeviceInit => FileInv
  BY DEF DeviceInit, FileInv

LEMMA FileSteps == FileInv /\ [DeviceNext]_deviceVars => FileInv'
<1> SUFFICES ASSUME FileInv, [DeviceNext]_deviceVars PROVE FileInv'
  OBVIOUS
<1> USE DEF FileInv, fileVars
<1>1. CASE Main
  <2>1. CASE network_read_packet
    BY <2>1 DEF network_read_packet, file_handler, Remembered, post_handler
  <2>2. CASE BeatFile
    BY <2>2 DEF BeatFile
  <2>3. CASE configure_board \/ configure_rtc \/ configure_file_system \/ FAT32_Init
    BY <2>3 DEF configure_board, configure_rtc, configure_file_system, FAT32_Init
  <2>4. CASE configure_webserver \/ task_dispatch \/ BeatSave
    BY <2>4 DEF configure_webserver, task_dispatch, BeatSave
  <2> QED
    BY <1>1, <2>1, <2>2, <2>3, <2>4 DEF Main
<1>2. CASE CardChange \/ task_clock_ISR
  BY <1>2 DEF CardChange, task_clock_ISR
<1>3. CASE Reset
  BY <1>3 DEF Reset
<1>4. CASE UNCHANGED deviceVars
  BY <1>4 DEF deviceVars
<1> QED
  BY <1>1, <1>2, <1>3, <1>4 DEF DeviceNext

(* main.c:194: whatever becomes of the card and of the settings, a file    *)
(* that was reported is parsed unless a later one takes its place.         *)
THEOREM LastParsedAlways == DeviceSpec => []LastParsed
<1>1. FileInv => LastParsed
  BY DEF FileInv, LastParsed
<1> QED
  BY <1>1, FileStarts, FileSteps, PTL DEF DeviceSpec

=============================================================================

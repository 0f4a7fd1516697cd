------------------------------- MODULE Settings -------------------------------
(***************************************************************************)
(* The settings manager (settings/settings_manager.c): a record in RAM     *)
(* that callers change through pointers, a flag per group for what is to   *)
(* be saved, and the EEPROM that the main thread writes byte by byte.      *)
(*                                                                         *)
(* The API is called from the main thread only, and interrupts neither     *)
(* read nor write the record: what can come between two bytes is a reset.  *)
(***************************************************************************)
EXTENDS Integers, FiniteSets

CONSTANTS
  N,          (* the number of groups in settings_t                        *)
  Offset,     (* Offset[g]: offsetof() of the g-th group in settings_t;    *)
              (* Offset[N + 1] is sizeof( settings_t )                     *)
  EEPROM_ENDING_ADDRESS,
  Bytes       (* values of a byte; EEPROM cells start with any of them     *)

Groups == 1 .. N
NoGroup == 0
SIZE == Offset[N + 1]
Ram == 0 .. SIZE - 1
Eeprom == 0 .. EEPROM_ENDING_ADDRESS
Region == [g \in Groups |-> Offset[g] .. Offset[g + 1] - 1]

ASSUME SettingsAssumption ==
  /\ N \in Nat \ {0}
  /\ Offset \in [1 .. N + 1 -> Nat] /\ Offset[1] = 0
  /\ \A g, h \in 1 .. N + 1 : g < h => Offset[g] < Offset[h]
  /\ \A a \in Ram : \E g \in Groups : a \in Region[g]
  /\ EEPROM_ENDING_ADDRESS \in Nat /\ 2 * SIZE <= EEPROM_ENDING_ADDRESS
  /\ 0 \in Bytes

VARIABLES
  ram,              (* current_settings, byte by byte                      *)
  settings_flags,   (* the groups to be saved                              *)
  eeprom,
  job,              (* what the main thread is doing here: "off" until     *)
                    (* settings_init(), "idle", "save" or "restore"        *)
  group,            (* the group being saved                               *)
  address,          (* the next byte to be written                         *)
  touched           (* history: groups changed since they were committed   *)

settingsVars == <<ram, settings_flags, eeprom, job, group, address, touched>>

SettingsInit ==
  /\ ram = [a \in Ram |-> 0]
  /\ settings_flags = {}
  /\ eeprom \in [Eeprom -> Bytes]
  /\ job = "off" /\ group = NoGroup /\ address = 0
  /\ touched = {}

-----------------------------------------------------------------------------
(* settings_init(): a read of the whole record from EEPROM_START_ADDRESS.  *)
settings_init ==
  /\ job = "off"
  /\ ram' = [a \in Ram |-> eeprom[a]]
  /\ job' = "idle"
  /\ UNCHANGED <<settings_flags, eeprom, group, address, touched>>

(* A caller writes a byte through the pointer a getter has returned.       *)
settings_get(g, a, b) ==
  /\ job = "idle" /\ a \in Region[g]
  /\ ram' = [ram EXCEPT ![a] = b]
  /\ touched' = touched \cup {g}
  /\ UNCHANGED <<settings_flags, eeprom, job, group, address>>

settings_commit(g) ==
  /\ job = "idle"
  /\ settings_flags' = settings_flags \cup {g}
  /\ touched' = touched \ {g}
  /\ UNCHANGED <<ram, eeprom, job, group, address>>

(* Faulty variant: all the flags are cleared with the last group written.  *)
ClearAll(flags, g) == {}

(* settings_flags &= ~SETTINGS_...                                         *)
Clear(flags, g) == flags \ {g}

(* The loop's if and else if take the group of the lowest flag.            *)
First(flags) == {g \in flags : \A h \in flags : g <= h}

SaveGroup(g) == job' = "save" /\ group' = g /\ address' = Offset[g]
Idle == job' = "idle" /\ group' = NoGroup /\ address' = 0

(* settings_check_data() and the loop of settings_commit_new_settings().   *)
settings_check_data ==
  /\ job = "idle" /\ settings_flags # {}
  /\ \E g \in First(settings_flags) : SaveGroup(g)
  /\ UNCHANGED <<ram, settings_flags, eeprom, touched>>

(* Faulty variant: the last byte of a group is left out.                   *)
EndEarly(g) == Offset[g + 1] - 1

GroupEnd(g) == Offset[g + 1]

(* EEPROM_START_ADDRESS is zero.                                           *)
Cell(a) == a

(* Faulty variant: a byte is skipped.                                      *)
SkipOne(a) == a + 2

NextByte(a) == a + 1

EEPROM_Write ==
  /\ \/ job = "save" /\ address < GroupEnd(group)
     \/ job = "restore" /\ address < SIZE
  /\ eeprom' = [eeprom EXCEPT ![Cell(address)] = ram[address]]
  /\ address' = NextByte(address)
  /\ UNCHANGED <<ram, settings_flags, job, group, touched>>

GroupSaved ==
  /\ job = "save" /\ address = GroupEnd(group)
  /\ settings_flags' = Clear(settings_flags, group)
  /\ \/ settings_flags' = {} /\ Idle
     \/ \E g \in First(settings_flags') : SaveGroup(g)
  /\ UNCHANGED <<ram, eeprom, touched>>

(* The defaults end one byte short of the end; the flags are left alone.   *)
settings_restore_default ==
  /\ job = "idle"
  /\ ram' = [a \in Ram |-> eeprom[EEPROM_ENDING_ADDRESS - SIZE + a]]
  /\ job' = "restore" /\ address' = 0
  /\ UNCHANGED <<settings_flags, eeprom, group, touched>>

RestoreDone ==
  /\ job = "restore" /\ address = SIZE
  /\ Idle
  /\ touched' = {}
  /\ UNCHANGED <<ram, settings_flags, eeprom>>

(* A reset or a loss of power: the EEPROM keeps what has been written.     *)
PowerLost ==
  /\ job # "off"
  /\ ram' = [a \in Ram |-> 0] /\ settings_flags' = {}
  /\ job' = "off" /\ group' = NoGroup /\ address' = 0 /\ touched' = {}
  /\ UNCHANGED eeprom

-----------------------------------------------------------------------------
Caller ==
  \/ \E g \in Groups, a \in Ram, b \in Bytes : settings_get(g, a, b)
  \/ \E g \in Groups : settings_commit(g)
  \/ settings_restore_default

Saving == settings_check_data \/ EEPROM_Write \/ GroupSaved \/ RestoreDone

SettingsNext == settings_init \/ Caller \/ Saving \/ PowerLost

SettingsSpec == SettingsInit /\ [][SettingsNext]_settingsVars

-----------------------------------------------------------------------------
SettingsTypeOK ==
  /\ ram \in [Ram -> Bytes]
  /\ settings_flags \subseteq Groups
  /\ eeprom \in [Eeprom -> Bytes]
  /\ job \in {"off", "idle", "save", "restore"}
  /\ group \in Groups \cup {NoGroup}
  /\ address \in 0 .. SIZE
  /\ touched \subseteq Groups

(* Whatever the main thread was doing, and wherever resets have cut it, a  *)
(* group that is not waiting to be saved, and that no caller has changed   *)
(* since it was committed, is in the EEPROM byte for byte.                 *)
Saved ==
  job \in {"idle", "save"} =>
    \A g \in Groups \ (settings_flags \cup touched) :
      \A a \in Region[g] : eeprom[a] = ram[a]

(* The defaults are never overwritten, by any save or restore.             *)
DefaultsKept ==
  [][\A a \in Eeprom \ Ram : eeprom'[a] = eeprom[a]]_settingsVars

(* The byte-by-byte manager implements the store its callers rely on.      *)
Store == INSTANCE SettingsStore WITH
  Group <- Groups, Value <- Bytes,
  working <- IF job = "off" THEN [a \in Ram |-> eeprom[a]] ELSE ram,
  durable <- [a \in Ram |-> eeprom[a]],
  owed <- settings_flags \cup (IF job = "restore" THEN Groups ELSE {})

StoreImplemented == Store!Spec

=============================================================================

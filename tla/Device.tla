-------------------------------- MODULE Device --------------------------------
(***************************************************************************)
(* The main program (main.c, sys_config/boardConf.c): the order in which   *)
(* the board is brought up, the loop that reads packets and runs tasks,    *)
(* the system beat, and the timer interrupt, around the settings manager.  *)
(*                                                                         *)
(* The main thread is one process; the interrupt comes between any two of  *)
(* its steps.  A reset comes anywhere.                                     *)
(*                                                                         *)
(* The interrupt of the card's pin is left out: boardConf.c:43-44 enables  *)
(* the pin-change interrupt of the pin, but card_change_ISR() (main.c:359) *)
(* is on the vector of INT2, which nothing enables.  So nothing sets       *)
(* filesystem_change_flag, and the beat never takes the branch that looks  *)
(* for a new card (main.c:88-93).  The pin-change interrupt itself has no  *)
(* handler; if it restarts the firmware, that is the step Reset.           *)
(***************************************************************************)
EXTENDS Settings

CONSTANTS
  Cards,        (* memory cards that are put into the slot                 *)
  Files,        (* names of downloaded files                               *)
  TRIES,        (* attempts at FAT32_Init() after the first: 5             *)
  NONE

ASSUME DeviceAssumption == TRIES \in Nat /\ NONE \notin Cards \cup Files

VARIABLES
  at,           (* where the main thread is                                *)
  tries,
  card,         (* what is in the slot                                     *)
  file_download_flag,
  file_downloaded,
  due,          (* the delay of the beat's task is zero                    *)
  reported,     (* history: the last file the web client has reported      *)
  parsed        (* history: the last file the tide module was given        *)

fileVars == <<file_download_flag, file_downloaded, reported, parsed>>
deviceVars == <<settingsVars, at, tries, card, fileVars, due>>

DeviceInit ==
  /\ SettingsInit /\ card \in Cards \cup {NONE}
  /\ at = "board" /\ tries = TRIES
  /\ file_download_flag = FALSE /\ file_downloaded = NONE
  /\ reported = NONE /\ parsed = NONE /\ due = FALSE

Enabled == job # "off"

-----------------------------------------------------------------------------
(* Bringing up the board.                                                  *)

configure_board ==
  /\ at = "board" /\ settings_init
  /\ at' = "rtc"
  /\ UNCHANGED <<tries, card, fileVars, due>>

(* The clock is set up from the settings; it ticks from here on.           *)
configure_rtc ==
  /\ at = "rtc" /\ at' = "card"
  /\ UNCHANGED <<settingsVars, tries, card, fileVars, due>>

(* configure_file_system(): a card is looked for, then initialized, which  *)
(* may fail for any reason and is tried TRIES + 1 times.                   *)
configure_file_system ==
  /\ at = "card"
  /\ IF card = NONE THEN at' = "web" ELSE at' = "init"
  /\ UNCHANGED <<settingsVars, tries, card, fileVars, due>>

FAT32_Init ==
  /\ at = "init"
  /\ \/ (card # NONE \/ tries = 0) /\ at' = "web" /\ tries' = TRIES
     \/ tries > 0 /\ tries' = tries - 1 /\ UNCHANGED at
  /\ UNCHANGED <<settingsVars, card, fileVars, due>>

(* The network, the callbacks, the pages and the tasks.                    *)
configure_webserver ==
  /\ at = "web" /\ at' = "read"
  /\ UNCHANGED <<settingsVars, tries, card, fileVars, due>>

-----------------------------------------------------------------------------
(* The loop: a packet, then the tasks that are due.                        *)

(* Faulty variant: a file is remembered only if none is waiting.           *)
KeepFirst(f) == IF file_download_flag THEN file_downloaded ELSE f

Remembered(f) == f

file_handler(f) ==
  /\ file_downloaded' = Remembered(f) /\ file_download_flag' = TRUE
  /\ reported' = f
  /\ UNCHANGED <<settingsVars, parsed>>

(* The settings a form changes (the tide module, external).                *)
post_handler == Caller /\ job' # "restore" /\ UNCHANGED fileVars

network_read_packet ==
  /\ at = "read" /\ at' = "dispatch"
  /\ \/ UNCHANGED <<settingsVars, fileVars>>
     \/ \E f \in Files : file_handler(f)
     \/ post_handler
  /\ UNCHANGED <<tries, card, due>>

task_dispatch ==
  /\ at = "dispatch"
  /\ at' = IF due THEN "save" ELSE "read"
  /\ due' = FALSE
  /\ UNCHANGED <<settingsVars, tries, card, fileVars>>

-----------------------------------------------------------------------------
(* task_system_beat(), after the sockets and the time of the file system.  *)

Clean == job = "idle" /\ settings_flags = {}

BeatSave ==
  /\ at = "save"
  /\ \/ Clean /\ at' = "file" /\ UNCHANGED settingsVars
     \/ Saving /\ UNCHANGED at
  /\ UNCHANGED <<tries, card, fileVars, due>>

BeatFile ==
  /\ at = "file" /\ at' = "read"
  /\ IF file_download_flag
       THEN parsed' = file_downloaded /\ file_download_flag' = FALSE
       ELSE UNCHANGED <<parsed, file_download_flag>>
  /\ UNCHANGED <<settingsVars, tries, card, file_downloaded, reported, due>>

-----------------------------------------------------------------------------
(* External: somebody puts a card in, takes it out or replaces it.         *)
CardChange ==
  /\ \E c \in Cards \cup {NONE} : c # card /\ card' = c
  /\ UNCHANGED <<settingsVars, at, tries, fileVars, due>>

(* Counts down only once the scheduler is started.                         *)
task_clock_ISR ==
  /\ Enabled /\ at \notin {"board", "rtc", "card", "init", "web"}
  /\ ~due /\ due' = TRUE
  /\ UNCHANGED <<settingsVars, at, tries, card, fileVars>>

Reset ==
  /\ PowerLost /\ UNCHANGED card
  /\ at' = "board" /\ tries' = TRIES
  /\ file_download_flag' = FALSE /\ file_downloaded' = NONE
  /\ reported' = NONE /\ parsed' = NONE /\ due' = FALSE

-----------------------------------------------------------------------------
Main ==
  \/ configure_board \/ configure_rtc \/ configure_file_system \/ FAT32_Init
  \/ configure_webserver \/ network_read_packet \/ task_dispatch
  \/ BeatSave \/ BeatFile

DeviceNext == Main \/ CardChange \/ task_clock_ISR \/ Reset

DeviceSpec == DeviceInit /\ [][DeviceNext]_deviceVars

-----------------------------------------------------------------------------
DeviceTypeOK ==
  /\ SettingsTypeOK
  /\ at \in {"board", "rtc", "card", "init", "web", "read", "dispatch", "save", "file"}
  /\ tries \in 0 .. TRIES
  /\ card \in Cards \cup {NONE}
  /\ {file_downloaded, reported, parsed} \subseteq Files \cup {NONE}

(* Of the files reported between two beats the last one is parsed; a beat  *)
(* leaves none behind, whatever became of the card and of the settings.    *)
LastParsed == at # "board" => file_download_flag \/ parsed = reported

=============================================================================

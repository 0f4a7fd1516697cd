------------------------------- MODULE MCBench -------------------------------
(***************************************************************************)
(* The parts of the firmware that do not share state, side by side for     *)
(* TLC: each behaviour plays one scene, in which one part runs and all     *)
(* others stay as they are.  What holds of every behaviour then holds of   *)
(* every part.                                                             *)
(***************************************************************************)
EXTENDS Device, Rtc, StmRtc, Telnet, Ntp, PageCatalog, HttpRequest,
        Chunked, LineParser, Printf, Scheduler, TLC

CONSTANTS Scenes

VARIABLE scene

(* Settings in a group of one byte and one of two; the settings manager    *)
(* runs alone or under the main program, whose tasks and forms then change *)
(* the second group only.                                                  *)
Layout == <<0, 1, 3>>

mainVars == <<at, tries, card, fileVars, due>>
SecondGroup == touched' \cup settings_flags' \subseteq {2}

(* The clocks: one second before an hour ends, at the turn of a year, on a *)
(* leap day, and across the beginning and the end of summer time.          *)
Moment(y, m, d, h) == DayNumber(y, m, d) * DAY_SECONDS + h * HOUR_SECONDS + 3599
Moments == {Moment(2023, 12, 31, 23), Moment(2024, 2, 29, 12), Moment(2024, 3, 10, 11),
            Moment(2024, 7, 30, 5), Moment(2024, 11, 8, 4)}
Boot(zone, dst, out, mode) ==
  [time_zone |-> zone, dst_enable |-> dst, output_config |-> out, mode_24hour |-> mode]
ChipBoots == {Boot(-8, TRUE, 16, TRUE), Boot(5, FALSE, 4, TRUE), Boot(17, TRUE, 16, TRUE),
              Boot(-8, TRUE, 16, FALSE)}
BoardBoots ==
  {[time_zone |-> z, dst_enable |-> TRUE, dst_begin |-> 3, dst_end |-> 11] : z \in {-8, 5}}

(* A chip of ten registers, stopped, with its hours in the 12-hour mode.   *)
NewChip == [r \in 0 .. 9 |-> CASE r = 0 -> 128 [] r = 2 -> 98 [] r \in 3 .. 5 -> 1 [] OTHER -> 0]
OneChip == {NewChip}

(* Lines of a response, with names that are cut and names that are not.    *)
Repeated(n) == [k \in 1 .. n |-> "b"]
NameBases == {Repeated(n) : n \in {1, 8, 9}}
NameExts == {Repeated(n) : n \in {1, 3, 4}}
NameDirs == {<<"/">>, <<"/", "d", "/">>}
StaleText == <<"s", ".", "s", "0">>
Lines(kind, values) == {[kind |-> kind, value |-> v] : v \in values}
HeaderLines ==
  Lines("status", {"200_OK", "404"}) \cup Lines("length", {5}) \cup
  Lines("connection", {"CLOSE", "KEEP_ALIVE", "upgrade"}) \cup
  Lines("encoding", {"CHUNKED", "gzip"}) \cup Lines("bad", {"none"})

(* A body in two chunks, cut anywhere.                                     *)
TwoChunks == <<2, 1>>

(* Telnet sessions: one slot is used again, by another peer.               *)
SlotReused == "c1" :> 2 @@ "c2" :> 1

(* Headers of the pages the program and its tests serve, and of one of no  *)
(* known kind; the buffer has its size.                                    *)
VARIABLES buffer, update_GMT_timestamp, h_last

H == INSTANCE ResponseHeader WITH
  Extensions <- {<<"h", "t", "m">>, <<"h", "t", "m", "l">>, <<"j", "s">>, <<"c", "s", "s">>,
                 <<"t", "x", "t">>, <<"p", "n", "g">>, <<"j", "p", "g">>, <<"i", "c", "o">>},
  Sizes <- {0, 60, 2147483647}, LARGE_BUFFER_SIZE <- 256, last <- h_last

(* The printer, at the ends of its numbers and widths.                     *)
PrintStrings == {<<>>, <<"a", "b", "c">>}

(* Requests: two request lines fit the buffer, three do not; one header is *)
(* short enough not to be parsed at all.                                   *)
PieceChars == "GET" :> 11 @@ "Host" :> 5 @@ "Connection: ?" :> 12 @@ "Accept" :> 11

(* Tasks come and go while the scheduler runs, on an 8-bit core.           *)
ChurnOps ==
  [site \in {"boot", "loop", "body"} |->
     CASE site = "boot" -> {"add"} [] site = "loop" -> {"add", "delete", "stop"} [] OTHER -> {"add"}]

ASSUME BenchAssumption ==
  H!HeaderAssumption

-----------------------------------------------------------------------------
headVars == <<buffer, update_GMT_timestamp, h_last>>

benchVars == <<scene, deviceVars, rtcVars, stmVars, ntpVars, telnetVars, lineVars,
               chunkedVars, catalogVars, requestVars, headVars, printfVars, vars>>

(* A part that does not run starts in one of its initial states.           *)
DeviceStarts ==
  /\ IF scene = "settings" THEN eeprom \in [Eeprom -> Bytes] ELSE eeprom = [a \in Eeprom |-> 0]
  /\ IF scene = "device" THEN card \in Cards \cup {NONE} ELSE card = NONE
  /\ DeviceInit

NtpStarts == IF scene = "ntp" THEN NtpInit ELSE rtc = 0 /\ NtpInit

RequestStarts ==
  IF scene = "request" THEN RequestInit ELSE stream = <<NL>> /\ read = 0 /\ socket = Fresh

BenchInit ==
  /\ scene \in Scenes
  /\ DeviceStarts /\ NtpStarts /\ RequestStarts
  /\ RtcInit /\ StmInit /\ TelnetInit /\ LineInit /\ ChunkInit /\ CatalogInit
  /\ H!Init /\ PrintInit /\ Init

Is(s) == scene = s /\ UNCHANGED scene
NotDevice == UNCHANGED deviceVars
NotClocks == UNCHANGED <<rtcVars, stmVars, ntpVars>>
NotNet == UNCHANGED <<telnetVars, lineVars, chunkedVars, catalogVars, requestVars>>
NotText == UNCHANGED <<headVars, printfVars>>
NotTasks == UNCHANGED vars

PlaySettings == Is("settings") /\ SettingsNext /\ UNCHANGED mainVars /\ NotClocks
                  /\ NotNet /\ NotText /\ NotTasks
PlayDevice == Is("device") /\ DeviceNext /\ SecondGroup /\ NotClocks
                /\ NotNet /\ NotText /\ NotTasks
PlayTasks == Is("tasks") /\ Next /\ NotDevice /\ NotClocks /\ NotNet /\ NotText

PlayClocks ==
  /\ \/ Is("rtc") /\ RtcNext /\ UNCHANGED <<stmVars, ntpVars>>
     \/ Is("stmrtc") /\ StmNext /\ UNCHANGED <<rtcVars, ntpVars>>
     \/ Is("ntp") /\ NtpNext /\ UNCHANGED <<rtcVars, stmVars>>
  /\ NotDevice /\ NotNet /\ NotText /\ NotTasks

PlayNet ==
  /\ \/ Is("telnet") /\ TelnetNext /\ UNCHANGED <<lineVars, chunkedVars, catalogVars, requestVars>>
     \/ Is("lines") /\ LineNext /\ UNCHANGED <<telnetVars, chunkedVars, catalogVars, requestVars>>
     \/ Is("chunks") /\ ChunkNext /\ UNCHANGED <<telnetVars, lineVars, catalogVars, requestVars>>
     \/ Is("pages") /\ CatalogNext /\ UNCHANGED <<telnetVars, lineVars, chunkedVars, requestVars>>
     \/ Is("request") /\ RequestNext /\ UNCHANGED <<telnetVars, lineVars, chunkedVars, catalogVars>>
  /\ NotDevice /\ NotClocks /\ NotText /\ NotTasks

PlayText ==
  /\ \/ Is("header") /\ H!Next /\ UNCHANGED printfVars
     \/ Is("printf") /\ PrintNext /\ UNCHANGED headVars
  /\ NotDevice /\ NotClocks /\ NotNet /\ NotTasks

BenchNext == PlaySettings \/ PlayDevice \/ PlayTasks \/ PlayClocks \/ PlayNet \/ PlayText

BenchSpec == BenchInit /\ [][BenchNext]_benchVars

-----------------------------------------------------------------------------
(* The properties of the parts, under their names; what each says and of   *)
(* which code is told where it is defined.                                 *)

(* Every variable of every part has its type.                              *)
BenchTypeOK ==
  /\ DeviceTypeOK /\ RtcTypeOK /\ StmTypeOK /\ NtpTypeOK /\ TelnetTypeOK /\ LineTypeOK
  /\ RequestTypeOK /\ TypeOK

(* head_generator.c: a header is written whole.                            *)
HeaderWhole == H!HeaderWhole

=============================================================================

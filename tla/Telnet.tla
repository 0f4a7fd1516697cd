-------------------------------- MODULE Telnet --------------------------------
(***************************************************************************)
(* The telnet server (protocols/telnet/telnet.c): a menu, a command, its   *)
(* answer, and the menu again.  The answer is composed in the socket's     *)
(* buffer by a handler that a global function pointer names.               *)
(*                                                                         *)
(* One handler call is one step.  The socket pool is modelled by what it   *)
(* gives out: a block of memory that keeps its contents when it is freed   *)
(* and is cleared when it is handed out.  A connection is known by its     *)
(* slot in the TCP stack's table.  Slots are used again, also before the   *)
(* socket_t of the last session is released: the next session then goes on *)
(* in its state and its buffer.  A buffer is CELLS cells, each EMPTY       *)
(* ('\0') or a piece of text, tagged with the session it was written for.  *)
(* Commands fit into the 15 bytes of `command'; the sockets of the other   *)
(* servers are left out.                                                   *)
(***************************************************************************)
EXTENDS Integers, Sequences

CONSTANTS
  Conns,      (* slots of the TCP stack's socket table                     *)
  MAX_SOCKET,
  SESSIONS,   (* bound: how many connections are made in each slot         *)
  CELLS,      (* LARGE_BUFFER_SIZE, in pieces                              *)
  LogSizes,   (* size of SYSTEM.TXT, in pieces                             *)
  EMPTY, NULL

(* What the menu offers.                                                   *)
Commands == {"m", "l", "c", "x", "a"}

(* Sessions, numbered in each slot, and what may stand in a buffer.        *)
Sessions == [slot : Conns, nr : Nat]
Texts == [to : Sessions, says : Commands \cup {"invalid"}]

ASSUME TelnetAssumption ==
  /\ SESSIONS \in [Conns -> Nat] /\ MAX_SOCKET \in Nat \ {0} /\ CELLS \in Nat /\ CELLS > 1
  /\ LogSizes \subseteq Nat /\ NULL \notin LogSizes
  /\ NULL \notin Commands /\ EMPTY \notin Texts

VARIABLES
  memory,          (* socket_t's: state, eth_socket, buffer_large, and     *)
                   (* `since', the session that was given the block        *)
  pool,            (* the blocks in use                                    *)
  tcp,             (* state of each slot                                   *)
  session,         (* how many connections each slot has had               *)
  action_command,
  heard            (* what the peers got: in the last call, and the first  *)

telnetVars == <<memory, pool, tcp, session, action_command, heard>>

Blocks == 1 .. MAX_SOCKET
Cells == 1 .. CELLS
Cleared == [c \in Cells |-> EMPTY]
Session(c) == [slot |-> c, nr |-> session[c]]
Text(to, cmd) == [to |-> to, says |-> cmd]

TelnetInit ==
  /\ memory = [b \in Blocks |->
                 [state |-> "IDLE", eth |-> NULL, since |-> 0, buffer |-> Cleared]]
  /\ pool = {} /\ tcp = [c \in Conns |-> "closed"] /\ session = [c \in Conns |-> 0]
  /\ action_command = NULL
  /\ heard = [to |-> NULL, since |-> 0, asked |-> NULL, said |-> <<>>, met |-> {}]

-----------------------------------------------------------------------------
(* The commands, as what they leave in the buffer.                         *)

(* A string of one piece and its end: the rest of the buffer stays.        *)
Strcpy(buffer, to, cmd) == [buffer EXCEPT ![1] = Text(to, cmd), ![2] = EMPTY]

(* Reads the end of the log, without a '\0' behind it.                     *)
telnet_cmd_list_log(buffer, to, size) ==
  IF size = NULL THEN Strcpy(buffer, to, "l")
  ELSE [k \in Cells |-> IF k <= size THEN Text(to, "l") ELSE buffer[k]]

(* telnet_cmd_display_tcp_connections() has no body; `m' stands for `t' and  *)
(* `w' too, `l' for `e'.                                                    *)
Answer(buffer, to, action, size) ==
  CASE action = "c" -> buffer
    [] action = "l" -> telnet_cmd_list_log(buffer, to, size)
    [] OTHER -> Strcpy(buffer, to, action)

(* telnet_get_response(): the menu offers `a', the switch does not.        *)
telnet_get_response(command) == IF command = "a" THEN "invalid" ELSE command

(* telnet_send_response(): as far as the first '\0'; beyond the buffer,    *)
(* where there is none in it, come other fields of the socket.             *)
telnet_send_response(buffer) ==
  LET ends == {k \in Cells : buffer[k] = EMPTY}
      end == IF ends = {} THEN CELLS + 1 ELSE CHOOSE k \in ends : \A j \in ends : k <= j
  IN  [k \in 1 .. end - 1 |-> buffer[k]]

-----------------------------------------------------------------------------
(* The pool.                                                               *)
InUse(c) == {b \in pool : memory[b].eth = c}

(* Faulty variant: the memory is handed out as it is.                      *)
Uncleared(block, c) == [block EXCEPT !.eth = c, !.since = session[c]]

initialize_new_socket(block, c) ==
  [state |-> "IDLE", eth |-> c, since |-> session[c], buffer |-> Cleared]

(* What the session that has the slot of socket s now is told.             *)
Says(s, command, said) ==
  heard' = [to |-> Session(s.eth), since |-> s.since, asked |-> command, said |-> said,
            met |-> heard.met \cup (IF said = <<>> THEN {} ELSE {Session(s.eth)})]

(* close_telnet_socket(); what the block held is still in it.              *)
close_telnet_socket(b, c) ==
  /\ pool' = pool \ {b}
  /\ tcp' = [tcp EXCEPT ![c] = IF @ = "closed" THEN @ ELSE "closing"]

-----------------------------------------------------------------------------
(* telnet_handle_request(), state by state.  It runs for every packet of   *)
(* the connection, with a command in it or not.                            *)

SendMenu(b, s) ==
  /\ s.state \in {"IDLE", "SEND_MENU"}
  /\ memory' = [memory EXCEPT ![b] = [s EXCEPT !.state = "GET_COMMAND"]]
  /\ Says(s, NULL, (IF s.state = "IDLE" THEN <<Text(Session(s.eth), "header")>> ELSE <<>>)
                      \o <<Text(Session(s.eth), "menu")>>)
  /\ UNCHANGED <<tcp, action_command>>

(* The command `x' frees the socket, which is then used all the same.      *)
SendResponse(b, s, command) ==
  /\ \E size \in LogSizes \cup {NULL} :      \* NULL: it cannot be opened
       LET buffer == IF action_command' = "x" THEN s.buffer
                     ELSE Answer(s.buffer, Session(s.eth), action_command', size)
       IN  /\ memory' = [memory EXCEPT ![b] = [s EXCEPT !.state = "SEND_MENU", !.buffer = buffer]]
           /\ Says(s, command, (IF action_command' = "x" THEN <<Text(Session(s.eth), "goodbye")>>
                                                         ELSE <<>>)
                                 \o telnet_send_response(buffer))
  /\ IF action_command' = "x" THEN close_telnet_socket(b, s.eth) ELSE UNCHANGED <<pool, tcp>>

(* Faulty variant: the command is carried out at the next packet.          *)
AnswerLater == "SEND_RESPONSE"

AfterCommand == "GET_COMMAND"

GetCommand(b, s, command) ==
  /\ s.state = "GET_COMMAND" /\ command # NULL
  /\ action_command' = telnet_get_response(command)
  /\ IF AfterCommand = "GET_COMMAND" THEN SendResponse(b, s, command)
     ELSE /\ memory' = [memory EXCEPT ![b] = [s EXCEPT !.state = AfterCommand]]
          /\ UNCHANGED <<pool, tcp, heard>>

(* The state and the buffer are those of the block found by the slot, also *)
(* if it was given to an earlier session of that slot.                     *)
telnet_handle_request(c, command) ==
  /\ tcp[c] \in {"open", "closing"} /\ UNCHANGED session
  /\ \/ \E b \in InUse(c) :
          \/ SendMenu(b, memory[b]) /\ UNCHANGED pool
          \/ GetCommand(b, memory[b], command)
          \/ memory[b].state = "SEND_RESPONSE" /\ UNCHANGED action_command
               /\ SendResponse(b, memory[b], command)
     \/ /\ InUse(c) = {}
        /\ \E b \in Blocks \ pool :
             LET s == initialize_new_socket(memory[b], c)
             IN  \/ SendMenu(b, s) /\ pool' = pool \cup {b}
                 \/ /\ s.state = "GET_COMMAND" /\ pool' = pool \cup {b}
                    /\ memory' = [memory EXCEPT ![b] = s]
                    /\ UNCHANGED <<tcp, action_command, heard>>

-----------------------------------------------------------------------------
(* External: connections come and go.                                      *)
Connect(c) ==
  /\ tcp[c] = "closed" /\ session[c] < SESSIONS[c]
  /\ tcp' = [tcp EXCEPT ![c] = "open"] /\ session' = [session EXCEPT ![c] = @ + 1]
  /\ UNCHANGED <<memory, pool, action_command, heard>>

Gone(c) ==
  /\ tcp[c] \in {"open", "closing"} /\ tcp' = [tcp EXCEPT ![c] = "closed"]
  /\ UNCHANGED <<memory, pool, session, action_command, heard>>

(* The beat closes what is closed already or has been idle for too long.   *)
socket_manager_cleanup ==
  /\ \E b \in pool :
       LET s == memory[b]
       IN  /\ close_telnet_socket(b, s.eth)
           /\ Says(s, NULL, IF tcp[s.eth] = "closed" THEN <<>>
                            ELSE <<Text(Session(s.eth), "goodbye")>>)
  /\ UNCHANGED <<memory, session, action_command>>

TelnetNext ==
  \/ \E c \in Conns, command \in Commands \cup {NULL} : telnet_handle_request(c, command)
  \/ \E c \in Conns : Connect(c) \/ Gone(c)
  \/ socket_manager_cleanup

TelnetSpec == TelnetInit /\ [][TelnetNext]_telnetVars

-----------------------------------------------------------------------------
TelnetTypeOK ==
  /\ \A b \in Blocks :
       /\ memory[b].state \in {"IDLE", "GET_COMMAND", "SEND_RESPONSE", "SEND_MENU"}
       /\ memory[b].eth \in Conns \cup {NULL} /\ DOMAIN memory[b].buffer = Cells
  /\ pool \subseteq Blocks
  /\ tcp \in [Conns -> {"open", "closing", "closed"}]
  /\ session \in [Conns -> Nat] /\ \A c \in Conns : session[c] <= SESSIONS[c]
  /\ action_command \in Commands \cup {"invalid", NULL}

(* The sessions that may have written into a socket's buffer: those of its *)
(* slot since the socket_t was handed out.                                 *)
Writers(slot, since, last) == {[slot |-> slot, nr |-> n] : n \in since .. last}

(* The function pointer is shared by all sessions, but each gets the       *)
(* answer to the command it has sent; and what is left in a buffer, which  *)
(* some answers let through, was written since its socket_t was handed     *)
(* out: for this session, or for one before it in the slot whose socket_t  *)
(* it has taken over, never for a session of another slot.                 *)
AnswersOwnCommand ==
  /\ \A k \in 1 .. Len(heard.said) :
       heard.said[k].to \in Writers(heard.to.slot, heard.since, heard.to.nr)
  /\ heard.asked \in {"m", "a"} =>
       heard.said = <<Text(heard.to, telnet_get_response(heard.asked))>>

(* A session that is given a socket_t of its own begins with the header    *)
(* and the menu, also in the memory of a session whose `x' was answered    *)
(* after its socket was freed.  One that takes over a socket_t is not      *)
(* greeted: telnet_handle_request() goes on where the last one stopped.    *)
SessionGreeted ==
  [][heard'.to \notin heard.met /\ heard'.said # <<>> /\ heard'.since = heard'.to.nr =>
       heard'.said = <<Text(heard'.to, "header"), Text(heard'.to, "menu")>>]_telnetVars

=============================================================================

---------------------------- MODULE SettingsStore ----------------------------
(***************************************************************************)
(* What the settings manager promises its callers, without saying how: a   *)
(* working copy of every byte, a durable one, and the set of groups whose  *)
(* durable copy is still owed.  Only a byte of an owed group may change in *)
(* the durable copy, only to the value of the working copy, and a group is *)
(* no longer owed only when its two copies agree.  A reset loses the       *)
(* working copy, and with it what was owed.                                *)
(***************************************************************************)
CONSTANTS
  Group,     (* groups of settings that are saved together                 *)
  Region,    (* Region[g]: the addresses of the bytes of group g           *)
  Value      (* values of a byte                                           *)

VARIABLES working, durable, owed

vars == <<working, durable, owed>>

Addr == UNION {Region[g] : g \in Group}
Agree(g) == \A a \in Region[g] : working[a] = durable[a]

Init ==
  /\ durable \in [Addr -> Value]
  /\ working = durable
  /\ owed = {}

(* A caller changes the working copy, of one byte or of all of them.       *)
Put == working' \in [Addr -> Value] /\ UNCHANGED <<durable, owed>>

(* A caller asks for groups to be saved.                                   *)
Owe == owed \subseteq owed' /\ owed' \subseteq Group /\ UNCHANGED <<working, durable>>

(* A caller asks for everything to be replaced and saved.                  *)
Replace == working' \in [Addr -> Value] /\ owed' = Group /\ UNCHANGED durable

(* One more byte of an owed group becomes durable.                         *)
Save ==
  /\ \E g \in owed : \E a \in Region[g] : durable' = [durable EXCEPT ![a] = working[a]]
  /\ UNCHANGED <<working, owed>>

(* A group leaves the set only when every byte of it is durable.           *)
Settle ==
  /\ owed' \subseteq owed
  /\ \A g \in owed \ owed' : Agree(g)
  /\ UNCHANGED <<working, durable>>

Reset == working' = durable /\ owed' = {} /\ UNCHANGED durable

Next == Put \/ Owe \/ Replace \/ Save \/ Settle \/ Reset

Spec == Init /\ [][Next]_vars

=============================================================================

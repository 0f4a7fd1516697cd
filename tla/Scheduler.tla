------------------------------ MODULE Scheduler ------------------------------
(***************************************************************************)
(* The cooperative task scheduler (scheduler/scheduler.c) and the two      *)
(* threads of control that share its task table: the main thread, which    *)
(* boots, calls the API and runs task_dispatch(), and the timer interrupt, *)
(* which runs task_scheduler_clock() between any two of its steps.         *)
(*                                                                         *)
(* An interrupt runs to completion, so the clock is one action.  The main  *)
(* thread is cut wherever an interrupt could tell the difference: around   *)
(* every access to the volatile 32-bit `delay', and, where the processor   *)
(* has no 32-bit access (WordAtomic = FALSE), inside it as well.           *)
(***************************************************************************)
EXTENDS Integers, FiniteSets

CONSTANTS
  MAX_TASKS,   (* slots in the task table                                  *)
  Tasks,       (* task functions                                           *)
  NULL_TASK,   (* the null function pointer                                *)
  Clock,       (* milliseconds between two interrupts                      *)
  Periods,     (* periods, in milliseconds, that callers pass to task_add  *)
  WordAtomic,  (* TRUE: one access moves a uint32_t (ARM); FALSE: AVR      *)
  Byte,        (* base of one digit of `delay' when it takes two accesses  *)
  Ops          (* API calls made from "boot", from "loop", from a "body"   *)

Sites   == {"boot", "loop", "body"}
OpNames == {"add", "delete", "stop", "resume", "start", "pause", "init"}

ASSUME SchedulerAssumption ==
  /\ MAX_TASKS \in Nat \ {0}
  /\ NULL_TASK \notin Tasks
  /\ Clock \in Nat \ {0}
  /\ Periods \subseteq Nat
  /\ WordAtomic \in BOOLEAN
  /\ Byte \in Nat \ {0, 1}
  /\ Ops \in [Sites -> SUBSET OpNames]

VARIABLES
  id, task, delay, period, task_status,  (* task_list[], field by field    *)
  running,     (* task_scheduler_running                                   *)
  pc,          (* where the main thread is                                 *)
  i,           (* the slot task_dispatch() is looking at                   *)
  adding,      (* the call to task_add() in progress, if any               *)
  half,        (* the digit already moved by a two-access move of `delay'  *)
  ticks_asked, (* history: ticks the caller of task_add asked to wait      *)
  ticks_due    (* history: ticks that must still pass before the next run  *)

table == <<id, task, delay, period, task_status>>
ghost == <<ticks_asked, ticks_due>>
vars  == <<table, running, pc, i, adding, half, ghost>>

Slots    == 0 .. MAX_TASKS - 1
Statuses == {"EMPTY", "STOPPED", "RUNNABLE", "RUNNING"}
Places   == Sites \cup {"scan", "reset", "release", "fault"}
NotAdding == [step |-> "none", slot |-> 0, ticks |-> 0]
NoHalf    == [digit |-> "none", val |-> 0]

(* task_id arguments: what task_add() can return, TASK_ERROR included.     *)
TASK_ERROR == 99
TaskIds == (1 .. MAX_TASKS) \cup {TASK_ERROR}

-----------------------------------------------------------------------------
(* Ticks for a period: ceil of period / clock, never less than one.        *)
TicksFor(p) == LET q == (p + Clock - 1) \div Clock IN IF q < 1 THEN 1 ELSE q

(* time_calc is a float: count_per_ms = 1/clock is rounded, and a product  *)
(* that should be a whole number may land just above it, one tick more.    *)
time_calc(p) ==
  {TicksFor(p)} \cup IF p > Clock /\ p % Clock = 0 THEN {TicksFor(p) + 1} ELSE {}

(* A 32-bit value seen as two digits, the accesses an 8-bit core makes.    *)
Lo(v) == v % Byte
Hi(v) == v \div Byte
Splice(digit, from, into) ==      \* `into' with one digit taken from `from'
  IF digit = "lo" THEN Hi(into) * Byte + Lo(from) ELSE Hi(from) * Byte + Lo(into)

Settled == WordAtomic \/ half # NoHalf            \* only the last access is left
ReadOf(s) == IF WordAtomic THEN delay[s] ELSE Splice(half.digit, half.val, delay[s])
Write(s, v) ==
  [delay EXCEPT ![s] = IF WordAtomic THEN v ELSE Splice(half.digit, @, v)]

find_task(n) == {s \in Slots : id[s] = n /\ \A r \in Slots : id[r] = n => s <= r}

-----------------------------------------------------------------------------
Init ==
  /\ id = [s \in Slots |-> 0]
  /\ task = [s \in Slots |-> NULL_TASK]
  /\ delay = [s \in Slots |-> 0]
  /\ period = [s \in Slots |-> 0]
  /\ task_status = [s \in Slots |-> "EMPTY"]
  /\ running = FALSE
  /\ pc = "boot"
  /\ i = 0
  /\ adding = NotAdding
  /\ half = NoHalf
  /\ ticks_asked = [s \in Slots |-> 0]
  /\ ticks_due = [s \in Slots |-> 0]

-----------------------------------------------------------------------------
(* The API, called from the boot code, the main loop or a running task.    *)

Can(op) == pc \in Sites /\ op \in Ops[pc] /\ adding = NotAdding

SetStatus(n, status) ==
  task_status' = [s \in Slots |-> IF s \in find_task(n) THEN status ELSE task_status[s]]

(* Claim the first empty slot; with none left the call returns TASK_ERROR. *)
task_add(t, p) ==
  /\ Can("add")
  /\ \E s \in Slots, ticks \in time_calc(p) :
       /\ task_status[s] = "EMPTY"
       /\ \A r \in Slots : r < s => task_status[r] # "EMPTY"
       /\ task_status' = [task_status EXCEPT ![s] = "RUNNABLE"]
       /\ id' = [id EXCEPT ![s] = s + 1]
       /\ task' = [task EXCEPT ![s] = t]
       /\ adding' = [step |-> "delay", slot |-> s, ticks |-> ticks]
       /\ ticks_asked' = [ticks_asked EXCEPT ![s] = TicksFor(p)]
       /\ ticks_due' = [ticks_due EXCEPT ![s] = TicksFor(p)]
  /\ UNCHANGED <<delay, period, running, pc, i, half>>

AddDelay ==       \* delay = ceil( time_calc )
  /\ adding.step = "delay" /\ Settled
  /\ delay' = Write(adding.slot, adding.ticks)
  /\ ticks_due' = [ticks_due EXCEPT ![adding.slot] = ticks_asked[adding.slot]]
  /\ adding' = [adding EXCEPT !.step = "period"]
  /\ half' = NoHalf
  /\ UNCHANGED <<id, task, period, task_status, running, pc, i, ticks_asked>>

AddPeriod ==      \* period = delay, a second read of the volatile field
  /\ adding.step = "period" /\ Settled
  /\ period' = [period EXCEPT ![adding.slot] = ReadOf(adding.slot)]
  /\ adding' = NotAdding
  /\ half' = NoHalf
  /\ UNCHANGED <<id, task, delay, task_status, running, pc, i, ghost>>

(* Faulty variant: the status of a deleted task is left as it was.         *)
DeleteKeepingStatus(n) ==
  /\ Can("delete")
  /\ task' = [s \in Slots |-> IF s \in find_task(n) THEN NULL_TASK ELSE task[s]]
  /\ UNCHANGED <<id, delay, period, task_status, running, pc, i, adding, half, ghost>>

task_delete(n) ==
  /\ Can("delete")
  /\ task' = [s \in Slots |-> IF s \in find_task(n) THEN NULL_TASK ELSE task[s]]
  /\ SetStatus(n, "EMPTY")
  /\ UNCHANGED <<id, delay, period, running, pc, i, adding, half, ghost>>

task_stop(n) ==
  /\ Can("stop")
  /\ SetStatus(n, "STOPPED")
  /\ UNCHANGED <<id, task, delay, period, running, pc, i, adding, half, ghost>>

task_resume(n) ==
  /\ Can("resume")
  /\ SetStatus(n, "RUNNABLE")
  /\ UNCHANGED <<id, task, delay, period, running, pc, i, adding, half, ghost>>

(* main() starts the scheduler once, after boot; the API may do so again.  *)
task_scheduler_start ==
  /\ pc = "boot" \/ Can("start")
  /\ adding = NotAdding
  /\ running' = TRUE
  /\ pc' = IF pc = "boot" THEN "loop" ELSE pc
  /\ UNCHANGED <<table, i, adding, half, ghost>>

task_scheduler_stop ==
  /\ Can("pause")
  /\ running' = FALSE
  /\ UNCHANGED <<table, pc, i, adding, half, ghost>>

task_scheduler_init ==   \* the table is left as it is
  /\ Can("init")
  /\ running' = FALSE
  /\ UNCHANGED <<table, pc, i, adding, half, ghost>>

-----------------------------------------------------------------------------
(* task_dispatch(): one pass over the table.                               *)

EnterDispatch ==
  /\ pc = "loop" /\ adding = NotAdding /\ running
  /\ pc' = "scan" /\ i' = 0
  /\ UNCHANGED <<table, running, adding, half, ghost>>

Looking == pc = "scan" /\ i \in Slots /\ Settled
(* Faulty variant: a task is started one tick early.                       *)
ReadyTooEarly == ReadOf(i) <= 1 /\ task_status[i] = "RUNNABLE"

Ready   == ReadOf(i) = 0 /\ task_status[i] = "RUNNABLE"

RunTask ==        \* status = RUNNING, then the call through the pointer
  /\ Looking /\ Ready
  /\ task_status' = [task_status EXCEPT ![i] = "RUNNING"]
  /\ pc' = IF task[i] = NULL_TASK THEN "fault" ELSE "body"
  /\ half' = NoHalf
  /\ UNCHANGED <<id, task, delay, period, running, i, adding, ghost>>

SkipSlot ==
  /\ Looking /\ ~Ready
  /\ i' = i + 1
  /\ half' = NoHalf
  /\ UNCHANGED <<table, running, pc, adding, ghost>>

TaskReturns ==
  /\ pc = "body" /\ adding = NotAdding
  /\ pc' = "reset"
  /\ UNCHANGED <<table, running, i, adding, half, ghost>>

ResetDelay ==
  /\ pc = "reset" /\ Settled
  /\ delay' = Write(i, period[i])
  /\ ticks_due' = [ticks_due EXCEPT ![i] = ticks_asked[i]]
  /\ half' = NoHalf
  /\ pc' = "release"
  /\ UNCHANGED <<id, task, period, task_status, running, i, adding, ticks_asked>>

(* Faulty variants: the slot is left RUNNING; the index is advanced first. *)
ReleaseNothing ==
  /\ pc = "release"
  /\ pc' = "scan" /\ i' = i + 1
  /\ UNCHANGED <<table, running, adding, half, ghost>>

ReleaseNext ==
  /\ pc = "release"
  /\ task_status' = [s \in Slots |-> IF s = i + 1 THEN "RUNNABLE" ELSE task_status[s]]
  /\ pc' = "scan" /\ i' = i + 1
  /\ UNCHANGED <<id, task, delay, period, running, adding, half, ghost>>

Release ==        \* the task is runnable again, whatever it did meanwhile
  /\ pc = "release"
  /\ task_status' = [task_status EXCEPT ![i] = "RUNNABLE"]
  /\ pc' = "scan" /\ i' = i + 1
  /\ UNCHANGED <<id, task, delay, period, running, adding, half, ghost>>

LeaveDispatch ==
  /\ pc = "scan" /\ i = MAX_TASKS
  /\ pc' = "loop" /\ i' = 0
  /\ UNCHANGED <<table, running, adding, half, ghost>>

-----------------------------------------------------------------------------
(* The first of the two accesses of a core without 32-bit moves; compilers *)
(* choose the order of the bytes, so either digit may come first.          *)

FirstAccess == ~WordAtomic /\ half = NoHalf

ReadHalf(s) ==
  /\ FirstAccess
  /\ \E d \in {"lo", "hi"} : half' = [digit |-> d, val |-> delay[s]]
  /\ UNCHANGED <<table, running, pc, i, adding, ghost>>

WriteHalf(s, v, ticks) ==
  /\ FirstAccess
  /\ \E d \in {"lo", "hi"} :
       /\ half' = [digit |-> d, val |-> v]
       /\ delay' = [delay EXCEPT ![s] = Splice(d, v, @)]
  /\ ticks_due' = [ticks_due EXCEPT ![s] = ticks]
  /\ UNCHANGED <<id, task, period, task_status, running, pc, i, adding, ticks_asked>>

HalfAccess ==
  \/ pc = "scan" /\ i \in Slots /\ ReadHalf(i)
  \/ adding.step = "period" /\ ReadHalf(adding.slot)
  \/ adding.step = "delay" /\ WriteHalf(adding.slot, adding.ticks, ticks_asked[adding.slot])
  \/ pc = "reset" /\ WriteHalf(i, period[i], ticks_asked[i])

-----------------------------------------------------------------------------
(* The timer interrupt.  It ignores slots that are not RUNNABLE.           *)

(* Faulty variants: a countdown that wraps at zero, one that stops at one. *)
DownBelowZero(n) == n - 1
DownToOne(n) == IF n > 1 THEN n - 1 ELSE n

Down(n) == IF n > 0 THEN n - 1 ELSE 0

task_scheduler_clock ==
  /\ running
  /\ delay' = [s \in Slots |->
                 IF task_status[s] = "RUNNABLE" THEN Down(delay[s]) ELSE delay[s]]
  /\ ticks_due' = [s \in Slots |-> Down(ticks_due[s])]
  /\ UNCHANGED <<id, task, period, task_status, running, pc, i, adding, half, ticks_asked>>

-----------------------------------------------------------------------------
(* The calls that take the id of a task.                                   *)
OnTask(n, op) ==
  CASE op = "delete" -> task_delete(n) [] op = "stop" -> task_stop(n) [] op = "resume" -> task_resume(n)

Api ==
  \/ \E t \in Tasks, p \in Periods : task_add(t, p)
  \/ \E n \in TaskIds, op \in {"delete", "stop", "resume"} : OnTask(n, op)
  \/ task_scheduler_start \/ task_scheduler_stop \/ task_scheduler_init

(* Where the first access of two is due nothing else happens to delay.     *)
Access == IF FirstAccess THEN HalfAccess ELSE ResetDelay

Dispatcher ==
  \/ EnterDispatch \/ LeaveDispatch
  \/ RunTask \/ SkipSlot \/ TaskReturns \/ Release
  \/ AddDelay \/ AddPeriod \/ Access

Next == Api \/ Dispatcher \/ task_scheduler_clock

Spec == Init /\ [][Next]_vars

(* main() reaches its loop and never leaves it; every task is a function   *)
(* that returns; the timer never stops.  API calls are not owed to anyone. *)
FairSpec ==
  /\ Spec
  /\ WF_vars(task_scheduler_start /\ pc = "boot")
  /\ WF_vars(Dispatcher)
  /\ WF_vars(task_scheduler_clock)

-----------------------------------------------------------------------------
TypeOK ==
  /\ id \in [Slots -> Nat]
  /\ task \in [Slots -> Tasks \cup {NULL_TASK}]
  /\ delay \in [Slots -> Nat]
  /\ period \in [Slots -> Nat]
  /\ task_status \in [Slots -> Statuses]
  /\ running \in BOOLEAN
  /\ pc \in Places
  /\ i \in 0 .. MAX_TASKS
  /\ adding \in [step : {"none", "delay", "period"}, slot : Slots, ticks : Nat]
  /\ half \in [digit : {"none", "lo", "hi"}, val : Nat]
  /\ ticks_asked \in [Slots -> Nat]
  /\ ticks_due \in [Slots -> Nat]

(* A slot is RUNNING only while task_dispatch() is inside that very slot:  *)
(* no call the running task makes, and no interrupt, leaves one behind     *)
(* RUNNING, which the clock would ignore and the dispatcher never run.     *)
RunningIsCurrent ==
  \A s \in Slots :
    task_status[s] = "RUNNING" => s = i /\ pc \in {"body", "reset", "release", "fault"}

(* task_dispatch() never calls through the pointer of a deleted task.      *)
NoNullCall == pc # "fault"

(* A task that is started has waited, since it was added or since its last *)
(* run, for the number of ticks its caller asked for.                      *)
Punctual == [][pc = "scan" /\ pc' = "body" => ticks_due[i] = 0]_vars

(* A stopped task becomes runnable through task_resume() and nothing else. *)
OnlyResumeRevives ==
  [][\A s \in Slots : task_status[s] = "STOPPED" /\ task_status'[s] = "RUNNABLE"
        => \E n \in TaskIds : task_resume(n)]_vars

(* A slot that is runnable while the scheduler runs is executed, unless    *)
(* someone stops it or the scheduler first: no slot starves behind another *)
(* one, and no countdown gets stuck.                                       *)
RunnableRuns ==
  \A s \in Slots :
    (running /\ task_status[s] = "RUNNABLE") ~> (~running \/ task_status[s] # "RUNNABLE")

=============================================================================

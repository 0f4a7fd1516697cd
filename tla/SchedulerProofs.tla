--------------------------- MODULE SchedulerProofs ---------------------------
(***************************************************************************)
(* Proofs about Scheduler, for every table size, period, clock and, unless *)
(* a theorem says otherwise, every use of the API and either kind of core. *)
(***************************************************************************)
EXTENDS Scheduler, TLAPS

(* The conversions stay in the naturals.                                   *)
LEMMA TicksForNat ==
  ASSUME NEW p \in Nat
  PROVE  TicksFor(p) \in Nat /\ TicksFor(p) >= 1
<1>1. (p + Clock - 1) \div Clock \in Int
  BY SchedulerAssumption
<1>2. QED
  BY <1>1 DEF TicksFor

LEMMA TimeCalcNat ==
  ASSUME NEW p \in Nat, NEW ticks \in time_calc(p)
  PROVE  ticks \in Nat /\ TicksFor(p) <= ticks
BY TicksForNat DEF time_calc

LEMMA SpliceNat ==
  ASSUME NEW d, NEW v \in Nat, NEW w \in Nat
  PROVE  Splice(d, v, w) \in Nat
<1>1. ASSUME NEW n \in Nat
      PROVE  Lo(n) \in Nat /\ Hi(n) \in Nat
  BY SchedulerAssumption DEF Lo, Hi
<1>2. ASSUME NEW h \in Nat, NEW l \in Nat
      PROVE  h * Byte + l \in Nat
  BY SchedulerAssumption
<1>3. QED
  BY <1>1, <1>2 DEF Splice

-----------------------------------------------------------------------------
(* The type invariant with the one fact that makes it inductive: while a   *)
(* task is being run, the dispatcher looks at a slot of the table.         *)
DispatchInTable == pc \in {"body", "reset", "release"} => i \in Slots

TypeInv == TypeOK /\ DispatchInTable

LEMMA ReadNat ==
  ASSUME TypeOK, NEW s \in Slots
  PROVE  ReadOf(s) \in Nat
BY SpliceNat DEF ReadOf, TypeOK

LEMMA WriteNat ==
  ASSUME TypeOK, NEW s \in Slots, NEW v \in Nat
  PROVE  Write(s, v) \in [Slots -> Nat]
BY SpliceNat DEF Write, TypeOK

LEMMA SpliceWriteNat ==
  ASSUME TypeOK, NEW s \in Slots, NEW v \in Nat, NEW d
  PROVE  [delay EXCEPT ![s] = Splice(d, v, @)] \in [Slots -> Nat]
BY SpliceNat DEF TypeOK

LEMMA DownNat ==
  ASSUME NEW n \in Nat
  PROVE  Down(n) \in Nat /\ Down(n) <= n
BY DEF Down

LEMMA IdleTypes ==
  /\ NotAdding \in [step : {"none", "delay", "period"}, slot : Slots, ticks : Nat]
  /\ NoHalf \in [digit : {"none", "lo", "hi"}, val : Nat]
<1>1. 0 \in Slots
  BY SchedulerAssumption DEF Slots
<1>2. QED
  BY <1>1 DEF NotAdding, NoHalf

LEMMA InitTypeInv == Init => TypeInv
<1>1. 0 \in 0 .. MAX_TASKS
  BY SchedulerAssumption
<1>2. ASSUME Init
      PROVE  /\ id \in [Slots -> Nat] /\ delay \in [Slots -> Nat]
             /\ period \in [Slots -> Nat] /\ task \in [Slots -> Tasks \cup {NULL_TASK}]
             /\ ticks_asked \in [Slots -> Nat] /\ ticks_due \in [Slots -> Nat]
  BY <1>2 DEF Init
<1>3. ASSUME Init
      PROVE  /\ task_status \in [Slots -> Statuses]
             /\ pc \in Places /\ DispatchInTable /\ running \in BOOLEAN
             /\ i \in 0 .. MAX_TASKS
  BY <1>1, <1>3 DEF Init, Statuses, Places, Sites, DispatchInTable
<1>4. QED
  BY <1>2, <1>3, IdleTypes DEF Init, TypeInv, TypeOK

LEMMA NextTypeInv == TypeInv /\ [Next]_vars => TypeInv'
<1> SUFFICES ASSUME TypeInv, [Next]_vars
             PROVE  TypeInv'
  OBVIOUS
<1> USE SchedulerAssumption DEF TypeInv, TypeOK, DispatchInTable
<1>1. ASSUME NEW t \in Tasks, NEW p \in Periods, task_add(t, p)
      PROVE  TypeInv'
  <2>1. PICK s \in Slots, ticks \in time_calc(p) :
          /\ task_status' = [task_status EXCEPT ![s] = "RUNNABLE"]
          /\ id' = [id EXCEPT ![s] = s + 1]
          /\ task' = [task EXCEPT ![s] = t]
          /\ adding' = [step |-> "delay", slot |-> s, ticks |-> ticks]
          /\ ticks_asked' = [ticks_asked EXCEPT ![s] = TicksFor(p)]
          /\ ticks_due' = [ticks_due EXCEPT ![s] = TicksFor(p)]
    BY <1>1 DEF task_add
  <2>2. ticks \in Nat /\ TicksFor(p) \in Nat
    BY TicksForNat, TimeCalcNat
  <2>3. UNCHANGED <<delay, period, running, pc, i, half>>
    BY <1>1 DEF task_add
  <2>4. s + 1 \in Nat
    BY DEF Slots
  <2>5. QED
    BY <2>1, <2>2, <2>3, <2>4 DEF Statuses
<1>2. CASE AddDelay
  <2>1. Write(adding.slot, adding.ticks) \in [Slots -> Nat]
    BY WriteNat
  <2>2. QED
    BY <1>2, <2>1 DEF AddDelay, NoHalf
<1>3. CASE AddPeriod
  <2>1. ReadOf(adding.slot) \in Nat
    BY ReadNat
  <2>2. QED
    BY <1>3, <2>1, IdleTypes DEF AddPeriod, ghost
<1>4. ASSUME NEW n \in TaskIds, task_delete(n) \/ task_stop(n) \/ task_resume(n)
      PROVE  TypeInv'
  <2>1. task' \in [Slots -> Tasks \cup {NULL_TASK}]
    BY <1>4 DEF task_delete, task_stop, task_resume
  <2>2. task_status' \in [Slots -> Statuses]
    BY <1>4 DEF task_delete, task_stop, task_resume, SetStatus, Statuses
  <2>3. UNCHANGED <<id, delay, period, running, pc, i, adding, half, ghost>>
    BY <1>4 DEF task_delete, task_stop, task_resume
  <2>4. QED
    BY <2>1, <2>2, <2>3 DEF ghost
<1>5. CASE task_scheduler_start
  BY <1>5 DEF task_scheduler_start, table, ghost, Places, Sites
<1>6. CASE task_scheduler_stop \/ task_scheduler_init
  BY <1>6 DEF task_scheduler_stop, task_scheduler_init, table, ghost
<1>7. CASE EnterDispatch \/ LeaveDispatch
  BY <1>7 DEF EnterDispatch, LeaveDispatch, table, ghost, Places, Sites
<1>8. CASE RunTask
  BY <1>8 DEF RunTask, Looking, Statuses, Places, Sites, NoHalf, ghost
<1>9. CASE SkipSlot
  BY <1>9 DEF SkipSlot, Looking, NoHalf, table, ghost, Slots
<1>10. CASE TaskReturns
  BY <1>10 DEF TaskReturns, table, ghost, Places
<1>11. CASE ResetDelay
  <2>1. Write(i, period[i]) \in [Slots -> Nat]
    BY <1>11, WriteNat DEF ResetDelay
  <2>2. QED
    BY <1>11, <2>1 DEF ResetDelay, NoHalf, Places
<1>12. CASE Release
  <2>1. i' \in 0 .. MAX_TASKS
    BY <1>12 DEF Release, Slots
  <2>2. task_status' \in [Slots -> Statuses]
    BY <1>12 DEF Release, Statuses
  <2>3. pc' \in Places /\ DispatchInTable'
    BY <1>12 DEF Release, Places
  <2>4. QED
    BY <1>12, <2>1, <2>2, <2>3 DEF Release, ghost
<1>13. CASE HalfAccess
  <2>1. ASSUME NEW s \in Slots, ReadHalf(s)
        PROVE  TypeInv'
    BY <2>1 DEF ReadHalf, table, ghost
  <2>2. ASSUME NEW s \in Slots, NEW v \in Nat, NEW ticks \in Nat, WriteHalf(s, v, ticks)
        PROVE  TypeInv'
    <3>1. PICK d \in {"lo", "hi"} :
            /\ half' = [digit |-> d, val |-> v]
            /\ delay' = [delay EXCEPT ![s] = Splice(d, v, @)]
      BY <2>2 DEF WriteHalf
    <3>2. delay' \in [Slots -> Nat]
      BY <3>1, SpliceWriteNat
    <3>3. QED
      BY <2>2, <3>1, <3>2 DEF WriteHalf
  <2>3. QED
    BY <1>13, <2>1, <2>2 DEF HalfAccess
<1>14. CASE task_scheduler_clock
  BY <1>14, DownNat DEF task_scheduler_clock
<1>15. CASE UNCHANGED vars
  BY <1>15 DEF vars, table, ghost
<1>16. QED
  BY <1>1, <1>2, <1>3, <1>4, <1>5, <1>6, <1>7, <1>8, <1>9, <1>10, <1>11, <1>12,
     <1>13, <1>14, <1>15
  DEF Next, Api, OnTask, Dispatcher, Access

(* Every variable keeps its type, whoever calls what and when.             *)
THEOREM TypeCorrect == Spec => []TypeOK
<1>1. TypeInv => TypeOK
  BY DEF TypeInv
<1>2. QED
  BY InitTypeInv, NextTypeInv, <1>1, PTL DEF Spec

LEMMA TypeInvAlways == Spec => []TypeInv
BY InitTypeInv, NextTypeInv, PTL DEF Spec

-----------------------------------------------------------------------------
(* No slot is left RUNNING outside the dispatcher's pass over it: the      *)
(* status a slot has when task_dispatch() leaves it is never RUNNING,      *)
(* whatever the task, the main loop and the interrupt did meanwhile.       *)
THEOREM RunningCurrent == Spec => []RunningIsCurrent
<1>1. Init => RunningIsCurrent
  BY DEF Init, RunningIsCurrent
<1>2. TypeInv /\ RunningIsCurrent /\ [Next]_vars => RunningIsCurrent'
  <2> SUFFICES ASSUME TypeInv, RunningIsCurrent, [Next]_vars
               PROVE  RunningIsCurrent'
    OBVIOUS
  <2> USE DEF TypeInv, TypeOK, RunningIsCurrent
  <2>1. ASSUME NEW t \in Tasks, NEW p \in Periods, task_add(t, p)
        PROVE  RunningIsCurrent'
    BY <2>1 DEF task_add
  <2>2. ASSUME NEW n \in TaskIds, task_delete(n) \/ task_stop(n) \/ task_resume(n)
        PROVE  RunningIsCurrent'
    BY <2>2 DEF task_delete, task_stop, task_resume, SetStatus
  <2>3. CASE task_scheduler_start \/ task_scheduler_stop \/ task_scheduler_init
    BY <2>3 DEF task_scheduler_start, task_scheduler_stop, task_scheduler_init, table
  <2>4. CASE EnterDispatch \/ LeaveDispatch \/ SkipSlot \/ TaskReturns
    BY <2>4 DEF EnterDispatch, LeaveDispatch, SkipSlot, Looking, TaskReturns, table
  <2>5. CASE RunTask
    BY <2>5 DEF RunTask, Looking
  <2>6. CASE ResetDelay
    BY <2>6 DEF ResetDelay
  <2>7. CASE Release
    BY <2>7 DEF Release
  <2>8. CASE AddDelay \/ AddPeriod
    BY <2>8 DEF AddDelay, AddPeriod
  <2>9. CASE HalfAccess
    BY <2>9 DEF HalfAccess, ReadHalf, WriteHalf, table
  <2>10. CASE task_scheduler_clock
    BY <2>10 DEF task_scheduler_clock
  <2>11. CASE UNCHANGED vars
    BY <2>11 DEF vars, table
  <2>12. QED
    BY <2>1, <2>2, <2>3, <2>4, <2>5, <2>6, <2>7, <2>8, <2>9, <2>10, <2>11
    DEF Next, Api, OnTask, Dispatcher, Access
<1>3. QED
  BY <1>1, <1>2, TypeInvAlways, PTL DEF Spec

-----------------------------------------------------------------------------
(* Punctuality needs two things of the build and of the application: a     *)
(* core that moves a uint32_t in one access, and tasks that are all added  *)
(* before the scheduler is started, as system_init() does.                 *)
Disciplined ==
  /\ WordAtomic
  /\ "add" \notin Ops["loop"] \cup Ops["body"]
  /\ "start" \notin Ops["boot"]

(* The countdown the code keeps is never ahead of the one the caller asked *)
(* for; a slot being filled by task_add() is not ready for the comparison  *)
(* yet, but then the scheduler is not running.                             *)
Filling(s, steps) == adding.slot = s /\ adding.step \in steps

PunctualInv ==
  /\ pc = "boot" => ~running
  /\ adding.step # "none" => pc = "boot" /\ ticks_asked[adding.slot] <= adding.ticks
  /\ \A s \in Slots : ~Filling(s, {"delay", "period"}) => ticks_asked[s] <= period[s]
  /\ \A s \in Slots : ~Filling(s, {"delay"}) => ticks_due[s] <= delay[s]
  /\ adding.step = "period" => ticks_asked[adding.slot] <= delay[adding.slot]

LEMMA InitPunctual == Init => PunctualInv
BY DEF Init, PunctualInv, NotAdding, Filling

LEMMA NextPunctual ==
  ASSUME Disciplined
  PROVE  TypeInv /\ PunctualInv /\ [Next]_vars => PunctualInv'
<1> SUFFICES ASSUME TypeInv, PunctualInv, [Next]_vars
             PROVE  PunctualInv'
  OBVIOUS
<1> USE DEF TypeInv, TypeOK, PunctualInv, Filling
<1>1. ASSUME NEW t \in Tasks, NEW p \in Periods, task_add(t, p)
      PROVE  PunctualInv'
  <2>1. pc = "boot" /\ adding = NotAdding
    BY <1>1 DEF task_add, Can, Sites, Disciplined
  <2>2. PICK s \in Slots, ticks \in time_calc(p) :
          /\ adding' = [step |-> "delay", slot |-> s, ticks |-> ticks]
          /\ ticks_asked' = [ticks_asked EXCEPT ![s] = TicksFor(p)]
          /\ ticks_due' = [ticks_due EXCEPT ![s] = TicksFor(p)]
    BY <1>1 DEF task_add
  <2>3. TicksFor(p) <= ticks
    BY TimeCalcNat, SchedulerAssumption
  <2>4. UNCHANGED <<delay, period, running, pc>>
    BY <1>1 DEF task_add
  <2>5. adding.step = "none"
    BY <2>1 DEF NotAdding
  <2>6. QED
    BY <2>1, <2>2, <2>3, <2>4, <2>5
<1>2. CASE AddDelay
  <2>1. delay' = [delay EXCEPT ![adding.slot] = adding.ticks]
    BY <1>2 DEF AddDelay, Write, Disciplined
  <2>2. adding' = [adding EXCEPT !.step = "period"]
    BY <1>2 DEF AddDelay
  <2>3. adding'.step = "period" /\ adding'.slot = adding.slot /\ adding'.ticks = adding.ticks
    BY <2>2
  <2>4. QED
    BY <1>2, <2>1, <2>3 DEF AddDelay
<1>3. CASE AddPeriod
  <2>1. period' = [period EXCEPT ![adding.slot] = delay[adding.slot]]
    BY <1>3 DEF AddPeriod, ReadOf, Disciplined
  <2>2. adding'.step = "none"
    BY <1>3 DEF AddPeriod, NotAdding
  <2>3. QED
    BY <1>3, <2>1, <2>2 DEF AddPeriod, ghost
<1>4. ASSUME NEW n \in TaskIds, task_delete(n) \/ task_stop(n) \/ task_resume(n)
      PROVE  PunctualInv'
  BY <1>4 DEF task_delete, task_stop, task_resume, ghost
<1>5. CASE task_scheduler_start
  <2>1. adding.step = "none" /\ pc' # "boot"
    BY <1>5 DEF task_scheduler_start, NotAdding
  <2>2. QED
    BY <1>5, <2>1 DEF task_scheduler_start, table, ghost
<1>6. CASE task_scheduler_stop \/ task_scheduler_init
  BY <1>6 DEF task_scheduler_stop, task_scheduler_init, table, ghost
<1>7. CASE EnterDispatch \/ LeaveDispatch \/ SkipSlot \/ TaskReturns
  <2>1. adding.step = "none" /\ pc' # "boot"
    BY <1>7 DEF EnterDispatch, LeaveDispatch, SkipSlot, Looking, TaskReturns, NotAdding
  <2>2. QED
    BY <1>7, <2>1
    DEF EnterDispatch, LeaveDispatch, SkipSlot, TaskReturns, table, ghost
<1>8. CASE RunTask \/ Release
  <2>1. adding.step = "none" /\ pc' # "boot"
    BY <1>8 DEF RunTask, Looking, Release
  <2>2. QED
    BY <1>8, <2>1 DEF RunTask, Release, ghost
<1>9. CASE ResetDelay
  <2>1. adding.step = "none" /\ pc' # "boot" /\ i \in Slots
    BY <1>9 DEF ResetDelay, DispatchInTable
  <2>2. delay' = [delay EXCEPT ![i] = period[i]]
    BY <1>9 DEF ResetDelay, Write, Disciplined
  <2>3. QED
    BY <1>9, <2>1, <2>2 DEF ResetDelay
<1>10. CASE HalfAccess
  BY <1>10 DEF HalfAccess, ReadHalf, WriteHalf, FirstAccess, Disciplined
<1>11. CASE task_scheduler_clock
  <2>1. adding.step = "none"
    BY <1>11 DEF task_scheduler_clock
  <2>2. \A s \in Slots : ticks_due'[s] <= delay'[s]
    BY <1>11, <2>1 DEF task_scheduler_clock, Down
  <2>3. QED
    BY <1>11, <2>1, <2>2 DEF task_scheduler_clock
<1>12. CASE UNCHANGED vars
  BY <1>12 DEF vars, table, ghost
<1>13. QED
  BY <1>1, <1>2, <1>3, <1>4, <1>5, <1>6, <1>7, <1>8, <1>9, <1>10, <1>11, <1>12
  DEF Next, Api, OnTask, Dispatcher, Access

(* On a core with 32-bit accesses and with every task added at boot, no    *)
(* task ever runs before the ticks its caller asked for have passed: not   *)
(* the first time, and not the times after ResetDelay.                     *)
THEOREM PunctualAtomic ==
  ASSUME Disciplined
  PROVE  Spec => Punctual
<1>1. TypeInv /\ PunctualInv /\ [Next]_vars => [pc = "scan" /\ pc' = "body" => ticks_due[i] = 0]_vars
  <2> SUFFICES ASSUME TypeInv, PunctualInv, [Next]_vars, pc = "scan", pc' = "body"
               PROVE  ticks_due[i] = 0
    OBVIOUS
  <2>1. RunTask
    BY DEF Next, Api, OnTask, Dispatcher, Access, task_add, task_delete, task_stop, task_resume, SetStatus,
           task_scheduler_start, task_scheduler_stop, task_scheduler_init, Can, Sites,
           EnterDispatch, LeaveDispatch, SkipSlot, TaskReturns, ResetDelay, Release,
           AddDelay, AddPeriod, HalfAccess, ReadHalf, WriteHalf, task_scheduler_clock, vars
  <2>2. adding.step = "none"
    BY DEF PunctualInv
  <2>3. i \in Slots /\ delay[i] = 0
    BY <2>1 DEF RunTask, Looking, Ready, ReadOf, Disciplined
  <2>4. ticks_due[i] <= delay[i]
    BY <2>2, <2>3 DEF PunctualInv, Filling
  <2>5. QED
    BY <2>3, <2>4 DEF TypeInv, TypeOK
<1>2. QED
  BY <1>1, InitTypeInv, NextTypeInv, InitPunctual, NextPunctual, PTL DEF Spec, Punctual

-----------------------------------------------------------------------------
(* A deleted slot keeps its id, so whoever remembers that id can revive it *)
(* with task_resume(), and a task that deletes itself is revived when it   *)
(* returns.  Nobody else can bring task_dispatch() to a null pointer.      *)
KeepsDeleted ==
  \/ \A site \in Sites : "delete" \notin Ops[site]
  \/ /\ "delete" \notin Ops["body"]
     /\ \A site \in Sites : "resume" \notin Ops[site]

(* A slot without a task is never run again before task_add() takes it;    *)
(* where nobody deletes, only slots never used are without one.            *)
CallableInv ==
  /\ pc # "fault"
  /\ pc \in {"body", "reset", "release"} => task[i] # NULL_TASK
  /\ \A s \in Slots : task[s] = NULL_TASK => task_status[s] \in {"EMPTY", "STOPPED"}
  /\ (\A site \in Sites : "delete" \notin Ops[site]) =>
       \A s \in Slots : task[s] = NULL_TASK => id[s] = 0

LEMMA InitCallable == Init => CallableInv
BY DEF Init, CallableInv

(* What stopping, resuming and deleting an id may do to a slot: only       *)
(* task_resume() makes one runnable, and only task_delete() takes its task.*)
LEMMA OnlyThatId ==
  ASSUME TypeOK, NEW n \in TaskIds, NEW s \in Slots
  PROVE  /\ task_delete(n) => \/ task'[s] = NULL_TASK /\ task_status'[s] = "EMPTY"
                              \/ task'[s] = task[s] /\ task_status'[s] = task_status[s]
         /\ task_stop(n) => task_status'[s] \in {"STOPPED", task_status[s]}
         /\ task_resume(n) => \/ task_status'[s] = task_status[s]
                              \/ task_status'[s] = "RUNNABLE" /\ id[s] # 0
<1> USE DEF TypeOK
<1>1. n # 0
  BY SchedulerAssumption DEF TaskIds, TASK_ERROR
<1>2. s \in find_task(n) => id[s] # 0
  BY <1>1 DEF find_task
<1>3. task_delete(n) => \/ task'[s] = NULL_TASK /\ task_status'[s] = "EMPTY"
                        \/ task'[s] = task[s] /\ task_status'[s] = task_status[s]
  BY DEF task_delete, SetStatus
<1>4. task_stop(n) => task_status'[s] \in {"STOPPED", task_status[s]}
  BY DEF task_stop, SetStatus
<1>5. task_resume(n) => \/ task_status'[s] = task_status[s]
                        \/ task_status'[s] = "RUNNABLE" /\ id[s] # 0
  BY <1>2 DEF task_resume, SetStatus
<1> QED
  BY <1>3, <1>4, <1>5

LEMMA NextCallable ==
  ASSUME KeepsDeleted
  PROVE  TypeInv /\ CallableInv /\ [Next]_vars => CallableInv'
<1> SUFFICES ASSUME TypeInv, CallableInv, [Next]_vars
             PROVE  CallableInv'
  OBVIOUS
<1> USE DEF TypeInv, TypeOK, DispatchInTable, CallableInv
<1>1. ASSUME NEW t \in Tasks, NEW p \in Periods, task_add(t, p)
      PROVE  CallableInv'
  <2>1. PICK s \in Slots :
          /\ task_status' = [task_status EXCEPT ![s] = "RUNNABLE"]
          /\ id' = [id EXCEPT ![s] = s + 1]
          /\ task' = [task EXCEPT ![s] = t]
    BY <1>1 DEF task_add
  <2>2. t # NULL_TASK /\ UNCHANGED <<pc, i>>
    BY <1>1, SchedulerAssumption DEF task_add
  <2> QED
    BY <2>1, <2>2
<1>2. ASSUME NEW n \in TaskIds, task_delete(n)
      PROVE  CallableInv'
  <2>1. UNCHANGED <<id, pc, i>> /\ pc \in Sites /\ "delete" \in Ops[pc]
    BY <1>2 DEF task_delete, Can
  <2>2. pc \notin {"body", "reset", "release"}
    BY <2>1 DEF KeepsDeleted, Sites
  <2>3. \A s \in Slots : \/ task'[s] = NULL_TASK /\ task_status'[s] = "EMPTY"
                         \/ task'[s] = task[s] /\ task_status'[s] = task_status[s]
    BY <1>2, OnlyThatId
  <2> QED
    BY <2>1, <2>2, <2>3
<1>3. ASSUME NEW n \in TaskIds, task_stop(n)
      PROVE  CallableInv'
  <2>1. UNCHANGED <<id, task, pc, i>>
    BY <1>3 DEF task_stop
  <2>2. \A s \in Slots : task_status'[s] \in {"STOPPED", task_status[s]}
    BY <1>3, OnlyThatId
  <2> QED
    BY <2>1, <2>2
<1>4. ASSUME NEW n \in TaskIds, task_resume(n)
      PROVE  CallableInv'
  <2>1. UNCHANGED <<id, task, pc, i>> /\ pc \in Sites /\ "resume" \in Ops[pc]
    BY <1>4 DEF task_resume, Can
  <2>2. \A site \in Sites : "delete" \notin Ops[site]
    BY <2>1 DEF KeepsDeleted
  <2>3. \A s \in Slots : task[s] # NULL_TASK \/ task_status'[s] = task_status[s]
    BY <1>4, <2>2, OnlyThatId
  <2> QED
    BY <2>1, <2>3
<1>5. CASE RunTask
  <2>1. i \in Slots /\ task_status[i] = "RUNNABLE"
    BY <1>5 DEF RunTask, Looking, Ready
  <2>2. task[i] # NULL_TASK
    BY <2>1
  <2> QED
    BY <1>5, <2>1, <2>2 DEF RunTask
<1>6. CASE Release
  BY <1>6 DEF Release
<1>7. CASE task_scheduler_start \/ task_scheduler_stop \/ task_scheduler_init
  BY <1>7 DEF task_scheduler_start, task_scheduler_stop, task_scheduler_init, table
<1>8. CASE EnterDispatch \/ LeaveDispatch \/ SkipSlot \/ TaskReturns
  BY <1>8 DEF EnterDispatch, LeaveDispatch, SkipSlot, Looking, TaskReturns, table
<1>9. CASE AddDelay \/ AddPeriod \/ ResetDelay
  BY <1>9 DEF AddDelay, AddPeriod, ResetDelay
<1>10. CASE HalfAccess
  BY <1>10 DEF HalfAccess, ReadHalf, WriteHalf, table
<1>11. CASE task_scheduler_clock
  BY <1>11 DEF task_scheduler_clock
<1>12. CASE UNCHANGED vars
  BY <1>12 DEF vars, table
<1> QED
  BY <1>1, <1>2, <1>3, <1>4, <1>5, <1>6, <1>7, <1>8, <1>9, <1>10, <1>11, <1>12
  DEF Next, Api, OnTask, Dispatcher, Access

(* task_dispatch() never calls through a null pointer, on either kind of   *)
(* core and with tasks added and deleted while the scheduler runs, unless  *)
(* a running task deletes or a deleted id is resumed.                      *)
THEOREM NeverNullCall ==
  ASSUME KeepsDeleted
  PROVE  Spec => []NoNullCall
<1>1. CallableInv => NoNullCall
  BY DEF CallableInv, NoNullCall
<1> QED
  BY <1>1, InitTypeInv, NextTypeInv, InitCallable, NextCallable, PTL DEF Spec

-----------------------------------------------------------------------------
(* A task that stops itself is RUNNABLE again when it returns; short of    *)
(* that only task_resume() revives a stopped one.                          *)
LEMMA NotStoppedRunning ==
  ASSUME "stop" \notin Ops["body"]
  PROVE  Spec => [](pc \in {"body", "reset", "release"} => task_status[i] # "STOPPED")
<1> DEFINE Inv == pc \in {"body", "reset", "release"} => task_status[i] # "STOPPED"
<1>1. Init => Inv
  BY DEF Init
<1>2. TypeInv /\ Inv /\ [Next]_vars => Inv'
  <2> SUFFICES ASSUME TypeInv, Inv, [Next]_vars
               PROVE  Inv'
    OBVIOUS
  <2> USE DEF TypeInv, TypeOK, DispatchInTable
  <2>1. ASSUME NEW t \in Tasks, NEW p \in Periods, task_add(t, p)
        PROVE  Inv'
    BY <2>1 DEF task_add
  <2>2. ASSUME NEW n \in TaskIds, task_delete(n)
        PROVE  Inv'
    BY <2>2 DEF task_delete, SetStatus
  <2>3. ASSUME NEW n \in TaskIds, task_stop(n)
        PROVE  Inv'
    BY <2>3 DEF task_stop, Can, Sites
  <2>4. ASSUME NEW n \in TaskIds, task_resume(n)
        PROVE  Inv'
    BY <2>4 DEF task_resume, SetStatus
  <2>5. CASE RunTask
    BY <2>5 DEF RunTask, Looking
  <2>6. CASE task_scheduler_start \/ task_scheduler_stop \/ task_scheduler_init
    BY <2>6 DEF task_scheduler_start, task_scheduler_stop, task_scheduler_init, table
  <2>7. CASE EnterDispatch \/ LeaveDispatch \/ SkipSlot \/ TaskReturns \/ Release
    BY <2>7 DEF EnterDispatch, LeaveDispatch, SkipSlot, Looking, TaskReturns, Release, table
  <2>8. CASE AddDelay \/ AddPeriod \/ ResetDelay
    BY <2>8 DEF AddDelay, AddPeriod, ResetDelay
  <2>9. CASE HalfAccess
    BY <2>9 DEF HalfAccess, ReadHalf, WriteHalf, table
  <2>10. CASE task_scheduler_clock
    BY <2>10 DEF task_scheduler_clock
  <2>11. CASE UNCHANGED vars
    BY <2>11 DEF vars, table
  <2> QED
    BY <2>1, <2>2, <2>3, <2>4, <2>5, <2>6, <2>7, <2>8, <2>9, <2>10, <2>11
    DEF Next, Api, OnTask, Dispatcher, Access
<1> QED
  BY <1>1, <1>2, TypeInvAlways, PTL DEF Spec

(* A stopped task stays stopped until task_resume() is called, however     *)
(* tasks are added, deleted and dispatched meanwhile, where running tasks  *)
(* do not call task_stop().                                                *)
THEOREM OnlyResume ==
  ASSUME "stop" \notin Ops["body"]
  PROVE  Spec => OnlyResumeRevives
<1> DEFINE Revival == \A s \in Slots : task_status[s] = "STOPPED" /\ task_status'[s] = "RUNNABLE"
                        => \E n \in TaskIds : task_resume(n)
           Inv == pc \in {"body", "reset", "release"} => task_status[i] # "STOPPED"
<1>1. TypeInv /\ Inv /\ [Next]_vars => [Revival]_vars
  <2> SUFFICES ASSUME TypeInv, Inv, Next, NEW s \in Slots,
                      task_status[s] = "STOPPED", task_status'[s] = "RUNNABLE"
               PROVE  \E n \in TaskIds : task_resume(n)
    BY DEF vars
  <2> USE DEF TypeInv, TypeOK, DispatchInTable
  <2>1. ASSUME NEW t \in Tasks, NEW p \in Periods, task_add(t, p)
        PROVE  FALSE
    BY <2>1 DEF task_add
  <2>2. ASSUME NEW n \in TaskIds, task_delete(n) \/ task_stop(n)
        PROVE  FALSE
    BY <2>2 DEF task_delete, task_stop, SetStatus
  <2>3. ~RunTask /\ ~Release
    BY DEF RunTask, Looking, Ready, Release
  <2>4. task_status' # task_status
    OBVIOUS
  <2>5. ~(EnterDispatch \/ LeaveDispatch \/ SkipSlot \/ TaskReturns \/ HalfAccess)
    BY <2>4 DEF EnterDispatch, LeaveDispatch, SkipSlot, TaskReturns, HalfAccess, ReadHalf,
                WriteHalf, table
  <2>6. ~(AddDelay \/ AddPeriod \/ ResetDelay \/ task_scheduler_clock)
    BY <2>4 DEF AddDelay, AddPeriod, ResetDelay, task_scheduler_clock
  <2>7. ~(task_scheduler_start \/ task_scheduler_stop \/ task_scheduler_init)
    BY <2>4 DEF task_scheduler_start, task_scheduler_stop, task_scheduler_init, table
  <2> QED
    BY <2>1, <2>2, <2>3, <2>5, <2>6, <2>7 DEF Next, Api, OnTask, Dispatcher, Access
<1> QED
  BY <1>1, TypeInvAlways, NotStoppedRunning, PTL DEF OnlyResumeRevives, Spec

=============================================================================

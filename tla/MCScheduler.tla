----------------------------- MODULE MCScheduler -----------------------------
(***************************************************************************)
(* Instances of Scheduler for TLC: who calls which part of the API.        *)
(***************************************************************************)
EXTENDS Scheduler

Calls(boot, loop, body) ==
  [site \in Sites |->
     CASE site = "boot" -> boot [] site = "loop" -> loop [] site = "body" -> body]

(* main.c: system_init() adds the tasks, main() starts the scheduler.      *)
FirmwareOps == Calls({"add"}, {}, {})

(* The main loop stops and resumes tasks and the scheduler; a running task *)
(* may pause the scheduler or resume any task, itself included.            *)
ControlOps == Calls({"add"}, {"stop", "resume", "pause", "start", "init"}, {"pause", "resume"})

=============================================================================

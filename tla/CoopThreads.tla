---------------------------- MODULE CoopThreads ----------------------------
(***************************************************************************)
(* What the scheduler promises to kernel threads, without saying how: at   *)
(* most one thread runs at a time, it runs until it gives the processor up *)
(* itself, an exited thread is gone, and a thread that is ready gets its   *)
(* turn.  Scheduler.tla implements this with interrupts in between the     *)
(* steps.                                                                  *)
(***************************************************************************)
CONSTANT Threads
VARIABLE tstate

Init == tstate = [t \in Threads |-> "unborn"]

Move(t, from, to) ==
    /\ tstate[t] = from
    /\ tstate' = [tstate EXCEPT ![t] = to]

Create(t) == Move(t, "unborn", "ready")
Run(t) ==
    /\ \A u \in Threads : tstate[u] # "running"
    /\ Move(t, "ready", "running")
Yield(t)  == Move(t, "running", "ready")
Finish(t) == Move(t, "running", "exited")
\* The thread's stack was found overrun while no thread runs.
Kill(t) ==
    /\ \A u \in Threads : tstate[u] # "running"
    /\ Move(t, "ready", "exited")

Next ==
    \E t \in Threads : Create(t) \/ Run(t) \/ Yield(t) \/ Finish(t) \/ Kill(t)

Spec == Init /\ [][Next]_tstate

\* Strong fairness of Run: a ready thread's turn comes although Run is disabled
\* again and again while the others run.
FairSpec ==
    /\ Spec
    /\ \A t \in Threads :
          /\ SF_tstate(Run(t) \/ Kill(t))
          /\ WF_tstate(Yield(t) \/ Finish(t))
=============================================================================

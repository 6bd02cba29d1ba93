---------------------------- MODULE KernelProofs ----------------------------
(***************************************************************************)
(* Proofs about the scheduler (Scheduler) and the driver of the virtual    *)
(* disk (VirtioBlk), each for every value of its constants.                *)
(*                                                                         *)
(* Scheduler: for any number of threads, any timeslice and any counter     *)
(* width the type invariant, the safety invariants, and that the scheduler *)
(* implements CoopThreads.                                                 *)
(*                                                                         *)
(* VirtioBlk: what reads deliver, for every disk, every number of sectors, *)
(* every width of the ring indices and every time limit, with a device     *)
(* that answers in time.                                                   *)
(***************************************************************************)
EXTENDS Scheduler, VirtioBlk, Arithmetic, TLAPS

-----------------------------------------------------------------------------
(* The scheduler's inductive invariant.  The properties speak of the       *)
(* points at which a thread's or the main loop's own code runs; to carry   *)
(* them through the steps in between one has to say, for each place the    *)
(* executing context can be in, what the scheduler's words hold there.     *)

NoneRunning    == \A u \in Threads : state[u] # "running"
OnlyRunning(t) == \A u \in Threads : state[u] = "running" <=> u = t

\* Tasks exist in task_id order; the idle task is always READY.
Births ==
    /\ \A t \in Tasks : state[t] = "unborn" <=> t >= total_tasks
    /\ \A t \in Threads : tpc[t] = "unborn" <=> state[t] = "unborn"
    /\ state[Idle] = "ready"
    /\ last < total_tasks
    /\ next_task < total_tasks

\* A context that does not execute is one that can be switched to, or is over.
Resting ==
    \A t \in Threads : cpu # t =>
        /\ tpc[t] \in {"unborn", "entry", "parked", "halted"}
        /\ tpc[t] = "halted" => state[t] = "exited"

\* What the words hold while the kernel context executes.
KernelRuns ==
    cpu = Idle =>
        /\ kpc \in {"boot", "loop", "picked", "hlt", "away", "rearm"} =>
              ~in_thread_context /\ current = Idle /\ NoneRunning
        /\ kpc \in {"selected", "switch"} =>
              current = next_task /\ current # Idle /\ OnlyRunning(current)
        /\ kpc = "selected" => ~in_thread_context
        /\ kpc = "switch" => in_thread_context
        /\ kpc = "picked" => state[next_task] = "ready"
        /\ kpc = "picked" /\ next_task = Idle =>
              \A t \in Threads : state[t] # "ready"

\* What they hold while a thread's context executes.
ThreadRuns ==
    cpu # Idle =>
        /\ kpc = "away"
        /\ tpc[cpu] \notin {"unborn", "halted"}
        /\ tpc[cpu] \in {"entry", "parked", "body"} =>
              current = cpu /\ in_thread_context /\ OnlyRunning(cpu)
        /\ tpc[cpu] \in {"leave", "exitleave"} =>
              current = cpu /\ in_thread_context /\ NoneRunning
        /\ tpc[cpu] \in {"switch", "exitswitch"} =>
              current = Idle /\ ~in_thread_context /\ NoneRunning
        /\ tpc[cpu] \in {"leave", "switch"} => state[cpu] = "ready"
        /\ tpc[cpu] \in {"exitleave", "exitswitch"} => state[cpu] = "exited"

IInv ==
    /\ TypeOK
    /\ Births
    /\ Resting
    /\ KernelRuns
    /\ ThreadRuns
    /\ NoForgottenTask

-----------------------------------------------------------------------------
(* scheduler_pick_next_task. *)

\* The walk of scheduler_pick_next_task stays in the list and reaches every
\* listed task, wherever it starts.
LEMMA RingCovers ==
    ASSUME TypeOK, Births
    PROVE  /\ \A k \in 1 .. total_tasks : RingAfter(k) \in Listed
           /\ \A t \in Listed : \E k \in 1 .. total_tasks : RingAfter(k) = t
<1> USE SchedulerAssumption
<1>1. total_tasks \in Nat \ {0} /\ last \in 0 .. (total_tasks - 1)
  BY DEF TypeOK, Births, Tasks
<1>2. \A k \in 1 .. total_tasks : RingAfter(k) \in Listed
  <2> TAKE k \in 1 .. total_tasks
  <2>1. last + k \in Int
    BY <1>1
  <2> QED BY <1>1, <2>1, ModRange, Zenon DEF RingAfter, Listed
<1>3. ASSUME NEW t \in Listed
      PROVE  \E k \in 1 .. total_tasks : RingAfter(k) = t
  <2>1. t \in 0 .. (total_tasks - 1)
    BY Zenon DEF Listed
  <2>2. t % total_tasks = t /\ (t + total_tasks) % total_tasks = t
    BY <1>1, <2>1, ModSmall, Zenon
  <2>3. CASE t > last
    <3>1. t - last \in 1 .. total_tasks /\ last + (t - last) = t
      BY <1>1, <2>1, <2>3
    <3> QED BY <3>1, <2>2, Zenon DEF RingAfter
  <2>4. CASE ~(t > last)
    <3> DEFINE k == (t - last) + total_tasks
    <3>1. k \in 1 .. total_tasks /\ last + k = t + total_tasks
      BY <1>1, <2>1, <2>4
    <3> HIDE DEF k
    <3> QED BY <3>1, <2>2, Zenon DEF RingAfter
  <2> QED BY <2>3, <2>4, Zenon
<1> QED BY <1>2, <1>3, Zenon

\* scheduler_has_ready_non_idle_task sees every READY thread.
LEMMA ReadyIsSeen ==
    ASSUME TypeOK, Births, NEW t \in Threads, state[t] = "ready"
    PROVE  HasReadyNonIdle
<1> USE SchedulerAssumption
<1>1. t \in Tasks /\ t # Idle
  BY DEF Threads, Tasks, Idle
<1>2. t < total_tasks
  BY <1>1 DEF Births, TypeOK, Tasks
<1>3. t \in Listed
  BY <1>2 DEF Listed, Threads, TypeOK
<1> QED BY <1>1, <1>3, Zenon DEF HasReadyNonIdle

\* scheduler_pick_next_task returns a listed READY task, and returns the idle
\* task only if no thread is READY.
LEMMA PickNextIsReady ==
    ASSUME TypeOK, Births
    PROVE  /\ PickNext \in Listed
           /\ state[PickNext] = "ready"
           /\ PickNext = Idle => \A t \in Threads : state[t] # "ready"
<1> USE SchedulerAssumption
<1> DEFINE found == {k \in 1 .. total_tasks : Pickable(RingAfter(k))}
<1>1. total_tasks \in Nat \ {0} /\ Idle \in Listed
  BY DEF TypeOK, Idle, Listed
<1>2. found # {}
  <2>1. \E t \in Listed : Pickable(t)
    <3>1. CASE HasReadyNonIdle
      BY <3>1, Zenon DEF HasReadyNonIdle, Pickable
    <3>2. CASE ~HasReadyNonIdle
      BY <3>2, <1>1, Zenon DEF Births, Pickable
    <3> QED BY <3>1, <3>2, Zenon
  <2>2. PICK t \in Listed : Pickable(t)
    BY <2>1, Zenon
  <2>3. PICK k \in 1 .. total_tasks : RingAfter(k) = t
    BY RingCovers, Zenon
  <2> QED BY <2>2, <2>3, Zenon
<1>3. found \subseteq Nat
  BY <1>1
<1>4. \E k \in found : \A j \in found : k <= j
  BY <1>2, <1>3, LeastNat, Zenon
<1> DEFINE first == CHOOSE k \in found : \A j \in found : k <= j
<1>5. first \in found
  BY <1>4, Zenon
<1>6. PickNext = RingAfter(first)
  BY <1>2, Zenon DEF PickNext
<1> HIDE DEF first
<1>7. Pickable(PickNext) /\ PickNext \in Listed
  BY <1>5, <1>6, RingCovers, Zenon
<1> QED BY <1>7, ReadyIsSeen, Zenon DEF Pickable

-----------------------------------------------------------------------------
\* scheduler_init establishes the inductive invariant.
LEMMA InitInv == Init => IInv
<1> SUFFICES ASSUME Init PROVE IInv
  BY Zenon
<1> USE SchedulerAssumption DEF Init
<1>1. TypeOK
  <2>1. /\ slice_ticks \in [Tasks -> Slices]
        /\ guard \in [Tasks -> BOOLEAN]
        /\ dispatch_count \in [Tasks -> Counters]
        /\ yield_count \in [Tasks -> Counters]
        /\ exit_count \in [Tasks -> Counters]
    BY DEF Slices, Counters
  <2>2. /\ state \in [Tasks -> States]
        /\ tpc \in [Tasks -> ThreadPCs]
    BY Zenon DEF States, ThreadPCs, Tasks, Idle
  <2>3. /\ total_tasks \in 1 .. (MaxThreads + 1)
        /\ current \in Tasks
        /\ last \in Tasks
        /\ total_dispatches \in Counters
        /\ total_yields \in Counters
        /\ next_task \in Tasks
        /\ cpu \in Tasks
    BY DEF Tasks, Idle, Counters
  <2>4. /\ reschedule_pending \in BOOLEAN
        /\ in_thread_context \in BOOLEAN
        /\ kpc \in KernelPCs
    BY Zenon DEF KernelPCs
  <2> QED BY <2>1, <2>2, <2>3, <2>4, Zenon DEF TypeOK
<1>2. \A t \in Tasks : state[t] = IF t = 0 THEN "ready" ELSE "unborn"
  BY Zenon DEF Idle
<1>3. Births
  <2>1. \A t \in Tasks : state[t] = "unborn" <=> t >= total_tasks
    BY <1>2 DEF Tasks
  <2>2. \A t \in Threads : tpc[t] = "unborn" <=> state[t] = "unborn"
    BY <1>2 DEF Tasks, Threads
  <2>3. state[Idle] = "ready" /\ last < total_tasks /\ next_task < total_tasks
    BY <1>2 DEF Tasks, Idle
  <2> QED BY <2>1, <2>2, <2>3, Zenon DEF Births
<1>4. Resting
  BY DEF Resting, Tasks, Threads, Idle
<1>5. NoneRunning
  BY <1>2 DEF NoneRunning, Tasks, Threads
<1>6. KernelRuns
  BY <1>5, Zenon DEF KernelRuns
<1>7. ThreadRuns
  BY Zenon DEF ThreadRuns
<1>8. NoForgottenTask
  BY Zenon DEF NoForgottenTask
<1> QED BY <1>1, <1>3, <1>4, <1>6, <1>7, <1>8, Zenon DEF IInv

-----------------------------------------------------------------------------
\* Every step keeps the type invariant, given the facts about picked tasks.
LEMMA TypeStep == IInv /\ [Next]_vars => TypeOK'
<1> SUFFICES ASSUME IInv, [Next]_vars PROVE TypeOK'
  BY Zenon
<1> USE DEF TypeOK, IInv
<1>0. /\ Idle \in Tasks
      /\ Threads \subseteq Tasks
      /\ 0 \in Slices
      /\ \A n \in Counters : Inc(n) \in Counters
  <2>1. ASSUME NEW n \in Counters PROVE Inc(n) \in Counters
    BY SchedulerAssumption, ModRange DEF Inc, Counters
  <2> QED BY <2>1, SchedulerAssumption DEF Tasks, Threads, Idle, Slices
<1>1. CASE HandleTick
  <2>1. slice_ticks' \in [Tasks -> Slices]
    <3>1. CASE slice_ticks[current] + 1 >= Timeslice
      BY <1>0, <1>1, <3>1, Zenon DEF HandleTick
    <3>2. CASE ~(slice_ticks[current] + 1 >= Timeslice)
      <4>1. slice_ticks[current] + 1 \in Slices
        BY SchedulerAssumption, <3>2 DEF Slices
      <4> QED BY <1>1, <3>2, <4>1, Zenon DEF HandleTick
    <3> QED BY <3>1, <3>2, Zenon
  <2>2. reschedule_pending' \in BOOLEAN
    BY <1>1, Zenon DEF HandleTick
  <2>3. kpc' \in KernelPCs
    BY <1>1, Zenon DEF HandleTick, WakeKernel, KernelPCs
  <2> QED BY <1>1, <2>1, <2>2, <2>3, Zenon DEF HandleTick, counts
<1>2. CASE OtherIrq
  BY <1>2, Zenon DEF OtherIrq, WakeKernel, KernelPCs, counts
<1>3. CASE CreateKernelThread
  <2>1. total_tasks' \in 1 .. (MaxThreads + 1)
    BY <1>3, SchedulerAssumption DEF CreateKernelThread, Threads
  <2> QED BY <1>0, <1>3, <2>1, Zenon DEF CreateKernelThread, States, ThreadPCs, counts
<1>4. CASE Kernel
  <2>1. CASE StartLoop
    BY <1>0, <2>1, Zenon DEF StartLoop, KernelPCs, counts
  <2>2. CASE DispatchSkip
    BY <1>0, <2>2, Zenon DEF DispatchSkip, KernelPCs, counts
  <2>3. CASE DispatchPick
    <3>1. PickNext \in Tasks
      BY SchedulerAssumption, PickNextIsReady DEF Listed, Tasks
    <3> QED BY <2>3, <3>1, Zenon DEF DispatchPick, KernelPCs, counts
  <2>4. CASE DispatchIdle
    BY <1>0, <2>4, Zenon DEF DispatchIdle, KernelPCs, counts
  <2>5. CASE DispatchCorrupt
    BY <1>0, <2>5, Zenon DEF DispatchCorrupt, KernelPCs, States, counts
  <2>6. CASE DispatchSelect
    <3>1. state' \in [Tasks -> States]
      BY <1>0, <2>6, Zenon DEF DispatchSelect, States
    <3>2. dispatch_count' \in [Tasks -> Counters]
      BY <1>0, <2>6, Zenon DEF DispatchSelect
    <3>3. total_dispatches' \in Counters
      BY <1>0, <2>6, Zenon DEF DispatchSelect
    <3>4. slice_ticks' \in [Tasks -> Slices]
      BY <1>0, <2>6, Zenon DEF DispatchSelect
    <3> QED BY <2>6, <3>1, <3>2, <3>3, <3>4, Zenon DEF DispatchSelect, KernelPCs
  <2>7. CASE DispatchClear
    BY <1>0, <2>7, Zenon DEF DispatchClear, KernelPCs, counts
  <2>8. CASE DispatchSwitch
    BY <1>0, <2>8, Zenon DEF DispatchSwitch, KernelPCs, counts
  <2>9. CASE DispatchReturn
    BY <1>0, <2>9, Zenon DEF DispatchReturn, KernelPCs, counts
  <2>10. CASE DispatchRearm
    BY <1>0, <2>10, Zenon DEF DispatchRearm, KernelPCs, counts
  <2> QED BY Zenon, <1>4, <2>1, <2>2, <2>3, <2>4, <2>5, <2>6, <2>7, <2>8, <2>9,
             <2>10 DEF Kernel
<1>7. ASSUME NEW t \in Threads, ExitCurrentTask(t)
      PROVE  /\ state' \in [Tasks -> States]
             /\ tpc' \in [Tasks -> ThreadPCs]
             /\ slice_ticks' \in [Tasks -> Slices]
             /\ exit_count' \in [Tasks -> Counters]
             /\ reschedule_pending' \in BOOLEAN
  <2>1. CASE current = Idle
    BY <1>0, <1>7, <2>1, Zenon DEF ExitCurrentTask, ThreadPCs
  <2>2. CASE current # Idle
    <3>1. state' \in [Tasks -> States]
      BY <1>0, <1>7, <2>2, Zenon DEF ExitCurrentTask, States
    <3>2. tpc' \in [Tasks -> ThreadPCs]
      BY <1>0, <1>7, <2>2, Zenon DEF ExitCurrentTask, ThreadPCs
    <3>3. slice_ticks' \in [Tasks -> Slices]
      BY <1>0, <1>7, <2>2, Zenon DEF ExitCurrentTask
    <3>4. exit_count' \in [Tasks -> Counters]
      BY <1>0, <1>7, <2>2 DEF ExitCurrentTask
    <3> QED BY <1>7, <2>2, <3>1, <3>2, <3>3, <3>4, Zenon DEF ExitCurrentTask
  <2> QED BY <2>1, <2>2, Zenon
<1>5. ASSUME NEW t \in Threads, ThreadSteps(t) \/ OverrunStack(t)
      PROVE  TypeOK'
  <2>1. CASE Bootstrap(t)
    BY <1>0, <2>1, Zenon DEF Bootstrap, ThreadPCs, counts
  <2>2. CASE EntryReturns(t)
    BY <2>2, <1>7, Zenon DEF EntryReturns
  <2>3. CASE YieldCorrupt(t)
    BY <2>3, <1>7, Zenon DEF YieldCorrupt
  <2>4. CASE Yield(t)
    <3>1. state' \in [Tasks -> States]
      BY <1>0, <2>4, Zenon DEF Yield, States
    <3>2. tpc' \in [Tasks -> ThreadPCs]
      BY <1>0, <2>4, Zenon DEF Yield, ThreadPCs
    <3>3. yield_count' \in [Tasks -> Counters]
      BY <1>0, <2>4, Zenon DEF Yield
    <3>4. total_yields' \in Counters
      BY <1>0, <2>4, Zenon DEF Yield
    <3>5. slice_ticks' \in [Tasks -> Slices]
      BY <1>0, <2>4, Zenon DEF Yield
    <3> QED BY <2>4, <3>1, <3>2, <3>3, <3>4, <3>5, Zenon DEF Yield
  <2>5. CASE LeaveThread(t)
    <3>1. tpc' \in [Tasks -> ThreadPCs]
      BY <1>0, <2>5, Zenon DEF LeaveThread, ThreadPCs
    <3> QED BY <1>0, <2>5, <3>1, Zenon DEF LeaveThread, counts
  <2>6. CASE SwitchToKernel(t)
    <3>1. tpc' \in [Tasks -> ThreadPCs]
      BY <1>0, <2>6, Zenon DEF SwitchToKernel, ThreadPCs
    <3> QED BY <1>0, <2>6, <3>1, Zenon DEF SwitchToKernel, counts
  <2>7. CASE ResumeFromYield(t)
    BY <1>0, <2>7, Zenon DEF ResumeFromYield, ThreadPCs, States, counts
  <2>8. CASE OverrunStack(t)
    BY <1>0, <2>8, Zenon DEF OverrunStack, counts
  <2> QED BY Zenon, <1>5, <2>1, <2>2, <2>3, <2>4, <2>5, <2>6, <2>7, <2>8
          DEF ThreadSteps
<1>6. CASE UNCHANGED vars
  BY <1>6, Zenon DEF vars, counts
<1> QED BY <1>1, <1>2, <1>3, <1>4, <1>5, <1>6, Zenon DEF Next

-----------------------------------------------------------------------------
\* Every step keeps what IInv says of the control state.
LEMMA ControlStep ==
    IInv /\ [Next]_vars =>
        Births' /\ Resting' /\ KernelRuns' /\ ThreadRuns' /\ NoForgottenTask'
<1> DEFINE Control == Births /\ Resting /\ KernelRuns /\ ThreadRuns
                        /\ NoForgottenTask
<1> SUFFICES ASSUME IInv, [Next]_vars PROVE Control'
  BY Zenon
<1> HIDE DEF Control
<1>a. /\ state \in [Tasks -> States] /\ tpc \in [Tasks -> ThreadPCs]
      /\ total_tasks \in 1 .. (MaxThreads + 1)
      /\ current \in Tasks /\ last \in Tasks /\ next_task \in Tasks /\ cpu \in Tasks
  BY Zenon DEF IInv, TypeOK
<1>b. Births /\ Resting /\ KernelRuns /\ ThreadRuns /\ NoForgottenTask
  BY Zenon DEF IInv
<1>c. TypeOK
  BY Zenon DEF IInv
<1>d. /\ PickNext < total_tasks /\ state[PickNext] = "ready"
      /\ PickNext = Idle => \A t \in Threads : state[t] # "ready"
  <2>1. PickNext \in Listed /\ state[PickNext] = "ready"
    BY <1>b, <1>c, PickNextIsReady, Zenon
  <2>2. PickNext = Idle => \A t \in Threads : state[t] # "ready"
    BY <1>b, <1>c, PickNextIsReady, Zenon
  <2>3. PickNext < total_tasks
    BY <1>a, <2>1 DEF Listed
  <2> QED BY <2>1, <2>2, <2>3, Zenon
<1>e. \A t \in Threads : state[t] = "ready" => HasReadyNonIdle
  BY <1>b, <1>c, ReadyIsSeen, Zenon
<1>0. /\ Idle \in Tasks
      /\ Threads \subseteq Tasks
      /\ Idle \notin Threads
      /\ \A t \in Tasks : t = Idle \/ t \in Threads
  BY SchedulerAssumption DEF Tasks, Threads, Idle
<1> USE <1>a, <1>b DEF Births, Resting, KernelRuns, ThreadRuns, NoForgottenTask,
                      NoneRunning, OnlyRunning
<1>1. CASE HandleTick
  BY <1>0, <1>1, Zenon DEF Control, HandleTick, WakeKernel
<1>2. CASE OtherIrq
  BY <1>0, <1>2, Zenon DEF Control, OtherIrq, WakeKernel
<1>3. CASE CreateKernelThread
  <2>1. \A t \in Tasks : t >= total_tasks' <=> t >= total_tasks /\ t # total_tasks
    BY <1>3 DEF CreateKernelThread, Tasks
  <2>2. last < total_tasks' /\ next_task < total_tasks'
    BY <1>3 DEF CreateKernelThread, Tasks
  <2> QED BY <1>0, <1>3, <2>1, <2>2 DEF Control, CreateKernelThread
<1>4. CASE Kernel
  <2>1. CASE StartLoop
    BY <1>0, <2>1, Zenon DEF Control, StartLoop
  <2>2. CASE DispatchSkip
    BY <1>0, <2>2, Zenon DEF Control, DispatchSkip
  <2>3. CASE DispatchPick
    BY <1>0, <1>d, <2>3, Zenon DEF Control, DispatchPick
  <2>4. CASE DispatchIdle
    BY <1>0, <2>4, Zenon DEF Control, DispatchIdle
  <2>5. CASE DispatchCorrupt
    BY <1>0, <2>5, Zenon DEF Control, DispatchCorrupt
  <2>6. CASE DispatchSelect
    BY <1>0, <2>6, Zenon DEF Control, DispatchSelect
  <2>7. CASE DispatchClear
    BY <1>0, <2>7, Zenon DEF Control, DispatchClear
  <2>8. CASE DispatchSwitch
    BY <1>0, <2>8, Zenon DEF Control, DispatchSwitch
  <2>9. CASE DispatchReturn
    BY <1>0, <2>9, Zenon DEF Control, DispatchReturn
  <2>10. CASE DispatchRearm
    BY <1>0, <1>e, <2>10, Zenon DEF Control, DispatchRearm
  <2> QED BY <1>4, <2>1, <2>2, <2>3, <2>4, <2>5, <2>6, <2>7, <2>8, <2>9, <2>10,
             Zenon DEF Kernel
<1>5. ASSUME NEW t \in Threads, ThreadSteps(t) \/ OverrunStack(t)
      PROVE  Control'
  <2>1. CASE Bootstrap(t)
    BY <1>0, <2>1, Zenon DEF Control, Bootstrap
  <2>2. CASE EntryReturns(t) \/ YieldCorrupt(t)
    <3>1. /\ cpu = t /\ cpu' = t /\ t # Idle
          /\ tpc[t] = "body"
          /\ current = t /\ current' = t
          /\ kpc' = kpc /\ kpc = "away"
          /\ in_thread_context /\ in_thread_context' = in_thread_context
          /\ UNCHANGED <<total_tasks, last, next_task>>
          /\ OnlyRunning(t)
      BY <1>0, <2>2 DEF EntryReturns, YieldCorrupt
    <3>2. /\ state' = [state EXCEPT ![t] = "exited"]
          /\ tpc' = [tpc EXCEPT ![t] = "exitleave"]
      BY <1>0, <2>2, <3>1, Zenon DEF EntryReturns, YieldCorrupt, ExitCurrentTask
    <3>3. /\ state'[t] = "exited" /\ tpc'[t] = "exitleave"
          /\ \A u \in Tasks : u # t => state'[u] = state[u] /\ tpc'[u] = tpc[u]
      BY <1>0, <3>2, Zenon
    <3>4. Births'
      <4>1. state[t] # "unborn" /\ ~(t >= total_tasks)
        BY <1>0, <3>1, Zenon
      <4> QED BY <1>0, <3>1, <3>3, <4>1
    <3>5. Resting'
      BY <1>0, <3>1, <3>3
    <3>6. KernelRuns' /\ NoForgottenTask'
      BY <3>1, Zenon
    <3>7. ThreadRuns'
      <4>1. NoneRunning'
        BY <1>0, <3>1, <3>3
      <4> QED BY <3>1, <3>3, <4>1, Zenon
    <3> QED BY <3>4, <3>5, <3>6, <3>7, Zenon DEF Control
  <2>3. CASE Yield(t)
    BY <1>0, <2>3 DEF Control, Yield
  <2>4. CASE LeaveThread(t)
    BY <1>0, <2>4, Zenon DEF Control, LeaveThread
  <2>5. CASE SwitchToKernel(t)
    BY <1>0, <2>5, Zenon DEF Control, SwitchToKernel
  <2>6. CASE ResumeFromYield(t)
    BY <1>0, <2>6, Zenon DEF Control, ResumeFromYield
  <2>7. CASE OverrunStack(t)
    BY <1>0, <2>7, Zenon DEF Control, OverrunStack
  <2> QED BY <1>5, <2>1, <2>2, <2>3, <2>4, <2>5, <2>6, <2>7, Zenon
          DEF ThreadSteps
<1>6. CASE UNCHANGED vars
  BY <1>6, Zenon DEF Control, vars, counts
<1> QED BY <1>1, <1>2, <1>3, <1>4, <1>5, <1>6, Zenon DEF Next

\* IInv is inductive.
LEMMA InvInductive == Spec => []IInv
<1>1. IInv /\ [Next]_vars => IInv'
  BY TypeStep, ControlStep, Zenon DEF IInv
<1> QED BY InitInv, <1>1, PTL DEF Spec

\* Every variable of the scheduler keeps its type; in particular slice_ticks
\* stays below the timeslice whatever ticks interrupt.
THEOREM TypeCorrect == Spec => []TypeOK
<1>1. IInv => TypeOK
  BY Zenon DEF IInv
<1> QED BY InvInductive, <1>1, PTL

\* Whoever executes thread code is scheduler_current_task_ptr, and is the only
\* RUNNING task, for any number of threads.
THEOREM ExecutingIsCurrent == Spec => []CurrentIsExecuting
<1>1. IInv => CurrentIsExecuting
  BY SchedulerAssumption
     DEF IInv, ThreadRuns, OnlyRunning, CurrentIsExecuting, Threads, Idle
<1> QED BY InvInductive, <1>1, PTL

\* No READY thread is left without a pending reschedule when the main loop
\* halts, whatever ticks come while scheduler_dispatch runs.
THEOREM ReadyNotForgotten == Spec => []NoForgottenTask
<1>1. IInv => NoForgottenTask
  BY Zenon DEF IInv
<1> QED BY InvInductive, <1>1, PTL

\* The endless `hlt' of scheduler_exit_current_task is never executed.
THEOREM ExitNeverStuck == Spec => []NeverStuckInExit
<1>1. IInv => NeverStuckInExit
  BY SchedulerAssumption
     DEF IInv, ThreadRuns, NeverStuckInExit, Threads, Idle
<1> QED BY InvInductive, <1>1, PTL

-----------------------------------------------------------------------------
(* The counters. *)

\* One more event, counted in a uint32_t that wraps.
LEMMA IncWraps ==
    ASSUME NEW a \in Nat, NEW b \in Nat
    PROVE  /\ Inc(a % Word) = (a + 1) % Word
           /\ (Inc(a) + b) % Word = (a + b + 1) % Word
<1>0. Word \in Nat \ {0} /\ a \in Int /\ a + 1 \in Int /\ b \in Int /\ 1 \in Int
  BY SchedulerAssumption
<1>1. ((a % Word) + 1) % Word = (a + 1) % Word
  BY <1>0, ModAdd, Zenon
<1>2. (((a + 1) % Word) + b) % Word = ((a + 1) + b) % Word
  BY <1>0, ModAdd, Zenon
<1>3. (a + 1) + b = a + b + 1
  OBVIOUS
<1> QED BY <1>1, <1>2, <1>3, Zenon DEF Inc

\* Every step keeps a thread's dispatches matched by its yields and exits.
LEMMA MatchedStep ==
    IInv /\ DispatchesMatched /\ [Next]_vars => DispatchesMatched'
<1> SUFFICES ASSUME IInv, DispatchesMatched, [Next]_vars, NEW u \in Threads
             PROVE  dispatch_count'[u] = (yield_count'[u] + exit_count'[u]
                       + IF state'[u] = "running" THEN 1 ELSE 0) % Word
  BY Zenon DEF DispatchesMatched
<1> DEFINE runs == IF state[u] = "running" THEN 1 ELSE 0
           Matched == dispatch_count[u] = (yield_count[u] + exit_count[u]
                       + IF state[u] = "running" THEN 1 ELSE 0) % Word
<1>0. /\ Idle \in Tasks /\ Idle \notin Threads /\ Threads \subseteq Tasks
      /\ u \in Tasks
  BY SchedulerAssumption DEF Tasks, Threads, Idle
<1>t. /\ state \in [Tasks -> States] /\ dispatch_count \in [Tasks -> Counters]
      /\ yield_count \in [Tasks -> Counters] /\ exit_count \in [Tasks -> Counters]
      /\ current \in Tasks
  BY Zenon DEF IInv, TypeOK
<1>a. dispatch_count[u] \in Nat /\ yield_count[u] \in Nat /\ exit_count[u] \in Nat
  BY <1>0, SchedulerAssumption DEF IInv, TypeOK, Counters
<1>c. \A n \in Nat : Inc(n) \in Nat
  BY SchedulerAssumption, ModRange DEF Inc
<1>b. Matched
  BY Zenon DEF DispatchesMatched
<1>d. ASSUME state[u] = "running"
      PROVE  dispatch_count[u] = (yield_count[u] + exit_count[u] + 1) % Word
  BY <1>b, <1>d, Zenon
<1>e. ASSUME state[u] # "running"
      PROVE  dispatch_count[u] = (yield_count[u] + exit_count[u]) % Word
  <2>1. dispatch_count[u] = (yield_count[u] + exit_count[u] + 0) % Word
    BY <1>b, <1>e, Zenon
  <2>2. yield_count[u] + exit_count[u] + 0 = yield_count[u] + exit_count[u]
    BY <1>a
  <2> QED BY <2>1, <2>2, Zenon
<1>f. ASSUME NEW y \in Nat, NEW e \in Nat, yield_count'[u] = y, exit_count'[u] = e,
             state'[u] # "running", dispatch_count'[u] = (y + e) % Word
      PROVE  Matched'
  <2>1. y + e + 0 = y + e
    OBVIOUS
  <2>2. (IF state'[u] = "running" THEN 1 ELSE 0) = 0
    BY <1>f, Zenon
  <2> QED BY <1>f, <2>1, <2>2, Zenon
<1>g. ASSUME state'[u] = "running",
             dispatch_count'[u] = (yield_count'[u] + exit_count'[u] + 1) % Word
      PROVE  Matched'
  BY <1>g, Zenon
<1> SUFFICES Matched'
  BY Zenon
<1>1. ASSUME dispatch_count'[u] = dispatch_count[u], yield_count'[u] = yield_count[u],
             exit_count'[u] = exit_count[u],
             state'[u] = "running" <=> state[u] = "running"
      PROVE  Matched'
  BY <1>1, <1>b, Zenon
<1> HIDE DEF Matched
<1>2. CASE HandleTick \/ OtherIrq \/ UNCHANGED vars
  <2>1. UNCHANGED <<dispatch_count, yield_count, exit_count, state>>
    BY <1>2, Zenon DEF HandleTick, OtherIrq, vars, counts
  <2> QED BY <1>1, <2>1, Zenon
<1>3. CASE CreateKernelThread
  BY <1>0, <1>1, <1>3 DEF CreateKernelThread, counts, IInv, TypeOK, Births
<1>4. CASE Kernel
  <2>1. CASE StartLoop \/ DispatchSkip \/ DispatchPick \/ DispatchIdle
               \/ DispatchClear \/ DispatchSwitch \/ DispatchReturn
               \/ DispatchRearm
    <3>1. UNCHANGED <<dispatch_count, yield_count, exit_count, state>>
      BY <2>1, Zenon DEF StartLoop, DispatchSkip, DispatchPick, DispatchIdle,
            DispatchClear, DispatchSwitch, DispatchReturn, DispatchRearm, counts
    <3> QED BY <1>1, <3>1, Zenon
  <2>2. CASE DispatchCorrupt
    BY <1>0, <1>1, <2>2, Zenon DEF DispatchCorrupt, counts, IInv, TypeOK, KernelRuns
  <2>3. CASE DispatchSelect
    <3>1. CASE u # next_task
      <4>1. /\ dispatch_count'[u] = dispatch_count[u] /\ state'[u] = state[u]
            /\ UNCHANGED <<yield_count, exit_count>>
        BY <1>0, <1>t, <2>3, <3>1, Zenon DEF DispatchSelect
      <4> QED BY <1>1, <4>1, Zenon
    <3>2. CASE u = next_task
      <4>1. /\ dispatch_count'[u] = Inc(dispatch_count[u])
            /\ yield_count' = yield_count /\ exit_count' = exit_count
            /\ state[u] = "ready" /\ state'[u] = "running"
        BY <1>0, <2>3, <3>2, Zenon DEF DispatchSelect, IInv, TypeOK, KernelRuns
      <4>2. dispatch_count[u] = (yield_count[u] + exit_count[u]) % Word
        <5>1. state[u] # "running"
          BY <4>1, Zenon
        <5> QED BY <1>e, <5>1, Zenon
      <4>3. dispatch_count'[u] = (yield_count[u] + exit_count[u] + 1) % Word
        <5>1. yield_count[u] + exit_count[u] \in Nat
          BY <1>a
        <5>2. Inc((yield_count[u] + exit_count[u]) % Word)
                = (yield_count[u] + exit_count[u] + 1) % Word
          BY <5>1, IncWraps, Zenon
        <5> QED BY <4>1, <4>2, <5>2, Zenon
      <4> QED BY <1>g, <4>1, <4>3, Zenon
    <3> QED BY <3>1, <3>2, Zenon
  <2> QED BY <1>4, <2>1, <2>2, <2>3, Zenon DEF Kernel
<1>5. ASSUME NEW t \in Threads, ThreadSteps(t) \/ OverrunStack(t)
      PROVE  Matched'
  <2>1. CASE Bootstrap(t) \/ LeaveThread(t) \/ SwitchToKernel(t)
               \/ OverrunStack(t)
    <3>1. UNCHANGED <<dispatch_count, yield_count, exit_count, state>>
      BY <2>1, Zenon DEF Bootstrap, LeaveThread, SwitchToKernel, OverrunStack, counts
    <3> QED BY <1>1, <3>1, Zenon
  <2>2. CASE ResumeFromYield(t)
    BY <1>0, <1>1, <2>2, Zenon
       DEF ResumeFromYield, counts, IInv, TypeOK, ThreadRuns, OnlyRunning
  <2>3. CASE EntryReturns(t) \/ YieldCorrupt(t)
    <3>1. /\ current = t
          /\ state[t] = "running"
          /\ ExitCurrentTask(t)
          /\ UNCHANGED <<dispatch_count, yield_count>>
      BY <1>0, <2>3, Zenon
         DEF EntryReturns, YieldCorrupt, IInv, ThreadRuns, OnlyRunning
    <3>2. CASE u # t
      <4>1. exit_count'[u] = exit_count[u] /\ state'[u] = state[u]
        BY <1>0, <1>t, <3>1, <3>2, Zenon DEF ExitCurrentTask
      <4> QED BY <1>1, <3>1, <4>1, Zenon
    <3>3. CASE u = t
      <4>1. exit_count'[u] = Inc(exit_count[u]) /\ state'[u] = "exited"
        BY <1>0, <3>1, <3>3, Zenon DEF ExitCurrentTask, IInv, TypeOK
      <4>2. dispatch_count[u] = (exit_count[u] + yield_count[u] + 1) % Word
        <5>1. dispatch_count[u] = (yield_count[u] + exit_count[u] + 1) % Word
          BY <1>d, <3>1, <3>3, Zenon
        <5>2. yield_count[u] + exit_count[u] + 1 = exit_count[u] + yield_count[u] + 1
          BY <1>a
        <5> QED BY <5>1, <5>2, Zenon
      <4>3. dispatch_count[u] = (exit_count'[u] + yield_count[u]) % Word
        <5>1. (Inc(exit_count[u]) + yield_count[u]) % Word
                = (exit_count[u] + yield_count[u] + 1) % Word
          BY <1>a, IncWraps, Zenon
        <5> QED BY <4>1, <4>2, <5>1, Zenon
      <4>4. exit_count'[u] \in Nat
        BY <1>a, <1>c, <4>1, Zenon
      <4>5. dispatch_count'[u] = (yield_count[u] + exit_count'[u]) % Word
        <5>1. exit_count'[u] + yield_count[u] = yield_count[u] + exit_count'[u]
          BY <1>a, <4>4
        <5> QED BY <3>1, <4>3, <5>1, Zenon
      <4>6. state'[u] # "running" /\ yield_count'[u] = yield_count[u]
        BY <3>1, <4>1, Zenon
      <4> QED BY <1>a, <1>f, <4>4, <4>5, <4>6, Zenon
    <3> QED BY <3>2, <3>3, Zenon
  <2>4. CASE Yield(t)
    <3>1. current = t /\ state[t] = "running"
      BY <1>0, <2>4, Zenon DEF Yield, IInv, ThreadRuns, OnlyRunning
    <3>2. CASE u # t
      <4>1. /\ yield_count'[u] = yield_count[u] /\ state'[u] = state[u]
            /\ UNCHANGED <<dispatch_count, exit_count>>
        BY <1>0, <1>t, <2>4, <3>1, <3>2, Zenon DEF Yield
      <4> QED BY <1>1, <4>1, Zenon
    <3>3. CASE u = t
      <4>1. /\ yield_count'[u] = Inc(yield_count[u])
            /\ state'[u] = "ready"
            /\ UNCHANGED <<dispatch_count, exit_count>>
        BY <1>0, <2>4, <3>1, <3>3, Zenon DEF Yield, IInv, TypeOK
      <4>2. dispatch_count[u] = (yield_count[u] + exit_count[u] + 1) % Word
        BY <1>d, <3>1, <3>3, Zenon
      <4>3. dispatch_count[u] = (yield_count'[u] + exit_count[u]) % Word
        <5>1. (Inc(yield_count[u]) + exit_count[u]) % Word
                = (yield_count[u] + exit_count[u] + 1) % Word
          BY <1>a, IncWraps, Zenon
        <5> QED BY <4>1, <4>2, <5>1, Zenon
      <4>4. yield_count'[u] \in Nat
        BY <1>a, <1>c, <4>1, Zenon
      <4>5. state'[u] # "running"
        BY <4>1, Zenon
      <4> QED BY <1>a, <1>f, <4>1, <4>3, <4>4, <4>5, Zenon
    <3> QED BY <3>2, <3>3, Zenon
  <2> QED BY <1>5, <2>1, <2>2, <2>3, <2>4, Zenon DEF ThreadSteps
<1> QED BY <1>2, <1>3, <1>4, <1>5, Zenon DEF Next

\* The statistics the `sched' command prints never disagree: dispatches equal
\* yields plus exits plus the run under way, also after the counters wrap.
THEOREM DispatchAccounting == Spec => []DispatchesMatched
<1>1. Init => DispatchesMatched
  <2> SUFFICES ASSUME Init, NEW u \in Threads
               PROVE  0 = (0 + 0 + 0) % Word /\ u \in Tasks /\ u # Idle
    BY Zenon DEF Init, DispatchesMatched
  <2> QED BY SchedulerAssumption, ModSmall DEF Threads, Tasks, Idle
<1> QED BY <1>1, InvInductive, MatchedStep, PTL DEF Spec

-----------------------------------------------------------------------------
(* Exited threads, and the abstract specification. *)

\* Once EXITED, a thread is neither revived nor dispatched nor switched to.
THEOREM ExitIsForEver == Spec => ExitedIsFinal
<1>1. IInv /\ IInv' /\ [Next]_vars =>
        [\A t \in Threads : state[t] = "exited" =>
          /\ state'[t] = "exited"
          /\ dispatch_count'[t] = dispatch_count[t]
          /\ cpu # t => cpu' # t]_vars
  <2> SUFFICES ASSUME IInv, IInv', Next, NEW t \in Threads, state[t] = "exited"
               PROVE  /\ state'[t] = "exited"
                      /\ dispatch_count'[t] = dispatch_count[t]
                      /\ cpu # t => cpu' # t
    BY Zenon DEF vars
  <2>t. state \in [Tasks -> States] /\ dispatch_count \in [Tasks -> Counters]
    BY Zenon DEF IInv, TypeOK
  <2>n. Idle \in Tasks /\ Idle \notin Threads /\ t \in Tasks /\ t \in Nat
    BY SchedulerAssumption DEF Tasks, Threads, Idle
  <2>0. /\ Idle \in Tasks /\ Idle \notin Threads /\ t \in Tasks /\ t \in Nat
        /\ state \in [Tasks -> States] /\ dispatch_count \in [Tasks -> Counters]
    BY <2>t, <2>n, Zenon
  <2>f. ASSUME UNCHANGED <<state, dispatch_count>>, cpu # t => cpu' # t
        PROVE  /\ state'[t] = "exited"
               /\ dispatch_count'[t] = dispatch_count[t]
               /\ cpu # t => cpu' # t
    BY <2>f, Zenon
  <2>1. CASE HandleTick \/ OtherIrq
    <3>1. UNCHANGED <<state, dispatch_count, cpu>>
      BY <2>1, Zenon DEF HandleTick, OtherIrq, counts
    <3> QED BY <2>f, <3>1, Zenon
  <2>2. CASE CreateKernelThread
    <3>1. t < total_tasks /\ total_tasks \in Nat
      BY <2>0 DEF Births, Tasks, IInv, TypeOK
    <3>2. t # total_tasks
      BY <2>0, <3>1
    <3> QED BY <2>0, <2>2, <3>2, Zenon DEF CreateKernelThread, counts
  <2>3. CASE Kernel
    <3>1. CASE StartLoop \/ DispatchSkip \/ DispatchPick \/ DispatchIdle
                 \/ DispatchClear \/ DispatchReturn \/ DispatchRearm
      <4>1. UNCHANGED <<state, dispatch_count, cpu>>
        BY <3>1, Zenon DEF StartLoop, DispatchSkip, DispatchPick, DispatchIdle,
              DispatchClear, DispatchReturn, DispatchRearm, counts
      <4> QED BY <2>f, <4>1, Zenon
    <3>2. CASE DispatchCorrupt
      BY <2>0, <3>2, Zenon DEF DispatchCorrupt, counts
    <3>3. CASE DispatchSelect
      <4>1. /\ state[next_task] = "ready" /\ next_task # t /\ cpu' = cpu
            /\ state' = [state EXCEPT ![next_task] = "running"]
            /\ dispatch_count' = [dispatch_count EXCEPT ![next_task] = Inc(@)]
        BY <3>3, Zenon DEF DispatchSelect, IInv, KernelRuns
      <4> QED BY <2>0, <4>1, Zenon
    <3>4. CASE DispatchSwitch
      <4>1. UNCHANGED <<state, dispatch_count>> /\ cpu' = current
        BY <3>4, Zenon DEF DispatchSwitch, counts
      <4>2. current # t
        BY <3>4, Zenon DEF DispatchSwitch, IInv, KernelRuns, OnlyRunning
      <4> QED BY <2>f, <4>1, <4>2, Zenon
    <3> QED BY <2>3, <3>1, <3>2, <3>3, <3>4, Zenon DEF Kernel
  <2>4. ASSUME NEW u \in Threads, ThreadSteps(u) \/ OverrunStack(u)
        PROVE  /\ state'[t] = "exited"
               /\ dispatch_count'[t] = dispatch_count[t]
               /\ cpu # t => cpu' # t
    <3>1. CASE Bootstrap(u) \/ LeaveThread(u) \/ OverrunStack(u)
      <4>1. UNCHANGED <<state, dispatch_count, cpu>>
        BY <3>1, Zenon DEF Bootstrap, LeaveThread, OverrunStack, counts
      <4> QED BY <2>f, <4>1, Zenon
    <3>2. CASE SwitchToKernel(u)
      BY <2>0, <2>f, <3>2, Zenon DEF SwitchToKernel, counts
    <3>3. CASE ResumeFromYield(u)
      BY <2>0, <3>3, Zenon DEF ResumeFromYield, counts
    <3>4. CASE EntryReturns(u) \/ YieldCorrupt(u)
      <4>1. /\ ExitCurrentTask(u) /\ UNCHANGED <<dispatch_count, cpu>>
            /\ current \in Tasks
        BY <3>4, Zenon DEF EntryReturns, YieldCorrupt, IInv, TypeOK
      <4> QED BY <2>0, <4>1, Zenon DEF ExitCurrentTask
    <3>5. CASE Yield(u)
      <4>1. current = u /\ state[u] = "running"
        <5>1. cpu = u /\ tpc[u] = "body" /\ in_thread_context /\ current # Idle
          BY <3>5, Zenon DEF Yield
        <5>2. ThreadRuns
          BY Zenon DEF IInv
        <5> QED BY <2>0, <5>1, <5>2, Zenon DEF ThreadRuns, OnlyRunning
      <4>2. UNCHANGED <<dispatch_count, cpu>>
            /\ state' = [state EXCEPT ![u] = "ready"]
        BY <3>5, <4>1, Zenon DEF Yield
      <4> QED BY <2>0, <4>1, <4>2, Zenon
    <3> QED BY <2>4, <3>1, <3>2, <3>3, <3>4, <3>5, Zenon DEF ThreadSteps
  <2> QED BY <2>1, <2>2, <2>3, <2>4, Zenon DEF Next
<1> QED BY <1>1, InvInductive, PTL DEF Spec, ExitedIsFinal

\* A store to one thread's state is a move of the abstract state.
LEMMA StateMove ==
    ASSUME IInv, NEW t \in Threads, NEW to, state' = [state EXCEPT ![t] = to]
    PROVE  [u \in Threads |-> state[u]]' =
              [[u \in Threads |-> state[u]] EXCEPT ![t] = to]
<1>1. Threads \subseteq Tasks
  BY SchedulerAssumption DEF Tasks, Threads
<1> QED BY <1>1, Zenon DEF IInv, TypeOK

\* The scheduler, with interrupts between its steps, implements CoopThreads: one
\* thread at a time runs, and only by its own yield or exit does it stop.
THEOREM Refinement == Spec => ImplementsCoopThreads
<1> DEFINE tstate == [t \in Threads |-> state[t]]
<1>1. Init => Abs!Init
  <2> SUFFICES ASSUME Init PROVE tstate = [t \in Threads |-> "unborn"]
    BY Zenon DEF Abs!Init
  <2>1. \A t \in Threads : state[t] = "unborn"
    BY SchedulerAssumption DEF Init, Tasks, Threads, Idle
  <2> QED BY <2>1, Zenon
<1>2. IInv /\ [Next]_vars => [Abs!Next]_tstate
  <2> SUFFICES ASSUME IInv, [Next]_vars PROVE Abs!Next \/ tstate' = tstate
    BY Zenon
  <2> HIDE DEF tstate
  <2>t. TypeOK /\ Births /\ KernelRuns /\ ThreadRuns
    BY Zenon DEF IInv
  <2>0. Idle \in Tasks /\ Idle \notin Threads /\ Threads \subseteq Tasks
        /\ \A t \in Tasks : t = Idle \/ t \in Threads
    BY SchedulerAssumption DEF Tasks, Threads, Idle
  <2>1. CASE UNCHANGED state
    BY <2>1, Zenon DEF tstate
  <2>2. CASE CreateKernelThread
    <3>1. PICK t \in Threads : t = total_tasks
      BY <2>2, Zenon DEF CreateKernelThread
    <3>2. state[t] = "unborn"
      BY <2>0, <2>t, <3>1 DEF Births, TypeOK
    <3>3. Abs!Create(t)
      BY <2>2, <3>1, <3>2, StateMove, Zenon
         DEF tstate, CreateKernelThread, Abs!Create, Abs!Move
    <3> QED BY <3>3, Zenon DEF Abs!Next
  <2>3. CASE DispatchCorrupt
    <3>1. PICK t \in Threads : t = next_task
      BY <2>0, <2>3, <2>t, Zenon DEF DispatchCorrupt, TypeOK
    <3>2. state[t] = "ready" /\ NoneRunning
      BY <2>3, <2>t, <3>1, Zenon DEF DispatchCorrupt, KernelRuns
    <3>3. Abs!Kill(t)
      BY <2>3, <3>1, <3>2, StateMove, Zenon
         DEF tstate, DispatchCorrupt, Abs!Kill, Abs!Move, NoneRunning
    <3> QED BY <3>3, Zenon DEF Abs!Next
  <2>4. CASE DispatchSelect
    <3>1. PICK t \in Threads : t = next_task
      BY <2>0, <2>4, <2>t, Zenon DEF DispatchSelect, TypeOK
    <3>2. state[t] = "ready" /\ NoneRunning
      BY <2>4, <2>t, <3>1, Zenon DEF DispatchSelect, KernelRuns
    <3>3. Abs!Run(t)
      BY <2>4, <3>1, <3>2, StateMove, Zenon
         DEF tstate, DispatchSelect, Abs!Run, Abs!Move, NoneRunning
    <3> QED BY <3>3, Zenon DEF Abs!Next
  <2>5. ASSUME NEW t \in Threads, EntryReturns(t) \/ YieldCorrupt(t)
        PROVE  Abs!Next
    <3>1. current = t /\ state[t] = "running" /\ ExitCurrentTask(t)
      BY <2>0, <2>5, <2>t, Zenon DEF EntryReturns, YieldCorrupt, ThreadRuns, OnlyRunning
    <3>2. Abs!Finish(t)
      <4>1. t # Idle
        BY <2>0, Zenon
      <4>2. state' = [state EXCEPT ![t] = "exited"]
        BY <3>1, <4>1, Zenon DEF ExitCurrentTask
      <4> QED BY <3>1, <4>2, StateMove, Zenon DEF tstate, Abs!Finish, Abs!Move
    <3> QED BY <3>2, Zenon DEF Abs!Next
  <2>6. ASSUME NEW t \in Threads, Yield(t)
        PROVE  Abs!Next
    <3>1. current = t /\ state[t] = "running"
      BY <2>0, <2>6, <2>t, Zenon DEF Yield, ThreadRuns, OnlyRunning
    <3>2. Abs!Yield(t)
      BY <2>6, <3>1, StateMove, ZenonT(30) DEF tstate, Yield, Abs!Yield, Abs!Move
    <3> QED BY <3>2, Zenon DEF Abs!Next
  <2>7. ASSUME NEW t \in Threads, ResumeFromYield(t)
        PROVE  tstate' = tstate
    <3>1. state[t] = "running"
      BY <2>0, <2>7, <2>t, Zenon DEF ResumeFromYield, ThreadRuns, OnlyRunning
    <3>2. state' = state
      <4>1. state \in [Tasks -> States]
        BY <2>t, Zenon DEF TypeOK
      <4> QED BY <2>7, <3>1, <4>1, Zenon DEF ResumeFromYield
    <3> QED BY <3>2, Zenon DEF tstate
  <2>8. CASE \E t \in Threads : ThreadSteps(t) \/ OverrunStack(t)
    BY <2>1, <2>5, <2>6, <2>7, <2>8, Zenon
       DEF ThreadSteps, Bootstrap, LeaveThread, SwitchToKernel, OverrunStack
  <2>9. CASE Kernel
    BY <2>1, <2>3, <2>4, <2>9, Zenon
       DEF Kernel, StartLoop, DispatchSkip, DispatchPick, DispatchIdle,
           DispatchClear, DispatchSwitch, DispatchReturn, DispatchRearm
  <2>10. CASE HandleTick \/ OtherIrq \/ UNCHANGED vars
    BY <2>1, <2>10, Zenon DEF HandleTick, OtherIrq, vars
  <2> QED BY <2>2, <2>8, <2>9, <2>10, Zenon DEF Next
<1> QED BY <1>1, <1>2, InvInductive, PTL DEF Spec, ImplementsCoopThreads, Abs!Spec

-----------------------------------------------------------------------------
(* The driver of the virtual disk *)

Succ(i) == (i + 1) % IndexMod

\* The device has nothing of ours.
AtRest == avail = used /\ last_used = used /\ seen = used /\ job = NoJob

\* The shared header and descriptor are those of the sector under way.
Asked == header = lba + at /\ target = at

\* If the status byte says so, the sector is in its place.
Filled == status = "ok" => buffer[at] = lba + at

\* A request that the device has not taken, works on, and has answered
Waiting ==
    /\ job = NoJob
    /\ seen = used /\ last_used = used /\ avail = Succ(used)
Working ==
    /\ job.stage \in {"read", "written"}
    /\ job.sector = header /\ job.slot = target
    /\ seen = avail /\ last_used = used /\ avail = Succ(used)
    /\ job.stage = "written" => Filled
Answered ==
    /\ job = NoJob
    /\ seen = used /\ avail = used /\ used = Succ(last_used)
    /\ Filled

\* What ties the three indices, the job and the buffer together with a device
\* that answers in time
PromptInv ==
    /\ pc \in {"boot", "idle", "sector", "publish", "returned"} => AtRest
    /\ pc = "boot" => used = 0
    /\ pc \in {"publish", "poll", "timer", "collect"} => Asked
    /\ InLoop => Waiting \/ Working \/ Answered
    /\ InLoop /\ elapsed > Limit => Answered /\ pc = "poll"
    /\ pc = "collect" => Answered
    /\ pc \in {"sector", "publish", "poll", "timer", "collect"} =>
          \A i \in 0 .. (at - 1) : buffer[i] = lba + i
    /\ ReadDelivers

BlkInv == BlkTypeOK /\ (prompt => PromptInv)

-----------------------------------------------------------------------------
\* The indices wrap, but the next one is another one.
LEMMA SuccIs ==
    ASSUME NEW i \in 0 .. (IndexMod - 1)
    PROVE  Succ(i) \in 0 .. (IndexMod - 1) /\ Succ(i) # i
<1>1. IndexMod \in Nat /\ IndexMod > 1
  BY VirtioBlkAssumption
<1>2. CASE i + 1 < IndexMod
  <2>1. Succ(i) = i + 1
    BY <1>1, <1>2, ModSmall DEF Succ
  <2> QED BY <1>1, <1>2, <2>1
<1>3. CASE i + 1 = IndexMod
  <2>1. Succ(i) = 0
    BY <1>1, <1>3 DEF Succ
  <2> QED BY <1>1, <1>3, <2>1
<1> QED BY <1>1, <1>2, <1>3

\* The numbers that the types are made of
LEMMA Ranges ==
    /\ DiskSectors \in Nat /\ DiskSectors > 0
    /\ MaxCount \in Nat /\ MaxCount > 0
    /\ IndexMod \in Nat /\ IndexMod > 1
    /\ Limit \in Nat
    /\ 0 \in Slots /\ 0 \in Lbas
    /\ \A l \in 0 .. DiskSectors, a \in Slots : l + a \in Lbas
    /\ NoJob \in Jobs
<1>1. /\ DiskSectors \in Nat /\ DiskSectors > 0
      /\ MaxCount \in Nat /\ MaxCount > 0
      /\ IndexMod \in Nat /\ IndexMod > 1
      /\ Limit \in Nat
  BY VirtioBlkAssumption
<1>2. 0 \in Slots /\ 0 \in Lbas
  BY <1>1 DEF Slots, Lbas
<1>3. \A l \in 0 .. DiskSectors, a \in Slots : l + a \in Lbas
  BY <1>1 DEF Slots, Lbas
<1>4. NoJob \in Jobs
  BY <1>2, Zenon DEF NoJob, Jobs
<1> QED BY <1>1, <1>2, <1>3, <1>4, Zenon

\* The invariant holds before the probe (virtio_blk_state_t as allocated).
LEMMA BlkInvInit == BlkInit => BlkInv
<1> SUFFICES ASSUME BlkInit PROVE BlkInv
  BY Zenon
<1>1. BlkTypeOK
  <2>1. ready \in BOOLEAN /\ result \in BOOLEAN /\ prompt \in Promptness
    BY Zenon DEF BlkInit
  <2>2. buffer \in [Slots -> {Junk} \cup Lbas]
    BY Zenon DEF BlkInit
  <2>3. at \in Slots /\ target \in Slots /\ header \in Lbas /\ job \in Jobs
    BY Ranges, Zenon DEF BlkInit
  <2> QED BY <2>1, <2>2, <2>3, Ranges DEF BlkInit, BlkTypeOK
<1>2. PromptInv
  BY Ranges, Zenon DEF BlkInit, PromptInv, AtRest, ReadDelivers, InLoop
<1> QED BY <1>1, <1>2, Zenon DEF BlkInv

-----------------------------------------------------------------------------
(* Types *)

\* Every step of the driver, the timer and the device keeps the types.
LEMMA BlkTypeStep == BlkTypeOK /\ [BlkNext]_blkVars => BlkTypeOK'
<1> SUFFICES ASSUME BlkTypeOK, [BlkNext]_blkVars PROVE BlkTypeOK'
  BY Zenon
<1> USE Ranges
<1>1. CASE Probe
  <2>1. ready' \in BOOLEAN
    <3>1. ready' = FALSE \/ \E o \in SetupOutcomes : ready' = (o \in {"small", "large"})
      BY <1>1, Zenon DEF Probe, SetupQueue, QueueIsUp
    <3>2. ASSUME NEW o \in SetupOutcomes, ready' = (o \in {"small", "large"})
          PROVE  ready' = TRUE \/ ready' = FALSE
      <4>1. CASE o \in {"small", "large"}
        BY <3>2, <4>1, Zenon
      <4>2. CASE o \notin {"small", "large"}
        <5>1. (o \in {"small", "large"}) = FALSE
          BY <4>2
        <5> QED BY <3>2, <5>1, Zenon
      <4> QED BY <4>1, <4>2, Zenon
    <3> QED BY <3>1, <3>2, Zenon
  <2>2. capacity' \in {0, DiskSectors} /\ last_used' = 0
    BY <1>1, Zenon DEF Probe, SetupQueue
  <2> QED BY <1>1, <2>1, <2>2 DEF BlkTypeOK, Probe, device
<1>2. CASE Reject
  BY <1>2, Zenon DEF BlkTypeOK, Reject, Return, driver, device
<1>3. CASE Fill
  BY <1>3, Zenon DEF BlkTypeOK, Fill, device
<1>4. CASE Publish
  <2>1. avail' \in 0 .. (IndexMod - 1)
    BY <1>4, SuccIs, Zenon DEF BlkTypeOK, Publish, Succ
  <2> QED BY <1>4, <2>1 DEF BlkTypeOK, Publish, device
<1>5. CASE Poll
  BY <1>5, Zenon DEF BlkTypeOK, Poll, driver, device
<1>6. CASE PollTimeout
  <2>1. result' \in BOOLEAN
    BY <1>6, Zenon DEF BlkTypeOK, PollTimeout, Return
  <2>2. pc' \in {"poll", "returned"}
    BY <1>6, Zenon DEF PollTimeout, Return
  <2> QED BY <1>6, <2>1, <2>2, Zenon DEF BlkTypeOK, PollTimeout, driver, device
<1>7. CASE Collect
  <2>1. at' \in Slots /\ at' < count'
    BY <1>7 DEF BlkTypeOK, Collect, Slots, Return
  <2>2. result' \in BOOLEAN
    BY <1>7, ZenonT(30) DEF BlkTypeOK, Collect, Return
  <2> QED BY <1>7, <2>1, <2>2, Zenon DEF BlkTypeOK, Collect, Return, device
<1>8. CASE CallerContinues
  BY <1>8, Zenon DEF BlkTypeOK, CallerContinues, driver, device
<1>9. CASE Tick
  BY <1>9 DEF BlkTypeOK, Tick, driver, device
<1>10. ASSUME NEW l \in 0 .. DiskSectors, NEW n \in 1 .. MaxCount, Call(l, n)
       PROVE  BlkTypeOK'
  BY <1>10 DEF BlkTypeOK, Call, driver, device, Junk
<1>11. CASE DeviceTakes
  <2>1. seen' \in 0 .. (IndexMod - 1)
    BY <1>11, SuccIs, Zenon DEF BlkTypeOK, DeviceTakes, Succ
  <2>2. job' \in Jobs
    BY <1>11, Zenon DEF BlkTypeOK, DeviceTakes, Jobs
  <2> QED BY <1>11, <2>1, <2>2, Zenon DEF BlkTypeOK, DeviceTakes, driver
<1>12. ASSUME NEW ok \in BOOLEAN, DeviceWrites(ok) PROVE BlkTypeOK'
  <2>1. job.slot \in Slots /\ job.sector \in Lbas
    BY Zenon DEF BlkTypeOK, Jobs
  <2>2. job' \in Jobs
    BY <1>12, Zenon DEF BlkTypeOK, DeviceWrites, Jobs
  <2>3. buffer' \in [Slots -> {Junk} \cup Lbas]
    BY <1>12, <2>1, Zenon DEF BlkTypeOK, DeviceWrites
  <2>4. status' \in {"ff", "ok", "err"}
    BY <1>12, Zenon DEF DeviceWrites
  <2> QED BY <1>12, <2>2, <2>3, <2>4, Zenon DEF BlkTypeOK, DeviceWrites
<1>13. CASE DeviceFinishes
  <2>1. used' \in 0 .. (IndexMod - 1)
    BY <1>13, SuccIs, Zenon DEF BlkTypeOK, DeviceFinishes, Succ
  <2> QED BY <1>13, <2>1, Zenon DEF BlkTypeOK, DeviceFinishes, driver
<1>14. CASE UNCHANGED blkVars
  BY <1>14, Zenon DEF BlkTypeOK, blkVars, driver, device
<1> QED
  BY <1>1, <1>2, <1>3, <1>4, <1>5, <1>6, <1>7, <1>8, <1>9, <1>10, <1>11, <1>12,
     <1>13, <1>14, Zenon DEF BlkNext, Driver, Device

-----------------------------------------------------------------------------
(* A device that answers in time *)

\* A prompt device is at work on a request only while the driver polls for it.
LEMMA PromptWorks ==
    ASSUME BlkTypeOK, PromptInv, job # NoJob
    PROVE  InLoop /\ Working /\ Asked
<1>1. ~AtRest /\ ~Answered /\ ~Waiting
  BY Zenon DEF AtRest, Answered, Waiting
<1>2. InLoop
  BY <1>1, Zenon DEF PromptInv, BlkTypeOK, InLoop
<1> QED BY <1>1, <1>2, Zenon DEF PromptInv, InLoop

\* With a prompt device every step keeps the agreement of driver and device: a
\* request is with the device exactly from Publish to its answer, and what the
\* driver collects is the answer to what it asked for (virtio_blk_block_read).
LEMMA PromptStep ==
    ASSUME BlkTypeOK, BlkTypeOK', prompt, PromptInv, [BlkNext]_blkVars
    PROVE  PromptInv'
<1> USE Ranges
<1>1. CASE Probe
  <2>1. /\ pc = "boot" /\ pc' = "idle" /\ last_used' = 0
        /\ UNCHANGED <<prompt, used, seen, job, avail>>
    BY <1>1, Zenon DEF Probe, SetupQueue, device
  <2> QED BY <2>1, Zenon DEF PromptInv, AtRest, ReadDelivers, InLoop
<1>2. CASE Reject
  <2>1. pc = "sector" /\ pc' = "returned" /\ result' = FALSE
        /\ UNCHANGED <<used, avail, last_used, seen, job>>
    BY <1>2, Zenon DEF Reject, Return, driver, device
  <2> QED BY <2>1, Zenon DEF PromptInv, AtRest, ReadDelivers, InLoop
<1>3. CASE Fill
  <2>1. /\ pc = "sector" /\ pc' = "publish" /\ header' = lba + at /\ target' = at
        /\ UNCHANGED <<used, avail, last_used, seen, job, lba, at, buffer>>
    BY <1>3, Zenon DEF Fill, device
  <2>2. Asked'
    BY <2>1, Zenon DEF Asked
  <2> QED BY <2>1, <2>2, Zenon DEF PromptInv, AtRest, ReadDelivers, InLoop
<1>4. CASE Publish
  <2>1. /\ pc = "publish" /\ pc' = "poll" /\ avail' = Succ(avail) /\ elapsed' = 0
        /\ UNCHANGED <<header, target, used, last_used, seen, job, lba, at, buffer>>
    BY <1>4, Zenon DEF Publish, Succ, device
  <2>2. AtRest /\ Asked /\ \A i \in 0 .. (at - 1) : buffer[i] = lba + i
    BY <2>1, Zenon DEF PromptInv
  <2>3. Waiting' /\ Asked'
    BY <2>1, <2>2, Zenon DEF AtRest, Asked, Waiting, Succ
  <2>4. ~(elapsed' > Limit)
    BY <2>1
  <2> QED BY <2>1, <2>2, <2>3, <2>4, Zenon DEF PromptInv, ReadDelivers, InLoop
<1>5. CASE Poll
  <2>1. /\ pc = "poll" /\ UNCHANGED <<lba, at, buffer, elapsed>>
        /\ UNCHANGED <<driver, device>>
        /\ pc' = IF used # last_used THEN "collect" ELSE "timer"
    BY <1>5, Zenon DEF Poll
  <2>2. Asked /\ \A i \in 0 .. (at - 1) : buffer[i] = lba + i
    BY <2>1, Zenon DEF PromptInv
  <2>3. /\ Asked' /\ (Waiting <=> Waiting') /\ (Working <=> Working')
        /\ (Answered <=> Answered')
    BY <2>1, <2>2, Zenon
       DEF Asked, Waiting, Working, Answered, Filled, Succ, driver, device
  <2>4. CASE used # last_used
    <3>1. Answered
      BY <2>1, <2>4, Zenon DEF PromptInv, InLoop, Waiting, Working
    <3> QED BY <2>1, <2>2, <2>3, <2>4, <3>1, Zenon DEF PromptInv, ReadDelivers, InLoop
  <2>5. CASE used = last_used
    <3>1. ~Answered
      BY <2>5, SuccIs, Zenon DEF Answered, BlkTypeOK
    <3>2. ~(elapsed > Limit)
      BY <2>1, <3>1, Zenon DEF PromptInv, InLoop
    <3>3. Waiting \/ Working
      BY <2>1, <3>1, Zenon DEF PromptInv, InLoop
    <3> QED BY <2>1, <2>2, <2>3, <2>5, <3>2, <3>3, Zenon DEF PromptInv, ReadDelivers, InLoop
  <2> QED BY <2>4, <2>5, Zenon
<1>6. CASE PollTimeout
  <2>1. pc = "timer" /\ ~(elapsed > Limit)
    BY <1>6, Zenon DEF PromptInv, PollTimeout, InLoop
  <2>2. /\ pc' = "poll" /\ UNCHANGED <<lba, at, buffer, elapsed, result>>
        /\ UNCHANGED <<driver, device>>
    BY <1>6, <2>1, Zenon DEF PollTimeout
  <2>3. /\ Asked /\ (Waiting \/ Working \/ Answered)
        /\ \A i \in 0 .. (at - 1) : buffer[i] = lba + i
    BY <2>1, Zenon DEF PromptInv, InLoop
  <2>4. /\ Asked' /\ (Waiting <=> Waiting') /\ (Working <=> Working')
        /\ (Answered <=> Answered')
    BY <2>2, <2>3, Zenon
       DEF Asked, Waiting, Working, Answered, Filled, Succ, driver, device
  <2> QED BY <2>1, <2>2, <2>3, <2>4, Zenon DEF PromptInv, ReadDelivers, InLoop
<1>7. CASE Collect
  <2>1. Answered /\ Asked /\ \A i \in 0 .. (at - 1) : buffer[i] = lba + i
    BY <1>7, Zenon DEF PromptInv, Collect
  <2>2. AtRest'
    BY <1>7, <2>1, Zenon DEF Collect, AtRest, Answered, device
  <2>3. CASE status # "ok"
    BY <1>7, <2>2, <2>3, Zenon DEF PromptInv, Collect, Return, ReadDelivers, InLoop
  <2>4. CASE status = "ok"
    <3>1. \A i \in 0 .. at : buffer[i] = lba + i
      <4>1. buffer[at] = lba + at
        BY <2>1, <2>4, Zenon DEF Answered, Filled
      <4>2. at \in Nat /\ \A i \in 0 .. at : i = at \/ i \in 0 .. (at - 1)
        BY DEF BlkTypeOK, Slots
      <4> QED BY <2>1, <4>1, <4>2, Zenon
    <3>2. CASE at + 1 = count
      <4>1. /\ pc' = "returned"
            /\ UNCHANGED <<prompt, lba, count, buffer>>
        BY <1>7, <2>4, <3>2, Zenon DEF Collect, Return, device
      <4>2. ReadDelivers'
        BY <3>1, <3>2, <4>1 DEF ReadDelivers, BlkTypeOK, Slots
      <4> QED BY <2>2, <4>1, <4>2, Zenon DEF PromptInv, InLoop
    <3>3. CASE at + 1 # count
      <4>1. /\ pc' = "sector" /\ at' = at + 1 /\ at \in Nat
            /\ UNCHANGED <<prompt, lba, count, buffer>>
        BY <1>7, <2>4, <3>3 DEF Collect, device, BlkTypeOK, Slots
      <4>2. \A i \in 0 .. (at' - 1) : buffer'[i] = lba' + i
        BY <3>1, <4>1
      <4> QED BY <2>2, <4>1, <4>2, Zenon DEF PromptInv, ReadDelivers, InLoop
    <3> QED BY <3>2, <3>3, Zenon
  <2> QED BY <2>3, <2>4, Zenon
<1>8. CASE CallerContinues
  <2>1. pc = "returned" /\ pc' = "idle" /\ UNCHANGED <<used, avail, last_used, seen, job>>
    BY <1>8, Zenon DEF CallerContinues, driver, device
  <2> QED BY <2>1, Zenon DEF PromptInv, AtRest, ReadDelivers, InLoop
<1>9. CASE Tick
  <2>1. Waiting \/ Working => used # avail
    BY SuccIs, Zenon DEF Waiting, Working, BlkTypeOK
  <2>2. InLoop /\ (elapsed' > Limit => Answered /\ pc = "poll")
    BY <1>9, <2>1 DEF PromptInv, Tick, Outstanding, BlkTypeOK, InLoop
  <2>3. pc' = pc /\ UNCHANGED <<driver, device>> /\ UNCHANGED <<lba, at, buffer>>
    BY <1>9, <2>2, Zenon DEF Tick
  <2>4. /\ Asked' /\ (Waiting <=> Waiting') /\ (Working <=> Working')
        /\ (Answered <=> Answered')
    <3>1. Asked
      BY <2>2, Zenon DEF PromptInv, InLoop
    <3> QED BY <2>3, <3>1, Zenon
            DEF Asked, Waiting, Working, Answered, Filled, Succ, driver, device
  <2> QED BY <2>2, <2>3, <2>4, Zenon DEF PromptInv, ReadDelivers, InLoop
<1>10. ASSUME NEW l \in 0 .. DiskSectors, NEW n \in 1 .. MaxCount, Call(l, n)
       PROVE  PromptInv'
  <2>1. /\ pc = "idle" /\ pc' = "sector" /\ at' = 0
        /\ UNCHANGED <<used, avail, last_used, seen, job>>
    BY <1>10, Zenon DEF Call, driver, device
  <2> QED BY <2>1 DEF PromptInv, AtRest, ReadDelivers, InLoop
<1>11. CASE DeviceTakes
  <2>1. InLoop /\ Waiting /\ Asked
    BY <1>11, Zenon
       DEF DeviceTakes, PromptInv, AtRest, Answered, Working, NoJob, BlkTypeOK, InLoop
  <2>2. Working'
    BY <1>11, <2>1, Zenon DEF DeviceTakes, Working, Waiting, Succ, driver
  <2>3. ~Answered
    BY <2>1, SuccIs, Zenon DEF Waiting, Answered, BlkTypeOK
  <2>4. pc' = pc /\ Asked' /\ UNCHANGED <<lba, at, buffer, elapsed>>
    BY <1>11, <2>1, Zenon DEF DeviceTakes, Asked, driver
  <2>5. ~(elapsed > Limit) /\ \A i \in 0 .. (at - 1) : buffer[i] = lba + i
    BY <2>1, <2>3, Zenon DEF PromptInv, InLoop
  <2> QED BY <2>1, <2>2, <2>4, <2>5, Zenon DEF PromptInv, ReadDelivers, InLoop
<1>12. ASSUME NEW ok \in BOOLEAN, DeviceWrites(ok) PROVE PromptInv'
  <2>0. job # NoJob
    BY <1>12 DEF DeviceWrites, NoJob
  <2>1. InLoop /\ Working /\ Asked
    BY <2>0, PromptWorks, Zenon
  <2>2. job.slot = at /\ job.sector = lba + at /\ at \in Slots
    BY <2>1, Zenon DEF Working, Asked, BlkTypeOK
  <2>3. Filled'
    BY <1>12, <2>2, Zenon DEF DeviceWrites, Filled, BlkTypeOK
  <2>4. Working'
    BY <1>12, <2>1, <2>3, Zenon DEF DeviceWrites, Working, Succ, BlkTypeOK, Jobs
  <2>5. \A i \in 0 .. (at - 1) : buffer'[i] = lba + i
    <3> TAKE i \in 0 .. (at - 1)
    <3>1. i \in Slots /\ i # at
      BY <2>2 DEF Slots
    <3>2. buffer'[i] = buffer[i]
      BY <1>12, <2>2, <3>1, Zenon DEF DeviceWrites, BlkTypeOK
    <3> QED BY <2>1, <3>2, Zenon DEF PromptInv, InLoop
  <2>6. ~Answered
    BY <2>1, SuccIs, Zenon DEF Working, Answered, BlkTypeOK
  <2>7. pc' = pc /\ Asked' /\ UNCHANGED <<lba, at, elapsed>>
    BY <1>12, <2>1, Zenon DEF DeviceWrites, Asked
  <2>8. ~(elapsed > Limit)
    BY <2>1, <2>6, Zenon DEF PromptInv
  <2> QED BY <2>1, <2>4, <2>5, <2>7, <2>8, Zenon DEF PromptInv, ReadDelivers, InLoop
<1>13. CASE DeviceFinishes
  <2>0. job.stage = "written" /\ job # NoJob
    BY <1>13 DEF DeviceFinishes, NoJob
  <2>1. InLoop /\ Working /\ Asked /\ job.stage = "written"
    BY <2>0, PromptWorks, Zenon
  <2>2. Answered'
    BY <1>13, <2>1, Zenon DEF DeviceFinishes, Working, Answered, Filled, Succ, driver
  <2>3. pc' = pc /\ Asked' /\ UNCHANGED <<lba, at, buffer, elapsed>>
    BY <1>13, <2>1, Zenon DEF DeviceFinishes, Asked, driver
  <2>4. \A i \in 0 .. (at - 1) : buffer[i] = lba + i
    BY <2>1, Zenon DEF PromptInv, InLoop
  <2>5. ~Answered
    BY <2>1, SuccIs, Zenon DEF Working, Answered, BlkTypeOK
  <2>6. ~(elapsed > Limit)
    BY <2>1, <2>5, Zenon DEF PromptInv
  <2> QED BY <2>1, <2>2, <2>3, <2>4, <2>6, Zenon DEF PromptInv, ReadDelivers, InLoop
<1>14. CASE UNCHANGED blkVars
  BY <1>14, Zenon DEF PromptInv, AtRest, Asked, Waiting, Working, Answered, Filled, Succ,
               InLoop, ReadDelivers, blkVars, driver, device
<1> QED
  BY <1>1, <1>2, <1>3, <1>4, <1>5, <1>6, <1>7, <1>8, <1>9, <1>10, <1>11, <1>12,
     <1>13, <1>14, Zenon DEF BlkNext, Driver, Device

\* A device does not change its manners.
LEMMA PromptFixed == [BlkNext]_blkVars => prompt' = prompt
<1> SUFFICES ASSUME [BlkNext]_blkVars PROVE prompt' = prompt
  BY Zenon
<1>1. CASE Driver
  BY <1>1, Zenon DEF Driver, Probe, Reject, Fill, Publish, Poll, PollTimeout, Collect,
                     CallerContinues, device
<1>2. CASE Device
  BY <1>2, Zenon DEF Device, DeviceTakes, DeviceWrites, DeviceFinishes
<1>3. CASE Tick \/ \E l \in 0 .. DiskSectors, n \in 1 .. MaxCount : Call(l, n)
  BY <1>3, Zenon DEF Tick, Call, device
<1> QED BY <1>1, <1>2, <1>3, Zenon DEF BlkNext, blkVars, device

\* The invariant holds always.
LEMMA BlkInvAlways == BlkSpec => []BlkInv
<1>1. BlkInv /\ [BlkNext]_blkVars => BlkInv'
  BY BlkTypeStep, PromptStep, PromptFixed, Zenon DEF BlkInv
<1> QED BY BlkInvInit, <1>1, PTL DEF BlkSpec

-----------------------------------------------------------------------------
\* A read of block_read_device that returns success, on a device that answers
\* before the driver gives up, has put every sector in its place.
THEOREM PromptReadsDeliver == BlkSpec => []PromptReadDelivers
<1>1. BlkInv => PromptReadDelivers
  BY Zenon DEF BlkInv, PromptInv, PromptReadDelivers
<1> QED BY <1>1, BlkInvAlways, PTL

\* Between calls such a device has nothing of the driver's.
THEOREM NothingLeftBehind == BlkSpec => []Quiescent
<1>1. BlkInv => Quiescent
  BY Zenon DEF BlkInv, PromptInv, AtRest, Quiescent
<1> QED BY <1>1, BlkInvAlways, PTL
=============================================================================

----------------------------- MODULE Scheduler -----------------------------
(***************************************************************************)
(* The cooperative kernel-thread scheduler (core/scheduler.c), the main    *)
(* loop that drives it (core/kernel.c), the context switch                 *)
(* (boot/scheduler.asm) and the timer interrupt that preempts all of them  *)
(* between any two steps (core/timer.c, core/irq.c).                       *)
(*                                                                         *)
(* There is one processor and there are many contexts: the kernel context, *)
(* which runs the main loop, and one context per thread.  `cpu' says which *)
(* of them executes; `kpc' and `tpc[t]' say where each of them is.  A step *)
(* of the model is a stretch of code between two points at which a timer   *)
(* tick makes a difference: a tick reads scheduler_current_task_ptr and    *)
(* writes that task's slice_ticks and scheduler_reschedule_pending, so the *)
(* code is cut where it touches one of these.                              *)
(*                                                                         *)
(* Tasks are numbered by task_id.  The list is appended to and never       *)
(* shortened, so task_id is also the position in the list, the list is     *)
(* 0 .. scheduler_total_tasks - 1, and next_task_id equals total_tasks.    *)
(* Task 0 is the idle task, and stands for the kernel context in `cpu'.    *)
(* The pointers scheduler_task_list_head/tail and scheduler_ready are      *)
(* therefore constants here.  tick_counter and total_ticks are statistics  *)
(* that no code reads back, and are left out.                              *)
(***************************************************************************)
EXTENDS Integers

CONSTANTS
    MaxThreads,   \* bound: threads ever created (the heap bounds it in the code)
    Timeslice,    \* SCHEDULER_DEFAULT_TIMESLICE_TICKS (5 in the code)
    Word          \* the statistics are uint32_t and wrap: 2^32 in the code

ASSUME SchedulerAssumption ==
    /\ MaxThreads \in Nat
    /\ Timeslice \in Nat \ {0}
    /\ Word \in Nat \ {0}

Idle    == 0
Tasks   == 0 .. MaxThreads
Threads == 1 .. MaxThreads

Slices   == 0 .. (Timeslice - 1)
Counters == 0 .. (Word - 1)

States    == {"unborn", "ready", "running", "exited"}
KernelPCs == {"boot", "loop", "picked", "selected", "switch", "away",
              "rearm", "hlt"}
ThreadPCs == {"unborn", "entry", "body", "leave", "switch", "parked",
              "exitleave", "exitswitch", "halted"}

VARIABLES
    total_tasks,         \* scheduler_total_tasks (= scheduler_next_task_id)
    state,               \* task->state; "unborn" before the task exists
    slice_ticks,         \* task->slice_ticks
    guard,               \* the word at stack_base still is the guard magic
    dispatch_count,      \* task->dispatch_count
    yield_count,         \* task->yield_count
    exit_count,          \* task->exit_count
    current,             \* scheduler_current_task_ptr
    last,                \* scheduler_last_task_ptr
    reschedule_pending,  \* scheduler_reschedule_pending
    in_thread_context,   \* scheduler_in_thread_context
    total_dispatches,    \* scheduler_total_dispatches
    total_yields,        \* scheduler_total_yields
    next_task,           \* the local of scheduler_dispatch
    cpu,                 \* the executing context; Idle is the kernel context
    kpc,                 \* where the kernel context is
    tpc                  \* where each thread's context is

counts == <<dispatch_count, yield_count, exit_count, total_dispatches,
            total_yields>>
vars == <<total_tasks, state, slice_ticks, guard, counts, current, last,
          reschedule_pending, in_thread_context, next_task, cpu, kpc, tpc>>

Listed == 0 .. (total_tasks - 1)

\* scheduler_init: only the idle task is listed, and it never leaves READY.
\* Interrupts stay off until kernel_main reaches `sti'.
Init ==
    /\ total_tasks = 1
    /\ state = [t \in Tasks |-> IF t = Idle THEN "ready" ELSE "unborn"]
    /\ slice_ticks = [t \in Tasks |-> 0]
    /\ guard = [t \in Tasks |-> TRUE]
    /\ dispatch_count = [t \in Tasks |-> 0]
    /\ yield_count = [t \in Tasks |-> 0]
    /\ exit_count = [t \in Tasks |-> 0]
    /\ current = Idle
    /\ last = Idle
    /\ reschedule_pending = TRUE
    /\ in_thread_context = FALSE
    /\ total_dispatches = 0
    /\ total_yields = 0
    /\ next_task = Idle
    /\ cpu = Idle
    /\ kpc = "boot"
    /\ tpc = [t \in Tasks |-> "unborn"]

Inc(n) == (n + 1) % Word

-----------------------------------------------------------------------------
(* The timer interrupt, and the other interrupts. *)

\* An interrupt ends the kernel context's `hlt', if it is there.
WakeKernel == kpc' = IF cpu = Idle /\ kpc = "hlt" THEN "loop" ELSE kpc

\* irq0_handler_c -> timer_handle_tick -> scheduler_handle_tick.
HandleTick ==
    /\ kpc # "boot"
    /\ IF slice_ticks[current] + 1 >= Timeslice
       THEN /\ slice_ticks' = [slice_ticks EXCEPT ![current] = 0]
            /\ reschedule_pending' = TRUE
       ELSE /\ slice_ticks' = [slice_ticks EXCEPT ![current] = @ + 1]
            /\ UNCHANGED reschedule_pending
    /\ WakeKernel
    /\ UNCHANGED <<total_tasks, state, guard, counts, current, last,
                   in_thread_context, next_task, cpu, tpc>>

\* IRQ 1 and IRQ 12 leave the scheduler alone but end a `hlt'.
OtherIrq ==
    /\ cpu = Idle
    /\ kpc = "hlt"
    /\ WakeKernel
    /\ UNCHANGED <<total_tasks, state, slice_ticks, guard, counts, current,
                   last, reschedule_pending, in_thread_context, next_task,
                   cpu, tpc>>

-----------------------------------------------------------------------------
(* Thread creation. *)

\* scheduler_create_kernel_thread when both allocations succeed.  When one
\* fails the function returns with the scheduler's state as it was, which is
\* a stuttering step.  No interrupt handler looks at the list, so linking is
\* one step.
CreateKernelThread ==
    /\ \/ cpu = Idle /\ kpc = "boot"          \* kernel_main, interrupts off
       \/ cpu # Idle /\ tpc[cpu] = "body"     \* a thread's own code
    /\ total_tasks \in Threads
    /\ state' = [state EXCEPT ![total_tasks] = "ready"]
    /\ tpc' = [tpc EXCEPT ![total_tasks] = "entry"]
    /\ total_tasks' = total_tasks + 1
    /\ reschedule_pending' = TRUE
    /\ UNCHANGED <<slice_ticks, guard, counts, current, last,
                   in_thread_context, next_task, cpu, kpc>>

-----------------------------------------------------------------------------
(* The kernel context: kernel_main's loop and scheduler_dispatch. *)

\* `sti', then the loop.
StartLoop ==
    /\ cpu = Idle
    /\ kpc = "boot"
    /\ kpc' = "loop"
    /\ UNCHANGED <<total_tasks, state, slice_ticks, guard, counts, current,
                   last, reschedule_pending, in_thread_context, next_task,
                   cpu, tpc>>

HasReadyNonIdle == \E t \in Listed : t # Idle /\ state[t] = "ready"

\* Mutant: the walk starts at the head of the list every time.
MutRingAfterHead(k) == k % total_tasks

\* Position k of the walk that starts after scheduler_last_task_ptr and wraps
\* from the tail to the head.
RingAfter(k) == (last + k) % total_tasks

Pickable(t) ==
    /\ state[t] = "ready"
    /\ HasReadyNonIdle => t # Idle

\* Mutant: the walk stops one task short.
MutPickNextShort ==
    LET found == {k \in 1 .. (total_tasks - 1) : Pickable(RingAfter(k))}
    IN  IF found = {}
        THEN Idle
        ELSE RingAfter(CHOOSE k \in found : \A j \in found : k <= j)

\* scheduler_pick_next_task: the first pickable task of the walk, else idle.
PickNext ==
    LET found == {k \in 1 .. total_tasks : Pickable(RingAfter(k))}
    IN  IF found = {}
        THEN Idle
        ELSE RingAfter(CHOOSE k \in found : \A j \in found : k <= j)

\* The first test of scheduler_dispatch fails: go on to `hlt'.
DispatchSkip ==
    /\ cpu = Idle
    /\ kpc = "loop"
    /\ in_thread_context \/ ~reschedule_pending
    /\ kpc' = "hlt"
    /\ UNCHANGED <<total_tasks, state, slice_ticks, guard, counts, current,
                   last, reschedule_pending, in_thread_context, next_task,
                   cpu, tpc>>

\* The first test passes and the next task is picked.  From here to the
\* context switch a tick may come and set reschedule_pending, which the code
\* then clears.
DispatchPick ==
    /\ cpu = Idle
    /\ kpc = "loop"
    /\ ~in_thread_context
    /\ reschedule_pending
    /\ next_task' = PickNext
    /\ kpc' = "picked"
    /\ UNCHANGED <<total_tasks, state, slice_ticks, guard, counts, current,
                   last, reschedule_pending, in_thread_context, cpu, tpc>>

\* Nothing but the idle task is ready.
DispatchIdle ==
    /\ cpu = Idle
    /\ kpc = "picked"
    /\ next_task = Idle
    /\ current' = Idle
    /\ reschedule_pending' = FALSE
    /\ kpc' = "hlt"
    /\ UNCHANGED <<total_tasks, state, slice_ticks, guard, counts, last,
                   in_thread_context, next_task, cpu, tpc>>

\* scheduler_mark_task_corrupt on the picked task.
DispatchCorrupt ==
    /\ cpu = Idle
    /\ kpc = "picked"
    /\ next_task # Idle
    /\ ~guard[next_task]
    /\ state' = [state EXCEPT ![next_task] = "exited"]
    /\ reschedule_pending' = TRUE
    /\ kpc' = "hlt"
    /\ UNCHANGED <<total_tasks, slice_ticks, guard, counts, current, last,
                   in_thread_context, next_task, cpu, tpc>>

\* The stores up to total_dispatches++; a tick is now charged to next_task.
DispatchSelect ==
    /\ cpu = Idle
    /\ kpc = "picked"
    /\ next_task # Idle
    /\ guard[next_task]
    /\ last' = next_task
    /\ current' = next_task
    /\ state' = [state EXCEPT ![next_task] = "running"]
    /\ slice_ticks' = [slice_ticks EXCEPT ![next_task] = 0]
    /\ dispatch_count' = [dispatch_count EXCEPT ![next_task] = Inc(@)]
    /\ total_dispatches' = Inc(total_dispatches)
    /\ kpc' = "selected"
    /\ UNCHANGED <<total_tasks, guard, yield_count, exit_count, total_yields,
                   reschedule_pending, in_thread_context, next_task, cpu, tpc>>

DispatchClear ==
    /\ cpu = Idle
    /\ kpc = "selected"
    /\ reschedule_pending' = FALSE
    /\ in_thread_context' = TRUE
    /\ kpc' = "switch"
    /\ UNCHANGED <<total_tasks, state, slice_ticks, guard, counts, current,
                   last, next_task, cpu, tpc>>

\* scheduler_context_switch to the current task's saved context.
DispatchSwitch ==
    /\ cpu = Idle
    /\ kpc = "switch"
    /\ cpu' = current
    /\ kpc' = "away"
    /\ UNCHANGED <<total_tasks, state, slice_ticks, guard, counts, current,
                   last, reschedule_pending, in_thread_context, next_task, tpc>>

\* A thread has switched back to the kernel context.
DispatchReturn ==
    /\ cpu = Idle
    /\ kpc = "away"
    /\ in_thread_context' = FALSE
    /\ current' = Idle
    /\ kpc' = "rearm"
    /\ UNCHANGED <<total_tasks, state, slice_ticks, guard, counts, last,
                   reschedule_pending, next_task, cpu, tpc>>

DispatchRearm ==
    /\ cpu = Idle
    /\ kpc = "rearm"
    /\ reschedule_pending' = (HasReadyNonIdle \/ reschedule_pending)
    /\ kpc' = "hlt"
    /\ UNCHANGED <<total_tasks, state, slice_ticks, guard, counts, current,
                   last, in_thread_context, next_task, cpu, tpc>>

-----------------------------------------------------------------------------
(* A thread's context: scheduler_task_bootstrap, the thread's own code,    *)
(* scheduler_yield and scheduler_exit_current_task.  `task' in the code is *)
(* scheduler_current_task_ptr read at the call; CurrentIsExecuting below   *)
(* states that it is the thread t whose code makes the call.               *)

\* The first dispatch of a thread.  The idle task has no entry.
Bootstrap(t) ==
    /\ cpu = t
    /\ tpc[t] = "entry"
    /\ tpc' = [tpc EXCEPT ![t] = IF current = Idle THEN "halted" ELSE "body"]
    /\ UNCHANGED <<total_tasks, state, slice_ticks, guard, counts, current,
                   last, reschedule_pending, in_thread_context, next_task,
                   cpu, kpc>>

\* The thread, or an interrupt frame pushed on its stack, runs over the end of
\* the stack and overwrites the guard word.
OverrunStack(t) ==
    /\ cpu = t
    /\ guard[t]
    /\ guard' = [guard EXCEPT ![t] = FALSE]
    /\ UNCHANGED <<total_tasks, state, slice_ticks, counts, current, last,
                   reschedule_pending, in_thread_context, next_task, cpu,
                   kpc, tpc>>

\* Mutant: the exit is not counted.
MutExitUncounted(t) ==
    IF current = Idle
    THEN /\ tpc' = [tpc EXCEPT ![t] = "halted"]
         /\ UNCHANGED <<state, slice_ticks, exit_count, reschedule_pending>>
    ELSE /\ state' = [state EXCEPT ![current] = "exited"]
         /\ slice_ticks' = [slice_ticks EXCEPT ![current] = 0]
         /\ reschedule_pending' = TRUE
         /\ tpc' = [tpc EXCEPT ![t] = "exitleave"]
         /\ UNCHANGED exit_count

\* scheduler_exit_current_task up to its stores to the shared words; the idle
\* task cannot exit and halts instead.
ExitCurrentTask(t) ==
    IF current = Idle
    THEN /\ tpc' = [tpc EXCEPT ![t] = "halted"]
         /\ UNCHANGED <<state, slice_ticks, exit_count, reschedule_pending>>
    ELSE /\ state' = [state EXCEPT ![current] = "exited"]
         /\ slice_ticks' = [slice_ticks EXCEPT ![current] = 0]
         /\ exit_count' = [exit_count EXCEPT ![current] = Inc(@)]
         /\ reschedule_pending' = TRUE
         /\ tpc' = [tpc EXCEPT ![t] = "exitleave"]

\* The thread's entry function returns.
EntryReturns(t) ==
    /\ cpu = t
    /\ tpc[t] = "body"
    /\ ExitCurrentTask(t)
    /\ UNCHANGED <<total_tasks, guard, dispatch_count, yield_count,
                   total_dispatches, total_yields, current, last,
                   in_thread_context, next_task, cpu, kpc>>

\* scheduler_yield finds the guard overwritten: mark_task_corrupt, then exit.
YieldCorrupt(t) ==
    /\ cpu = t
    /\ tpc[t] = "body"
    /\ in_thread_context
    /\ current # Idle
    /\ ~guard[current]
    /\ ExitCurrentTask(t)
    /\ UNCHANGED <<total_tasks, guard, dispatch_count, yield_count,
                   total_dispatches, total_yields, current, last,
                   in_thread_context, next_task, cpu, kpc>>

\* Mutant: the yielding task keeps its RUNNING state.
MutYieldStaysRunning(t) ==
    /\ cpu = t
    /\ tpc[t] = "body"
    /\ in_thread_context
    /\ current # Idle
    /\ guard[current]
    /\ yield_count' = [yield_count EXCEPT ![current] = Inc(@)]
    /\ total_yields' = Inc(total_yields)
    /\ slice_ticks' = [slice_ticks EXCEPT ![current] = 0]
    /\ reschedule_pending' = TRUE
    /\ tpc' = [tpc EXCEPT ![t] = "leave"]
    /\ UNCHANGED <<total_tasks, state, guard, dispatch_count, exit_count,
                   total_dispatches, current, last, in_thread_context,
                   next_task, cpu, kpc>>

\* scheduler_yield up to reschedule_pending = 1.
Yield(t) ==
    /\ cpu = t
    /\ tpc[t] = "body"
    /\ in_thread_context
    /\ current # Idle
    /\ guard[current]
    /\ yield_count' = [yield_count EXCEPT ![current] = Inc(@)]
    /\ total_yields' = Inc(total_yields)
    /\ state' = [state EXCEPT ![current] = "ready"]
    /\ slice_ticks' = [slice_ticks EXCEPT ![current] = 0]
    /\ reschedule_pending' = TRUE
    /\ tpc' = [tpc EXCEPT ![t] = "leave"]
    /\ UNCHANGED <<total_tasks, guard, dispatch_count, exit_count,
                   total_dispatches, current, last, in_thread_context,
                   next_task, cpu, kpc>>

\* in_thread_context = 0 and current = idle, in yield and in exit.
LeaveThread(t) ==
    /\ cpu = t
    /\ tpc[t] \in {"leave", "exitleave"}
    /\ in_thread_context' = FALSE
    /\ current' = Idle
    /\ tpc' = [tpc EXCEPT ![t] = IF @ = "leave" THEN "switch" ELSE "exitswitch"]
    /\ UNCHANGED <<total_tasks, state, slice_ticks, guard, counts, last,
                   reschedule_pending, next_task, cpu, kpc>>

\* Mutant: an exiting thread halts without switching to the kernel context.
MutExitNeverSwitches(t) ==
    /\ cpu = t
    /\ tpc[t] = "switch"
    /\ cpu' = Idle
    /\ tpc' = [tpc EXCEPT ![t] = "parked"]
    /\ UNCHANGED <<total_tasks, state, slice_ticks, guard, counts, current,
                   last, reschedule_pending, in_thread_context, next_task, kpc>>

\* scheduler_context_switch to the kernel context.  What the saved context
\* does when it is resumed is the rest of scheduler_yield, or the endless
\* `hlt' that closes scheduler_exit_current_task.
SwitchToKernel(t) ==
    /\ cpu = t
    /\ tpc[t] \in {"switch", "exitswitch"}
    /\ cpu' = Idle
    /\ tpc' = [tpc EXCEPT ![t] = IF @ = "switch" THEN "parked" ELSE "halted"]
    /\ UNCHANGED <<total_tasks, state, slice_ticks, guard, counts, current,
                   last, reschedule_pending, in_thread_context, next_task, kpc>>

\* The end of scheduler_yield, after the thread is dispatched again.
ResumeFromYield(t) ==
    /\ cpu = t
    /\ tpc[t] = "parked"
    /\ in_thread_context' = TRUE
    /\ current' = t
    /\ state' = [state EXCEPT ![t] = IF @ = "exited" THEN @ ELSE "running"]
    /\ tpc' = [tpc EXCEPT ![t] = "body"]
    /\ UNCHANGED <<total_tasks, slice_ticks, guard, counts, last,
                   reschedule_pending, next_task, cpu, kpc>>

-----------------------------------------------------------------------------
Kernel ==
    \/ StartLoop \/ DispatchSkip \/ DispatchPick \/ DispatchIdle
    \/ DispatchCorrupt \/ DispatchSelect \/ DispatchClear \/ DispatchSwitch
    \/ DispatchReturn \/ DispatchRearm

\* What a thread does of itself: it goes on until it yields or returns.
ThreadSteps(t) ==
    \/ Bootstrap(t) \/ EntryReturns(t) \/ YieldCorrupt(t) \/ Yield(t)
    \/ LeaveThread(t) \/ SwitchToKernel(t) \/ ResumeFromYield(t)

Next ==
    \/ HandleTick
    \/ OtherIrq
    \/ CreateKernelThread
    \/ Kernel
    \/ \E t \in Threads : ThreadSteps(t) \/ OverrunStack(t)

Spec == Init /\ [][Next]_vars

\* The timer keeps ticking, the processor keeps executing, and every thread
\* sooner or later calls scheduler_yield or returns, as the two threads that
\* kernel_main creates do.
Fairness ==
    /\ WF_vars(HandleTick)
    /\ WF_vars(Kernel)
    /\ \A t \in Threads : WF_vars(ThreadSteps(t))

FairSpec == Spec /\ Fairness

-----------------------------------------------------------------------------
(* Properties. *)

\* Every variable has its type; a task's slice is always below the timeslice.
TypeOK ==
    /\ total_tasks \in 1 .. (MaxThreads + 1)
    /\ state \in [Tasks -> States]
    /\ slice_ticks \in [Tasks -> Slices]
    /\ guard \in [Tasks -> BOOLEAN]
    /\ dispatch_count \in [Tasks -> Counters]
    /\ yield_count \in [Tasks -> Counters]
    /\ exit_count \in [Tasks -> Counters]
    /\ current \in Tasks
    /\ last \in Tasks
    /\ reschedule_pending \in BOOLEAN
    /\ in_thread_context \in BOOLEAN
    /\ total_dispatches \in Counters
    /\ total_yields \in Counters
    /\ next_task \in Tasks
    /\ cpu \in Tasks
    /\ kpc \in KernelPCs
    /\ tpc \in [Tasks -> ThreadPCs]

\* While a thread's own code executes, scheduler_current_task_ptr is that
\* thread, it is RUNNING, in_thread_context is set and no other task is
\* RUNNING.  scheduler_yield, scheduler_exit_current_task and
\* scheduler_task_bootstrap act on scheduler_current_task_ptr and are right
\* only because of this.
CurrentIsExecuting ==
    \A t \in Threads :
        cpu = t /\ tpc[t] \in {"entry", "body"} =>
            /\ current = t
            /\ in_thread_context
            /\ \A u \in Threads : state[u] = "running" <=> u = t

\* A task that is READY is never forgotten: whenever the kernel context is
\* outside scheduler_dispatch and a thread is READY, a reschedule is pending,
\* although dispatch clears the request after it picks and a tick's request
\* in between is overwritten.
NoForgottenTask ==
    cpu = Idle /\ kpc \in {"boot", "loop", "hlt"} =>
        \A t \in Threads : state[t] = "ready" => reschedule_pending

\* The processor never executes the endless `hlt' of scheduler_exit_current_task:
\* neither by exiting with the idle task current nor by dispatching an exited
\* thread.  The machine would be lost, since the kernel context is parked.
NeverStuckInExit == \A t \in Threads : cpu = t => tpc[t] # "halted"

\* Every dispatch of a thread is matched by one yield or one exit, or the
\* thread is still RUNNING; a thread killed by the guard check of
\* scheduler_dispatch matches nothing.  (uint32_t counters, hence modulo Word.)
DispatchesMatched ==
    \A t \in Threads :
        dispatch_count[t] = (yield_count[t] + exit_count[t]
                               + IF state[t] = "running" THEN 1 ELSE 0) % Word

\* A thread whose guard word was found overwritten, or whose entry returned,
\* stays EXITED, and is not dispatched again.
ExitedIsFinal ==
    [][\A t \in Threads : state[t] = "exited" =>
          /\ state'[t] = "exited"
          /\ dispatch_count'[t] = dispatch_count[t]
          /\ cpu # t => cpu' # t]_vars

\* The kernel context always gets the processor back, so the main loop goes on
\* draining input.
KernelComesBack == []<>(cpu = Idle /\ kpc = "loop")

Abs == INSTANCE CoopThreads WITH tstate <- [t \in Threads |-> state[t]]

\* Seen from outside, with the steps of dispatch, yield and exit and the
\* interrupts between them, threads live as CoopThreads says.
ImplementsCoopThreads == Abs!Spec

\* Under the fairness that the main loop, the timer and yielding threads give,
\* also with CoopThreads' promise of a turn: round robin never passes a READY
\* thread over for ever, while threads appear, exit and are killed.
ImplementsFairly == Abs!FairSpec
=============================================================================

------------------------------- MODULE Tasks -------------------------------
(***************************************************************************)
(* Task switching: the interrupt entry and exit code of arch/intr.S, the   *)
(* timer-driven round-robin of core/tasks.c, and what core/process.c does  *)
(* with it (cosecd_setup, run_init, sys_exit).                             *)
(*                                                                         *)
(* There is one CPU.  The kernel thread cosecd runs the shell with         *)
(* interrupts on; a user process runs in ring 3 and enters the kernel by   *)
(* interrupt gates, so its system calls run with interrupts off, except    *)
(* that dev_tty_read turns them on and waits.  What runs with interrupts   *)
(* off is one step.                                                        *)
(*                                                                         *)
(* A kernel stack is the sequence of its live interrupt frames.  A frame   *)
(* is known by its depth, counted in frames from the top of the stack; the *)
(* C functions between two frames count as part of the lower one.          *)
(***************************************************************************)
EXTENDS Integers, FiniteSets, SequencesExt

CONSTANTS
    cosecd,         \* the kernel thread, theCosecThread
    Users,          \* user processes (the kernel has theInitProcess)
    Readers,        \* the users that read from their tty
    NoTask,         \* the null task pointer, and the null stack pointer
    Rerun,          \* may the shell run a process that is already in the ring?
    MaxInits,       \* bound: run_init calls
    StackUnits,     \* bound: frames a user's kernel stack is followed for
    KernDepth       \* bound: depths at which cosecd is interrupted

Tasks == {cosecd} \union Users

ASSUME TasksAssumption ==
    /\ cosecd \notin Users /\ Readers \subseteq Users /\ NoTask \notin Tasks
    /\ Rerun \in BOOLEAN
    /\ MaxInits \in Nat /\ StackUnits \in Nat /\ KernDepth \in Nat \ {0}

VARIABLES
    next,           \* task->next
    state,          \* task->state
    theCurrentTask,
    esp0,           \* task->tss.esp0, as a depth
    cr3,            \* is task->tss.cr3 a page directory?
    frames,         \* the live frames of the task's kernel stack, the top last
    switch_to_esp,  \* <<task, depth>> or NoTask (arch/intr.S)
    creating,       \* the process run_init is setting up, or NoTask
    inits,          \* run_init calls so far
    lost            \* a return from interrupt popped something else than a frame

vars == <<next, state, theCurrentTask, esp0, cr3, frames, switch_to_esp,
          creating, inits, lost>>

Frame(at, kind) == [at |-> at, kind |-> kind]

Context(t) == <<t, Last(frames[t]).at>>

-----------------------------------------------------------------------------
(* The scheduler *)

\* What the CPU does after it has popped a wrong frame, or without a page
\* directory, is not modelled.
Running == ~lost /\ cr3[theCurrentTask]

\* The task n steps down the ring from t.
Ahead(t, n) == LET walk[i \in 0 .. n] == IF i = 0 THEN t ELSE next[walk[i - 1]]
               IN  walk[n]

RingSize == Cardinality(Tasks)

\* Where the loop of the_scheduler stops: at a task that is ready, or back at
\* the current one.
Stops(n) ==
    \/ state[Ahead(theCurrentTask, n)] = "READY"
    \/ Ahead(theCurrentTask, n) = theCurrentTask


the_scheduler ==
    LET n == CHOOSE i \in 1 .. RingSize :
                 Stops(i) /\ \A j \in 1 .. i - 1 : ~Stops(j)
        t == Ahead(theCurrentTask, n)
    IN  IF t = theCurrentTask THEN NoTask ELSE t

-----------------------------------------------------------------------------
(* Interrupts *)

InUser(t) == t \in Users /\ frames[t] = << >>
InRead(t) == frames[t] # << >> /\ Last(frames[t]).kind = "syscall"

\* Where the CPU can push a frame on the running task's kernel stack: below
\* tss.esp0 when it comes from ring 3, otherwise below what is there.
EntryDepths ==
    IF theCurrentTask = cosecd THEN 1 .. KernDepth
    ELSE IF InUser(theCurrentTask) THEN {esp0[theCurrentTask] + 1}
    ELSE {Last(frames[theCurrentTask]).at + 1}

\* INTR_PROLOG and INTR_END around a handler that does not switch tasks: the
\* frame is pushed and popped, and switch_to_esp is left 0.
NoSwitch == switch_to_esp' = NoTask /\ UNCHANGED <<theCurrentTask, esp0, frames>>

\* Mutants: esp0 is left at the context instead of above it; the frame the
\* next task continues from is not popped.
SwitchTo_AtContext(t, d) ==
    LET c == theCurrentTask
    IN  /\ esp0' = [esp0 EXCEPT ![c] = d]
        /\ switch_to_esp' = <<t, esp0[t] + 1>>
        /\ lost' = (Context(t) # <<t, esp0[t] + 1>>)
        /\ frames' = [frames EXCEPT ![c] = Append(@, Frame(d, "irq")),
                                    ![t] = Front(@)]
        /\ theCurrentTask' = t

SwitchTo_NoPop(t, d) ==
    LET c == theCurrentTask
    IN  /\ esp0' = [esp0 EXCEPT ![c] = d - 1]
        /\ switch_to_esp' = <<t, esp0[t] + 1>>
        /\ lost' = (Context(t) # <<t, esp0[t] + 1>>)
        /\ frames' = [frames EXCEPT ![c] = Append(@, Frame(d, "irq"))]
        /\ theCurrentTask' = t

\* task_timer_handler once the scheduler has chosen t, and the INTR_END that
\* follows: the context at depth d is the current task's, esp0 is put above
\* it, and the CPU continues with the context that lies below t's esp0.
\* switch_to_esp is not cleared.
SwitchTo(t, d) ==
    LET c == theCurrentTask
    IN  /\ esp0' = [esp0 EXCEPT ![c] = d - 1]
        /\ switch_to_esp' = <<t, esp0[t] + 1>>
        /\ lost' = (Context(t) # <<t, esp0[t] + 1>>)
        /\ frames' = [frames EXCEPT ![c] = Append(@, Frame(d, "irq")),
                                    ![t] = Front(@)]
        /\ theCurrentTask' = t

task_timer_handler(d) ==
    IF the_scheduler = NoTask THEN NoSwitch /\ UNCHANGED lost
                              ELSE SwitchTo(the_scheduler, d)

\* IRQ 0
timer_irq ==
    /\ Running
    /\ \E d \in EntryDepths : task_timer_handler(d)
    /\ UNCHANGED <<next, state, cr3, creating, inits>>

\* Any other IRQ, or a system call that does not wait.
OtherInterrupt ==
    /\ Running
    /\ NoSwitch
    /\ UNCHANGED <<next, state, cr3, creating, inits, lost>>

\* A reader enters sys_read and dev_tty_read turns interrupts on.
sys_read ==
    /\ Running
    /\ theCurrentTask \in Readers /\ InUser(theCurrentTask)
    /\ esp0[theCurrentTask] + 2 <= StackUnits
    /\ frames' = [frames EXCEPT ![theCurrentTask] =
                    << Frame(esp0[theCurrentTask] + 1, "syscall") >>]
    /\ switch_to_esp' = NoTask
    /\ UNCHANGED <<next, state, theCurrentTask, esp0, cr3, creating, inits, lost>>

\* The system call returns through INTR_END, which takes its stack pointer
\* from switch_to_esp if that is not 0.
sys_read_return ==
    /\ Running
    /\ InRead(theCurrentTask)
    /\ frames' = [frames EXCEPT ![theCurrentTask] = Front(@)]
    /\ lost' = (switch_to_esp \notin {NoTask, Context(theCurrentTask)})
    /\ UNCHANGED <<next, state, theCurrentTask, esp0, cr3, switch_to_esp,
                   creating, inits>>

\* Without another ready task the call returns and the process runs on.
sys_exit ==
    /\ Running
    /\ InUser(theCurrentTask)
    /\ state' = [state EXCEPT ![theCurrentTask] = "EXITED"]
    /\ task_timer_handler(esp0[theCurrentTask] + 1)
    /\ UNCHANGED <<next, cr3, creating, inits>>

-----------------------------------------------------------------------------
(* Processes *)


\* The shell's init command: task_init clears the TSS, cr3 included, and
\* builds a frame on a new kernel stack.
task_init(u) ==
    /\ Running
    /\ theCurrentTask = cosecd /\ creating = NoTask
    /\ inits < MaxInits
    /\ Rerun \/ next[u] = NoTask
    /\ esp0' = [esp0 EXCEPT ![u] = 0]
    /\ frames' = [frames EXCEPT ![u] = << Frame(1, "irq") >>]
    /\ cr3' = [cr3 EXCEPT ![u] = FALSE]
    /\ state' = [state EXCEPT ![u] = "READY"]
    /\ creating' = u
    /\ inits' = inits + 1
    /\ UNCHANGED <<next, theCurrentTask, switch_to_esp, lost>>

\* Mutant: the new task's successor is the current task.
sched_add_task_Pair(u) ==
    next' = [next EXCEPT ![u] = theCurrentTask, ![theCurrentTask] = u]

sched_add_task(u) ==
    next' = [next EXCEPT ![u] = next[theCurrentTask], ![theCurrentTask] = u]

\* The rest of run_init.
run_init_adds ==
    /\ Running
    /\ theCurrentTask = cosecd /\ creating # NoTask
    /\ cr3' = [cr3 EXCEPT ![creating] = TRUE]
    /\ sched_add_task(creating)
    /\ creating' = NoTask
    /\ UNCHANGED <<state, theCurrentTask, esp0, frames, switch_to_esp, inits, lost>>

\* cosecd_setup and tasks_setup
Init ==
    /\ next = [t \in Tasks |-> IF t = cosecd THEN cosecd ELSE NoTask]
    /\ state = [t \in Tasks |-> "READY"]
    /\ theCurrentTask = cosecd
    /\ esp0 = [t \in Tasks |-> 0]
    /\ cr3 = [t \in Tasks |-> t = cosecd]
    /\ frames = [t \in Tasks |-> << >>]
    /\ switch_to_esp = NoTask
    /\ creating = NoTask
    /\ inits = 0
    /\ lost = FALSE

Next ==
    \/ timer_irq
    \/ OtherInterrupt
    \/ sys_read
    \/ sys_read_return
    \/ sys_exit
    \/ \E u \in Users : task_init(u)
    \/ run_init_adds

Spec == Init /\ [][Next]_vars

\* The interval timer keeps ticking, and interrupts are on in ring 3 and in
\* the kernel thread.
FairSpec == Spec /\ WF_vars(timer_irq)
-----------------------------------------------------------------------------
(* Properties *)

Linked == {t \in Tasks : next[t] # NoTask}

\* Depths are natural numbers, pointers are tasks or null, and a stack holds at
\* most a system call's frame with an interrupt's frame below it.
TypeOK ==
    /\ next \in [Tasks -> Tasks \union {NoTask}]
    /\ state \in [Tasks -> {"READY", "EXITED"}]
    /\ theCurrentTask \in Tasks
    /\ esp0 \in [Tasks -> Nat]
    /\ cr3 \in [Tasks -> BOOLEAN]
    /\ \A t \in Tasks :
         /\ Len(frames[t]) <= 2
         /\ \A i \in 1 .. Len(frames[t]) : frames[t][i].at \in Nat \ {0}
         /\ Len(frames[t]) = 2 => frames[t][1].kind = "syscall"
    /\ switch_to_esp = NoTask \/ switch_to_esp \in Tasks \X Nat
    /\ creating \in Users \union {NoTask}
    /\ inits \in 0 .. MaxInits
    /\ lost \in BOOLEAN

\* The tasks that have been added form one ring: from each of them the
\* scheduler's walk, which runs inside the timer interrupt, comes to each
\* other one and so ends.
OneRing ==
    \A a, b \in Linked : \E n \in 1 .. RingSize : Ahead(a, n) = b

\* What task_push_context would switch to is there: for every task of the
\* ring but the running one, the context below tss.esp0 is the top live frame
\* of its kernel stack, also when it was preempted inside a system call.
SavedContextIsLive ==
    \A t \in Linked \ {theCurrentTask} :
        frames[t] # << >> /\ Context(t) = <<t, esp0[t] + 1>>



\* Unless the CPU is lost, a task that stays ready in the ring is run by the
\* scheduler again and again.
NoStarvation ==
    \A t \in Tasks :
        []Running =>
            []<>(theCurrentTask = t \/ next[t] = NoTask \/ state[t] # "READY")

\* The message on tty1 (process.c:396) says one can go back to the shell on
\* tty0: unless the CPU is lost, the shell's thread keeps getting it.
ShellKeepsRunning == []Running => []<>(theCurrentTask = cosecd)

\* intr.S:13, the stack state during an interrupt: what a return from an
\* interrupt or a system call pops is a frame of the running task that the
\* entry code built and that is still on the stack.
ReturnsPopFrames == ~lost
=============================================================================

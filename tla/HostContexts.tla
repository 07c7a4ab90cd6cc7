--------------------------- MODULE HostContexts ---------------------------
(***************************************************************************)
(* HostContext: the fibers of the guest's scheduler, confined to the host  *)
(* thread that initialised it (host_context_ps5.cpp, context_x86_64.S).    *)
(* Any thread may call any function at any time; what a call does once it  *)
(* is past OnSchedulerThread() is a step, for other threads see no more    *)
(* than the owner.  Only Create() is in two steps, which separate the      *)
(* mapping from its guard page.                                            *)
(*                                                                         *)
(* Handles are those of contexts that exist: a caller forgets a context    *)
(* it destroys.  The kernel may give a later context the same memory.  Of  *)
(* the registers a switch saves, the model keeps the floating-point        *)
(* control word.  Two threads do not initialise at once; unmapping         *)
(* succeeds; the profiling variant is left out.                            *)
(***************************************************************************)
EXTENDS Integers, FiniteSets

CONSTANTS Fiber,       \* mappings a context can live in
          HostThread,  \* threads, each on a stack of its own
          Mode,        \* floating-point control words
          Scheduler,   \* &schedulerContext
          Nobody

ASSUME HostAssumption ==
    /\ Mode # {}
    /\ Scheduler \notin Fiber /\ Fiber \cap HostThread = {}
    /\ Nobody \notin Fiber \cup HostThread \cup {Scheduler}

VARIABLES
    owner,     \* ownerThread
    current,   \* current
    workers,   \* workerCount
    mapped,    \* mappings in place
    contexts,  \* the workers that exist
    finished,  \* contexts whose `finished` is set
    saved,     \* the frame each context's savedSp points to
    cpu,       \* what each thread executes: a stack, a control word, a step
    modes      \* history: the control word the code of each stack relies on

hostVars == <<owner, current, workers, mapped, contexts, finished, saved, cpu, modes>>

Context == Fiber \cup {Scheduler}
Stack == Fiber \cup HostThread

NoFrame == [stack |-> Nobody, back |-> "none", source |-> Nobody, mode |-> Nobody]

HostInit ==
    LET m == CHOOSE m \in Mode : TRUE IN
    /\ owner = Nobody /\ current = Nobody /\ workers = 0
    /\ mapped = {} /\ contexts = {} /\ finished = {}
    /\ saved = [c \in Context |-> NoFrame]
    /\ cpu = [t \in HostThread |-> [stack |-> t, mode |-> m, at |-> "code", new |-> Nobody]]
    /\ modes = [s \in Stack |-> m]

\* Slip: any thread passes once there is a scheduler.
InitialisedOnly(t) == owner # Nobody

OnSchedulerThread(t) == owner = t

\* Code on thread t may call.
Calling(t) == cpu[t].at = "code" /\ OnSchedulerThread(t)

InitializeScheduler(t) ==
    /\ cpu[t].at = "code" /\ owner = Nobody
    /\ owner' = t /\ current' = Scheduler
    /\ saved' = [saved EXCEPT ![Scheduler] = NoFrame]
    /\ finished' = finished \ {Scheduler}
    /\ UNCHANGED <<workers, mapped, contexts, cpu, modes>>

ShutdownScheduler(t) ==
    /\ Calling(t)
    /\ current = Scheduler /\ workers = 0
    /\ current' = Nobody /\ owner' = Nobody
    /\ UNCHANGED <<workers, mapped, contexts, finished, saved, cpu, modes>>

\* The backing and the addresses go together.
Release(c) == mapped' = mapped \ {c}

\* Create(): the kernel maps the guard, the stack and the record, or refuses.
CreateMaps(t, c) ==
    /\ Calling(t) /\ c \notin mapped
    /\ mapped' = mapped \cup {c}
    /\ cpu' = [cpu EXCEPT ![t].at = "guard", ![t].new = c]
    /\ UNCHANGED <<owner, current, workers, contexts, finished, saved, modes>>

\* mkw_ps5_context_init(): a frame that starts Enter, with the control word of
\* the code that calls.
InitialFrame(t, c) == [stack |-> c, back |-> "enter", source |-> c, mode |-> cpu[t].mode]

CreateEnds(t) ==
    LET c == cpu[t].new
    IN  /\ cpu[t].at = "guard"
        /\ \/ /\ saved' = [saved EXCEPT ![c] = InitialFrame(t, c)]
              /\ finished' = finished \ {c}
              /\ modes' = [modes EXCEPT ![c] = cpu[t].mode]
              /\ contexts' = contexts \cup {c} /\ workers' = workers + 1
              /\ UNCHANGED mapped
           \/ /\ Release(c)  \* no guard page
              /\ UNCHANGED <<saved, finished, modes, contexts, workers>>
        /\ cpu' = [cpu EXCEPT ![t].at = "code", ![t].new = Nobody]
        /\ UNCHANGED <<owner, current>>

Destroy(t, c) ==
    /\ Calling(t) /\ c \in contexts /\ c # current
    /\ workers' = workers - 1
    /\ Release(c) /\ contexts' = contexts \ {c}
    /\ saved' = [saved EXCEPT ![c] = NoFrame] /\ finished' = finished \ {c}
    /\ UNCHANGED <<owner, current, cpu, modes>>

\* mkw_ps5_context_switch(): the caller's registers and place go to its stack,
\* those of c come from c's; then `current` is what the code that c left says.
SwitchStacks(t, from, frame, c) ==
    LET to == saved[c]
    IN  /\ saved' = [saved EXCEPT ![from] = frame]
        /\ cpu' = [cpu EXCEPT ![t] = [stack |-> to.stack, mode |-> to.mode, new |-> Nobody,
                                      at |-> IF to.back = "trap" THEN "trapped" ELSE "code"]]
        /\ current' = IF to.back = "switch" THEN to.source ELSE c

Frame(t, back) == [stack |-> cpu[t].stack, back |-> back, source |-> current, mode |-> cpu[t].mode]

Switch(t, c) ==
    /\ Calling(t) /\ c \in contexts \cup {Scheduler}
    /\ c # current /\ c \notin finished
    /\ SwitchStacks(t, current, Frame(t, "switch"), c)
    /\ UNCHANGED <<owner, workers, mapped, contexts, finished, modes>>

\* Enter(): the entry returns, and the scheduler resumes.
EntryReturns(t) ==
    LET c == cpu[t].stack
    IN  /\ cpu[t].at = "code" /\ c \in Fiber
        /\ finished' = finished \cup {c}
        /\ SwitchStacks(t, c, Frame(t, "trap"), Scheduler)
        /\ UNCHANGED <<owner, workers, mapped, contexts, modes>>

\* The code that runs loads a control word.
LoadMode(t, m) ==
    /\ cpu[t].at = "code"
    /\ cpu' = [cpu EXCEPT ![t].mode = m]
    /\ modes' = [modes EXCEPT ![cpu[t].stack] = m]
    /\ UNCHANGED <<owner, current, workers, mapped, contexts, finished, saved>>

HostNext ==
    \E t \in HostThread :
        \/ InitializeScheduler(t) \/ ShutdownScheduler(t)
        \/ CreateEnds(t) \/ EntryReturns(t)
        \/ \E c \in Fiber : CreateMaps(t, c) \/ Destroy(t, c)
        \/ \E c \in Context : Switch(t, c)
        \/ \E m \in Mode : LoadMode(t, m)

HostSpec == HostInit /\ [][HostNext]_hostVars

-----------------------------------------------------------------------------
\* The context whose code thread t runs.
Running(t) == IF cpu[t].stack = t THEN Scheduler ELSE cpu[t].stack

\* Whatever the order of switches, ends and destructions: no two threads share a
\* stack, none runs on a stack that is gone or whose entry has returned, code
\* resumes with the control word it left, `current` names it, and a scheduler
\* that is shut down leaves no mapping behind.
ContextsSound ==
    /\ \A t \in HostThread :
        /\ cpu[t].stack # t => owner = t /\ cpu[t].stack \in contexts \ finished
        /\ cpu[t].at # "trapped"
        /\ cpu[t].mode = modes[cpu[t].stack]
    /\ owner # Nobody => current = Running(owner)
    /\ mapped = contexts \cup ({cpu[t].new : t \in HostThread} \ {Nobody})
    /\ owner = Nobody => mapped = {}
=============================================================================

--------------------------- MODULE CmParallelFTL ---------------------------
(***************************************************************************)
(* FTLight/CmStringFTL.cpp:66-190, CmParallelFTL: an object whose function *)
(* runParallel() runs in a thread of its own.  The owner of the object     *)
(* calls startParallel() and stopParallel(); owner and threads share the   *)
(* handle and three flags without a lock.                                  *)
(*                                                                         *)
(* Each step makes one access to the shared variables, or several that no  *)
(* other thread can tell apart from one.  runParallel() is the derived     *)
(* class's: it returns true or false, or blocks for ever (accept(), recv() *)
(* in CmGatewayLAN.cpp), so its return has no fairness.                    *)
(***************************************************************************)
EXTENDS Integers, Sequences

CONSTANTS
    MaxStarts,     \* bound on the calls of startParallel()
    WaitSteps,     \* _Timeout_ms / _WaitStep of stopParallel()
    LoopCounts,    \* values of _LoopCount; 0 means without end
    Overlaps       \* whether a thread is also started while a former one lives

ASSUME ParallelAssumption ==
    /\ MaxStarts \in Nat /\ WaitSteps \in Nat \ {0}
    /\ LoopCounts \subseteq Nat /\ Overlaps \in BOOLEAN

VARIABLES
    handle,             \* ThreadHandle: 0, or the number of a thread
    loopCount,
    isThreadShutdown,
    isThreadFinished,
    isThreadPending,
    threads,            \* the threads in the order of their creation
    owner,              \* where the owner is: "idle" outside of both calls
    waited              \* Sleep() calls of the stopParallel() that runs

flags == <<isThreadShutdown, isThreadFinished, isThreadPending>>
vars  == <<handle, loopCount, flags, threads, owner, waited>>

Thread == DOMAIN threads

\* The OS reports 'STILL_ACTIVE' until StaticThreadStart() has returned.
isStillActive(t) == threads[t].at # "exited"

\* The two reads of isRunningParallel(): handle with exit code, then the flags.
hasActiveHandle == handle # 0 /\ isStillActive(handle)
hasLeftFunction == isThreadFinished \/ isThreadPending

\* Nothing initialises the flags that the thread sets itself.
Init ==
    /\ handle = 0
    /\ loopCount \in LoopCounts
    /\ isThreadShutdown = FALSE
    /\ isThreadFinished \in BOOLEAN
    /\ isThreadPending \in BOOLEAN
    /\ threads = <<>>
    /\ owner = "idle"
    /\ waited = 0

-----------------------------------------------------------------------------
(* The owner *)

\* startParallel() up to CreateThread().
StartParallel ==
    /\ owner = "idle"
    /\ Len(threads) < MaxStarts
    /\ Overlaps \/ \A t \in Thread : ~isStillActive(t)
    /\ loopCount' \in LoopCounts
    /\ isThreadShutdown' = FALSE
    /\ owner' = "create"
    /\ UNCHANGED <<handle, isThreadFinished, isThreadPending, threads, waited>>

\* The new thread may run before its handle is stored.
CreateThread ==
    /\ owner = "create"
    /\ threads' = Append(threads, [at |-> "begin", isEndless |-> FALSE, i |-> 0])
    /\ owner' = "store"
    /\ UNCHANGED <<handle, loopCount, flags, waited>>

StoreHandle ==
    /\ owner = "store"
    /\ handle' = Len(threads)
    /\ owner' = "idle"
    /\ UNCHANGED <<loopCount, flags, threads, waited>>

StopParallel ==
    /\ owner = "idle"
    /\ handle # 0
    /\ isThreadShutdown' = TRUE
    /\ owner' = IF isThreadPending THEN "ask" ELSE "wait"
    /\ waited' = 0
    /\ UNCHANGED <<handle, loopCount, isThreadFinished, isThreadPending, threads>>

\* Fault: one step too many.
WaitTooLong ==
    /\ owner = "wait"
    /\ waited' = waited + 1
    /\ owner' = IF isThreadFinished \/ waited = WaitSteps THEN "ask" ELSE "wait"
    /\ UNCHANGED <<handle, loopCount, flags, threads>>

\* One turn of the wait loop: Sleep(), then a look at the flag.
Wait ==
    /\ owner = "wait"
    /\ waited' = waited + 1
    /\ owner' = IF isThreadFinished \/ waited' = WaitSteps THEN "ask" ELSE "wait"
    /\ UNCHANGED <<handle, loopCount, flags, threads>>

AskHandle ==
    /\ owner = "ask"
    /\ owner' = IF hasActiveHandle THEN "askFlags" ELSE "close"
    /\ UNCHANGED <<handle, loopCount, flags, threads, waited>>

\* Fault: the thread is given up after the timeout.
AskFlagsInVain ==
    /\ owner = "askFlags"
    /\ owner' = "close"
    /\ UNCHANGED <<handle, loopCount, flags, threads, waited>>

\* A thread that still runs keeps its handle, and stopParallel() returns false.
AskFlags ==
    /\ owner = "askFlags"
    /\ owner' = IF hasLeftFunction THEN "close" ELSE "idle"
    /\ UNCHANGED <<handle, loopCount, flags, threads, waited>>

CloseThread ==
    /\ owner = "close"
    /\ handle' = 0
    /\ owner' = "idle"
    /\ UNCHANGED <<loopCount, flags, threads, waited>>

Owner ==
    \/ CreateThread \/ StoreHandle
    \/ Wait \/ AskHandle \/ AskFlags \/ CloseThread

-----------------------------------------------------------------------------
(* A thread, StaticThreadStart() *)

At(t, place) == threads[t].at = place
GoTo(t, place) == threads' = [threads EXCEPT ![t].at = place]

Begin(t) ==
    /\ At(t, "begin")
    /\ isThreadFinished' = FALSE
    /\ isThreadPending' = FALSE
    /\ threads' = [threads EXCEPT ![t].at = "loop", ![t].isEndless = (loopCount <= 0)]
    /\ UNCHANGED <<handle, loopCount, isThreadShutdown, owner, waited>>

\* Fault: the shutdown flag is not read.
LoopDeaf(t) ==
    /\ At(t, "loop")
    /\ GoTo(t, IF ~threads[t].isEndless /\ threads[t].i >= loopCount THEN "end" ELSE "check")
    /\ UNCHANGED <<handle, loopCount, flags, owner, waited>>

\* The head of the loop.
Loop(t) ==
    /\ At(t, "loop")
    /\ GoTo(t, IF \/ ~threads[t].isEndless /\ threads[t].i >= loopCount
                  \/ isThreadShutdown
               THEN "end" ELSE "check")
    /\ UNCHANGED <<handle, loopCount, flags, owner, waited>>

\* isRunningParallel(), asked by the thread itself.
CheckHandle(t) ==
    /\ At(t, "check")
    /\ GoTo(t, IF hasActiveHandle THEN "checkFlags" ELSE "end")
    /\ UNCHANGED <<handle, loopCount, flags, owner, waited>>

CheckFlags(t) ==
    /\ At(t, "checkFlags")
    /\ GoTo(t, IF hasLeftFunction THEN "end" ELSE "run")
    /\ UNCHANGED <<handle, loopCount, flags, owner, waited>>

RunParallel(t) ==
    /\ At(t, "run")
    /\ \/ threads' = [threads EXCEPT ![t].at = "loop",
                                     ![t].i = IF threads[t].isEndless THEN @ ELSE @ + 1]
       \/ GoTo(t, "fail")
    /\ UNCHANGED <<handle, loopCount, flags, owner, waited>>

Fail(t) ==
    /\ At(t, "fail")
    /\ isThreadPending' = TRUE
    /\ GoTo(t, "return")
    /\ UNCHANGED <<handle, loopCount, isThreadShutdown, isThreadFinished, owner, waited>>

End(t) ==
    /\ At(t, "end")
    /\ isThreadFinished' = TRUE
    /\ GoTo(t, "return")
    /\ UNCHANGED <<handle, loopCount, isThreadShutdown, isThreadPending, owner, waited>>

Return(t) ==
    /\ At(t, "return")
    /\ GoTo(t, "exited")
    /\ UNCHANGED <<handle, loopCount, flags, owner, waited>>

StaticThreadStart(t) ==
    \/ Begin(t) \/ Loop(t) \/ CheckHandle(t) \/ CheckFlags(t)
    \/ Fail(t) \/ End(t) \/ Return(t)

-----------------------------------------------------------------------------
Next ==
    \/ StartParallel \/ StopParallel \/ Owner
    \/ \E t \in Thread : StaticThreadStart(t) \/ RunParallel(t)

\* Calls go on until they return, and the OS runs every thread.
Spec ==
    /\ Init /\ [][Next]_vars
    /\ WF_vars(Owner)
    /\ \A t \in 1 .. MaxStarts : WF_vars(t \in Thread /\ StaticThreadStart(t))

-----------------------------------------------------------------------------
(* Properties *)

Place == {"begin", "loop", "check", "checkFlags", "run", "fail", "end", "return", "exited"}

\* Every variable has its type; the wait loop of stopParallel() stays within
\* its timeout and no counted loop goes past the largest count.
TypeOK ==
    /\ handle \in Thread \cup {0}
    /\ loopCount \in LoopCounts
    /\ flags \in BOOLEAN \X BOOLEAN \X BOOLEAN
    /\ \A t \in Thread : /\ threads[t].at \in Place /\ threads[t].isEndless \in BOOLEAN
                         /\ threads[t].i \in Nat
    /\ owner \in {"idle", "create", "store", "wait", "ask", "askFlags", "close"}
    /\ waited \in 0 .. WaitSteps

\* A thread inside runParallel() is the one whose handle its object holds: a
\* stopParallel() that has returned true leaves nobody at work, whatever the
\* flags held before the thread began and wherever it is stopped.
WorkerHasHandle == \A t \in Thread : At(t, "run") => handle = t

\* A thread that is told to go down, and is not started again, leaves
\* StaticThreadStart() unless its own runParallel() blocks.
GoesDown ==
    <>[]isThreadShutdown =>
        \A t \in 1 .. MaxStarts :
            \/ <>[](t \in Thread => At(t, "exited"))
            \/ <>[](t \in Thread /\ At(t, "run"))
=============================================================================

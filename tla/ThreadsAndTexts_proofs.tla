----------------------- MODULE ThreadsAndTexts_proofs -----------------------
(***************************************************************************)
(* Four services that the others stand on.                                 *)
(*                                                                         *)
(* Threads: a thread at work is always the one whose handle its object     *)
(* holds, for every number of starts, every timeout and every loop count,  *)
(* as long as no thread is started while a former one lives.               *)
(*                                                                         *)
(* Texts: the memory of texts is booked right for every number of texts    *)
(* and blocks and texts of every length: BuffersInv is inductive and       *)
(* implies BuffersOwned.  First what one allocation and one release do to  *)
(* any memory, then what a text whose block is replaced leaves of the      *)
(* invariant, then the calls one by one.                                   *)
(*                                                                         *)
(* Hierarchies: the tree of nodes stays navigable for all lines and        *)
(* addresses: TreeInv is inductive and implies Navigable.  IsHierarchy     *)
(* says that the children of every node form a ring, and that Children()   *)
(* walks it: so what a walk finds is what the links are.  A hierarchy is   *)
(* only Grown, behind the last child of a node, so a place that has been   *)
(* found stays where it is.  Every walk, along a ring, a path, an address, *)
(* a text or a line, is a fold.  That the function a fold chooses exists   *)
(* is proved for each of them by itself, since no prover instantiates a    *)
(* theorem about a step that is an operator (see NumberInduction).         *)
(*                                                                         *)
(* Items of a line: a text of any length that has been escaped comes out   *)
(* of the line as it went in.  The encoder, the decoder and the reader are *)
(* three folds; what the first has made of the first j characters is where *)
(* the other two stand after them.                                         *)
(***************************************************************************)
EXTENDS CmParallelFTL, CmBuffer, FTLightTree, NumberInduction, FiniteSetTheorems,
        SequenceTheorems, TLAPS

-----------------------------------------------------------------------------
(* Threads *)

ThreadType == [at : Place, isEndless : BOOLEAN, i : Nat]

\* The types the argument needs.
Types ==
    /\ threads \in Seq(ThreadType)
    /\ handle \in 0 .. Len(threads)
    /\ owner \in {"idle", "create", "store", "wait", "ask", "askFlags", "close"}
    /\ isThreadShutdown \in BOOLEAN /\ isThreadFinished \in BOOLEAN /\ isThreadPending \in BOOLEAN
    /\ loopCount \in LoopCounts
    /\ waited \in 0 .. WaitSteps /\ (owner = "wait" => waited < WaitSteps)

\* Only the last thread may live; before the next one is created it does not.
LastLives ==
    \A t \in Thread : (t # Len(threads) \/ owner = "create") => threads[t].at = "exited"

\* Outside of startParallel() the handle is that of the last thread, or none,
\* and while stopParallel() runs it is the last one's and the thread is told.
HandleIsLast ==
    /\ owner # "store" => handle \in {0, Len(threads)}
    /\ owner = "store" => Len(threads) # 0 /\ handle # Len(threads)
    /\ owner \in {"wait", "ask", "askFlags", "close"} =>
           isThreadShutdown /\ handle = Len(threads) /\ handle # 0

\* A thread in its loop finds the flags it has reset itself.
FlagsAreReset ==
    \A t \in Thread : threads[t].at \in {"loop", "check", "checkFlags", "run"} =>
                          ~isThreadFinished /\ ~isThreadPending

\* A thread behind its test of the handle has the handle, and keeps it.
PassedHasHandle ==
    \A t \in Thread : threads[t].at \in {"checkFlags", "run"} => handle = t

\* No handle is closed under a thread that may still go to work.
ClosesOnlyLeft ==
    owner = "close" => \A t \in Thread : threads[t].at \notin {"check", "checkFlags", "run"}

Lifecycle ==
    LastLives /\ HandleIsLast /\ FlagsAreReset /\ PassedHasHandle /\ ClosesOnlyLeft

ParallelInv == Types /\ Lifecycle

-----------------------------------------------------------------------------
\* A step of one thread moves this thread and no other.
LEMMA OneThreadMoves ==
    ASSUME Types, NEW t \in Thread, NEW place \in Place, GoTo(t, place)
    PROVE  /\ threads' \in Seq(ThreadType)
           /\ Len(threads') = Len(threads)
           /\ Thread' = Thread
           /\ threads'[t].at = place
           /\ \A u \in Thread : u # t => threads'[u] = threads[u]
<1>1. [threads[t] EXCEPT !.at = place] \in ThreadType
  <2>1. threads[t] \in ThreadType
    BY DEF Types, Thread
  <2> QED  BY <2>1 DEF ThreadType
<1>2. threads' = [threads EXCEPT ![t] = [threads[t] EXCEPT !.at = place]]
  BY DEF GoTo
<1> QED  BY <1>1, <1>2 DEF Types, Thread, ThreadType

\* The same for the two steps that also set a counter of the thread.
LEMMA OneThreadChanges ==
    ASSUME Types, NEW t \in Thread, NEW to \in ThreadType,
           threads' = [threads EXCEPT ![t] = to]
    PROVE  /\ threads' \in Seq(ThreadType)
           /\ Len(threads') = Len(threads)
           /\ Thread' = Thread
           /\ threads'[t] = to
           /\ \A u \in Thread : u # t => threads'[u] = threads[u]
  BY DEF Types, Thread

LEMMA InitEstablishes == Init => ParallelInv
<1> SUFFICES ASSUME Init PROVE ParallelInv
  OBVIOUS
<1>1. threads \in Seq(ThreadType) /\ Len(threads) = 0 /\ Thread = {}
  BY DEF Init, Thread
<1>2. handle \in 0 .. Len(threads) /\ waited \in 0 .. WaitSteps
  BY <1>1, ParallelAssumption DEF Init
<1>3. Types
  BY <1>1, <1>2 DEF Init, Types
<1> QED  BY <1>1, <1>3
  DEF Init, ParallelInv, Lifecycle, LastLives, HandleIsLast, FlagsAreReset, PassedHasHandle, ClosesOnlyLeft

-----------------------------------------------------------------------------
(* The owner's steps *)

LEMMA OwnerKeeps ==
    ASSUME ParallelInv, ~Overlaps, StartParallel \/ StopParallel \/ Owner
    PROVE  ParallelInv'
<1> USE ParallelAssumption DEF ParallelInv, Lifecycle, Types, LastLives, HandleIsLast, FlagsAreReset,
        PassedHasHandle, ClosesOnlyLeft, Thread
<1>1. CASE StartParallel
  BY <1>1 DEF StartParallel, isStillActive
<1>2. CASE StopParallel
  BY <1>2 DEF StopParallel
<1>3. CASE CreateThread
  <2> DEFINE new == [at |-> "begin", isEndless |-> FALSE, i |-> 0]
  <2>1. new \in ThreadType
    BY DEF ThreadType, Place
  <2>2. /\ threads' = Append(threads, new)
        /\ owner = "create" /\ owner' = "store"
        /\ UNCHANGED <<handle, loopCount, isThreadShutdown, isThreadFinished, isThreadPending, waited>>
    BY <1>3 DEF CreateThread, flags
  <2>3. /\ threads' \in Seq(ThreadType)
        /\ Len(threads') = Len(threads) + 1
        /\ \A t \in 1 .. Len(threads) : threads'[t] = threads[t]
        /\ threads'[Len(threads) + 1] = new
    BY <2>1, <2>2
  <2>4. \A t \in 1 .. Len(threads') : threads'[t].at = "exited" \/ t = Len(threads')
    BY <2>2, <2>3
  <2>5. threads'[Len(threads')].at = "begin"
    BY <2>3
  <2> HIDE DEF new
  <2> QED  BY <2>2, <2>3, <2>4, <2>5
<1>4. CASE StoreHandle
  <2>1. \A t \in Thread : threads[t].at \notin {"checkFlags", "run"}
    BY <1>4 DEF StoreHandle
  <2> QED  BY <1>4, <2>1 DEF StoreHandle, flags
<1>5. CASE Wait
  BY <1>5 DEF Wait, flags
<1>6. CASE AskHandle
  <2>1. ASSUME owner' = "close", NEW t \in Thread
        PROVE  threads[t].at = "exited"
    BY <1>6, <2>1 DEF AskHandle, hasActiveHandle, isStillActive
  <2> QED  BY <1>6, <2>1 DEF AskHandle, flags
<1>7. CASE AskFlags
  <2>1. ASSUME owner' = "close", NEW t \in Thread
        PROVE  threads[t].at \notin {"check", "checkFlags", "run"}
    BY <1>7, <2>1 DEF AskFlags, hasLeftFunction
  <2> QED  BY <1>7, <2>1 DEF AskFlags, flags
<1>8. CASE CloseThread
  BY <1>8 DEF CloseThread, flags
<1> QED  BY <1>1, <1>2, <1>3, <1>4, <1>5, <1>6, <1>7, <1>8 DEF Owner

-----------------------------------------------------------------------------
(* A thread's steps *)

\* A step that changes one living thread only keeps the invariant if its new
\* place is one the flags, the handle and the owner allow.
LEMMA MoveKeeps ==
    ASSUME ParallelInv, NEW t \in Thread, NEW to \in ThreadType,
           threads[t].at # "exited",
           threads' = [threads EXCEPT ![t] = to],
           UNCHANGED <<handle, loopCount, flags, owner, waited>>,
           to.at \in {"loop", "check", "checkFlags", "run"} => ~isThreadFinished /\ ~isThreadPending,
           to.at \in {"checkFlags", "run"} => handle = t,
           to.at \in {"check", "checkFlags", "run"} => owner # "close"
    PROVE  ParallelInv'
<1>1. /\ threads' \in Seq(ThreadType) /\ Len(threads') = Len(threads) /\ Thread' = Thread
      /\ threads'[t] = to
      /\ \A u \in Thread : u # t => threads'[u] = threads[u]
  BY OneThreadChanges DEF ParallelInv
<1>2. UNCHANGED <<handle, loopCount, isThreadShutdown, isThreadFinished, isThreadPending, owner, waited>>
  BY DEF flags
<1>3. t = Len(threads) /\ owner # "create"
  BY DEF ParallelInv, Lifecycle, LastLives
<1>4. Types'
  BY <1>1, <1>2 DEF ParallelInv, Types
<1>5. LastLives' /\ HandleIsLast'
  BY <1>1, <1>2, <1>3 DEF ParallelInv, Lifecycle, LastLives, HandleIsLast
<1>6. FlagsAreReset'
  BY <1>1, <1>2 DEF ParallelInv, Lifecycle, FlagsAreReset
<1>7. PassedHasHandle' /\ ClosesOnlyLeft'
  BY <1>1, <1>2 DEF ParallelInv, Lifecycle, PassedHasHandle, ClosesOnlyLeft
<1> QED  BY <1>4, <1>5, <1>6, <1>7 DEF ParallelInv, Lifecycle

\* The same for a step that sets a flag, after which no thread is in its loop.
LEMMA LeaveKeeps ==
    ASSUME ParallelInv, NEW t \in Thread, NEW to \in ThreadType,
           threads[t].at # "exited",
           threads' = [threads EXCEPT ![t] = to], to.at = "return",
           isThreadFinished' \in BOOLEAN, isThreadPending' \in BOOLEAN,
           UNCHANGED <<handle, loopCount, isThreadShutdown, owner, waited>>
    PROVE  ParallelInv'
<1>1. /\ threads' \in Seq(ThreadType) /\ Len(threads') = Len(threads) /\ Thread' = Thread
      /\ threads'[t] = to
      /\ \A u \in Thread : u # t => threads'[u] = threads[u]
  BY OneThreadChanges DEF ParallelInv
<1>2. t = Len(threads) /\ owner # "create"
  BY DEF ParallelInv, Lifecycle, LastLives
<1>3. \A u \in Thread : u # t => threads[u].at = "exited"
  BY <1>2 DEF ParallelInv, Lifecycle, LastLives
<1>4. Types'
  BY <1>1 DEF ParallelInv, Types
<1>5. LastLives' /\ HandleIsLast'
  BY <1>1, <1>2 DEF ParallelInv, Lifecycle, LastLives, HandleIsLast
<1>6. FlagsAreReset' /\ PassedHasHandle' /\ ClosesOnlyLeft'
  BY <1>1, <1>3 DEF FlagsAreReset, PassedHasHandle, ClosesOnlyLeft
<1> QED  BY <1>4, <1>5, <1>6 DEF ParallelInv, Lifecycle

LEMMA ThreadKeeps ==
    ASSUME ParallelInv, NEW t \in Thread, StaticThreadStart(t) \/ RunParallel(t)
    PROVE  ParallelInv'
<1> DEFINE moved(place) == [threads[t] EXCEPT !.at = place]
<1>1. threads[t] \in ThreadType
  BY DEF ParallelInv, Types, Thread
<1>2. \A place \in Place : moved(place) \in ThreadType /\ moved(place).at = place
  BY <1>1 DEF ThreadType
<1>3. ASSUME NEW place \in Place, GoTo(t, place)
      PROVE  threads' = [threads EXCEPT ![t] = moved(place)]
  BY <1>3 DEF GoTo
<1>4. CASE Begin(t)
  <2> DEFINE endless == loopCount <= 0
             to == [threads[t] EXCEPT !.at = "loop", !.isEndless = endless]
  <2>1. threads[t].at = "begin" /\ threads' = [threads EXCEPT ![t] = to]
    BY <1>4 DEF Begin, At
  <2>0. endless \in BOOLEAN
    OBVIOUS
  <2> HIDE DEF endless
  <2>2. ASSUME endless \in BOOLEAN PROVE to \in ThreadType /\ to.at = "loop"
    BY <1>1, <2>2 DEF ThreadType, Place
  <2> HIDE DEF to
  <2>3. /\ threads' \in Seq(ThreadType) /\ Len(threads') = Len(threads) /\ Thread' = Thread
        /\ threads'[t].at = "loop"
        /\ \A u \in Thread : u # t => threads'[u] = threads[u]
    BY <2>1, <2>2, <2>0, OneThreadChanges DEF ParallelInv
  <2>4. t = Len(threads) /\ owner # "create"
    BY <2>1 DEF ParallelInv, Lifecycle, LastLives
  <2>5. /\ ~isThreadFinished' /\ ~isThreadPending'
        /\ UNCHANGED <<handle, loopCount, isThreadShutdown, owner, waited>>
    BY <1>4 DEF Begin
  <2>6. Types'
    BY <2>3, <2>5, <1>4 DEF ParallelInv, Types, Begin
  <2>7. LastLives' /\ HandleIsLast'
    BY <2>3, <2>4, <2>5 DEF ParallelInv, Lifecycle, LastLives, HandleIsLast
  <2>8. FlagsAreReset' /\ PassedHasHandle' /\ ClosesOnlyLeft'
    BY <2>3, <2>5 DEF ParallelInv, Lifecycle, FlagsAreReset, PassedHasHandle, ClosesOnlyLeft
  <2> QED  BY <2>6, <2>7, <2>8 DEF ParallelInv, Lifecycle
<1>5. CASE Loop(t)
  <2>1. PICK place \in {"end", "check"} : GoTo(t, place) /\ (place = "check" => ~isThreadShutdown)
    BY <1>5 DEF Loop
  <2>2. threads[t].at = "loop" /\ UNCHANGED <<handle, loopCount, flags, owner, waited>>
    BY <1>5 DEF Loop, At
  <2>3. ~isThreadFinished /\ ~isThreadPending
    BY <2>2 DEF ParallelInv, Lifecycle, FlagsAreReset
  <2>4. place = "check" => owner # "close"
    BY <2>1 DEF ParallelInv, Lifecycle, HandleIsLast
  <2>5. place \in Place
    BY DEF Place
  <2> HIDE DEF moved
  <2> QED  BY <1>2, <1>3, <2>1, <2>2, <2>3, <2>4, <2>5, MoveKeeps
<1>6. CASE CheckHandle(t)
  <2>1. PICK place \in {"end", "checkFlags"} : GoTo(t, place) /\ (place = "checkFlags" => hasActiveHandle)
    BY <1>6 DEF CheckHandle
  <2>2. threads[t].at = "check" /\ UNCHANGED <<handle, loopCount, flags, owner, waited>>
    BY <1>6 DEF CheckHandle, At
  <2>3. ~isThreadFinished /\ ~isThreadPending /\ owner # "close"
    BY <2>2 DEF ParallelInv, Lifecycle, FlagsAreReset, ClosesOnlyLeft
  <2>4. place = "checkFlags" => handle = t
    BY <2>1, <2>2 DEF ParallelInv, Lifecycle, LastLives, Types, Thread, hasActiveHandle, isStillActive
  <2>5. place \in Place
    BY DEF Place
  <2> HIDE DEF moved
  <2> QED  BY <1>2, <1>3, <2>1, <2>2, <2>3, <2>4, <2>5, MoveKeeps
<1>7. CASE CheckFlags(t)
  <2>1. PICK place \in {"end", "run"} : GoTo(t, place)
    BY <1>7 DEF CheckFlags
  <2>2. threads[t].at = "checkFlags" /\ UNCHANGED <<handle, loopCount, flags, owner, waited>>
    BY <1>7 DEF CheckFlags, At
  <2>3. ~isThreadFinished /\ ~isThreadPending /\ owner # "close" /\ handle = t
    BY <2>2 DEF ParallelInv, Lifecycle, FlagsAreReset, ClosesOnlyLeft, PassedHasHandle
  <2>4. place \in Place
    BY DEF Place
  <2> HIDE DEF moved
  <2> QED  BY <1>2, <1>3, <2>1, <2>2, <2>3, <2>4, MoveKeeps
<1>8. CASE RunParallel(t)
  <2>1. threads[t].at = "run" /\ UNCHANGED <<handle, loopCount, flags, owner, waited>>
    BY <1>8 DEF RunParallel, At
  <2>2. ~isThreadFinished /\ ~isThreadPending
    BY <2>1 DEF ParallelInv, Lifecycle, FlagsAreReset
  <2>3. CASE GoTo(t, "fail")
    <3>1. "fail" \in Place
      BY DEF Place
    <3> HIDE DEF moved
    <3> QED  BY <1>2, <1>3, <2>1, <2>2, <2>3, <3>1, MoveKeeps
  <2>4. ASSUME ~GoTo(t, "fail") PROVE ParallelInv'
    <3> DEFINE n == IF threads[t].isEndless THEN threads[t].i ELSE threads[t].i + 1
               to == [threads[t] EXCEPT !.at = "loop", !.i = n]
    <3>1. threads' = [threads EXCEPT ![t] = to]
      BY <1>8, <2>4 DEF RunParallel
    <3>2. n \in Nat
      BY <1>1 DEF ThreadType
    <3> HIDE DEF n
    <3>3. to \in ThreadType /\ to.at = "loop"
      BY <1>1, <3>2 DEF ThreadType, Place
    <3> HIDE DEF to
    <3> QED  BY <2>1, <2>2, <3>1, <3>3, MoveKeeps
  <2> QED  BY <2>3, <2>4
<1>9. CASE Fail(t) \/ End(t)
  <2>1. /\ threads[t].at # "exited" /\ GoTo(t, "return")
        /\ isThreadFinished' \in BOOLEAN /\ isThreadPending' \in BOOLEAN
        /\ UNCHANGED <<handle, loopCount, isThreadShutdown, owner, waited>>
    BY <1>9 DEF Fail, End, At, ParallelInv, Types
  <2>2. "return" \in Place
    BY DEF Place
  <2> HIDE DEF moved
  <2> QED  BY <1>2, <1>3, <2>1, <2>2, LeaveKeeps
<1>10. CASE Return(t)
  <2>1. /\ threads[t].at = "return" /\ GoTo(t, "exited")
        /\ UNCHANGED <<handle, loopCount, flags, owner, waited>>
    BY <1>10 DEF Return, At
  <2>2. "exited" \in Place
    BY DEF Place
  <2> HIDE DEF moved
  <2> QED  BY <1>2, <1>3, <2>1, <2>2, MoveKeeps
<1> QED  BY <1>4, <1>5, <1>6, <1>7, <1>8, <1>9, <1>10 DEF StaticThreadStart

-----------------------------------------------------------------------------
\* Every step keeps the invariant if threads do not overlap.
LEMMA NextKeeps == ~Overlaps /\ ParallelInv /\ [Next]_vars => ParallelInv'
<1> SUFFICES ASSUME ~Overlaps, ParallelInv, [Next]_vars PROVE ParallelInv'
  OBVIOUS
<1>1. CASE StartParallel \/ StopParallel \/ Owner
  BY <1>1, OwnerKeeps
<1>2. ASSUME NEW t \in Thread, StaticThreadStart(t) \/ RunParallel(t) PROVE ParallelInv'
  BY <1>2, ThreadKeeps
<1>3. CASE UNCHANGED vars
  BY <1>3 DEF vars, flags, ParallelInv, Lifecycle, Types, LastLives, HandleIsLast, FlagsAreReset,
              PassedHasHandle, ClosesOnlyLeft, Thread
<1> QED  BY <1>1, <1>2, <1>3 DEF Next

LEMMA InvariantHolds == ~Overlaps => (Spec => []ParallelInv)
<1> SUFFICES ASSUME ~Overlaps PROVE Spec => []ParallelInv
  OBVIOUS
<1>1. Init => ParallelInv
  BY InitEstablishes
<1>2. ParallelInv /\ [Next]_vars => ParallelInv'
  BY NextKeeps
<1> QED  BY <1>1, <1>2, PTL DEF Spec

\* Types of all variables, with the bound on the wait loop of stopParallel().
THEOREM ParallelTypeCorrect == ~Overlaps => (Spec => []TypeOK)
<1> SUFFICES ASSUME ~Overlaps PROVE Spec => []TypeOK
  OBVIOUS
<1>1. ParallelInv => TypeOK
  <2> SUFFICES ASSUME ParallelInv PROVE TypeOK
    OBVIOUS
  <2>1. \A t \in Thread : threads[t] \in ThreadType
    BY DEF ParallelInv, Types, Thread
  <2>2. \A t \in Thread : threads[t].at \in Place /\ threads[t].isEndless \in BOOLEAN /\ threads[t].i \in Nat
    BY <2>1 DEF ThreadType
  <2>3. handle \in Thread \cup {0}
    BY DEF ParallelInv, Types, Thread
  <2> QED  BY <2>2, <2>3 DEF TypeOK, ParallelInv, Types, flags
<1>2. Spec => []ParallelInv
  BY InvariantHolds
<1> QED  BY <1>1, <1>2, PTL

\* No thread is inside runParallel() whose handle its object has given up: what
\* stopParallel() promises when it returns true (CmStringFTL.cpp:156-190).
THEOREM WorkersKeepHandles == ~Overlaps => (Spec => []WorkerHasHandle)
<1> SUFFICES ASSUME ~Overlaps PROVE Spec => []WorkerHasHandle
  OBVIOUS
<1>1. ParallelInv => WorkerHasHandle
  BY DEF ParallelInv, Lifecycle, PassedHasHandle, WorkerHasHandle, At
<1>2. Spec => []ParallelInv
  BY InvariantHolds
<1> QED  BY <1>1, <1>2, PTL

-----------------------------------------------------------------------------
(* Texts *)

Memory == [heap: [1 .. MaxBlocks -> Seq(Characters)], used: Nat, bytes: Int, at: 0 .. MaxBlocks]

\* The books of a memory count the blocks that are taken of it, and their bytes.
Counts(m)   == m.used = Cardinality(Taken(m.heap))
Measures(m) == m.bytes = Cardinality(Bytes(m.heap))

LEMMA Positive == MaxBlocks \in Nat \ {0} /\ MaxLength \in Nat \ {0} /\ WordSize \in Nat \ {0} /\ MaxOutlived \in Nat \ {0}
BY BufferAssumption

\* A part of a text, empty or not.
LEMMA PartTyped ==
    ASSUME NEW data \in Seq(Characters), NEW i \in Nat \ {0}, NEW j \in Int, j <= Len(data)
    PROVE  /\ SubSeq(data, i, j) \in Seq(Characters)
           /\ Len(SubSeq(data, i, j)) = IF i <= j THEN j - i + 1 ELSE 0
           /\ \A k \in 1 .. j - i + 1 : SubSeq(data, i, j)[k] = data[i + k - 1]
<1>1. \A k \in i .. j : data[k] \in Characters
  OBVIOUS
<1> QED
  BY <1>1, SubSeqProperties

-----------------------------------------------------------------------------
(* Allocation and release *)

LEMMA TakenFinite ==
    ASSUME NEW h
    PROVE  IsFiniteSet(Taken(h)) /\ Cardinality(Taken(h)) \in Nat
<1>1. IsFiniteSet(1 .. MaxBlocks)
  BY Positive, FS_Interval
<1>2. Taken(h) \subseteq 1 .. MaxBlocks
  BY DEF Taken
<1> QED
  BY <1>1, <1>2, FS_Subset, FS_CardinalityType

\* The bytes of the blocks but one.
OtherBytes(h, a) == UNION {BytesOf(h, b) : b \in (1 .. MaxBlocks) \ {a}}

LEMMA BlockMeasured ==
    ASSUME NEW h \in [1 .. MaxBlocks -> Seq(Characters)], NEW a \in 1 .. MaxBlocks
    PROVE  IsFiniteSet(BytesOf(h, a)) /\ Cardinality(BytesOf(h, a)) = Len(h[a])
<1>1. h[a] \in Seq(Characters) /\ Len(h[a]) \in Nat /\ DOMAIN h[a] = 1 .. Len(h[a])
  OBVIOUS
<1>2. IsFiniteSet(1 .. Len(h[a])) /\ Cardinality(1 .. Len(h[a])) = Len(h[a])
  <2> DEFINE n == Len(h[a])
  <2>1. n \in Nat /\ n \in Int /\ 1 \in Int
    BY <1>1
  <2> HIDE DEF n
  <2>2. IsFiniteSet(1 .. n) /\ Cardinality(1 .. n) = IF 1 > n THEN 0 ELSE n - 1 + 1
    BY <2>1, FS_Interval
  <2>3. IsFiniteSet(1 .. n) /\ Cardinality(1 .. n) = n
    BY <2>1, <2>2
  <2> QED
    BY <2>3 DEF n
<1>3. IsFiniteSet({a}) /\ Cardinality({a}) = 1
  BY FS_Singleton
<1>4. /\ IsFiniteSet({a} \X (1 .. Len(h[a])))
      /\ Cardinality({a} \X (1 .. Len(h[a]))) = Cardinality({a}) * Cardinality(1 .. Len(h[a]))
  BY <1>2, <1>3, FS_Product
<1> QED
  BY <1>1, <1>2, <1>3, <1>4 DEF BytesOf

LEMMA BytesSplit ==
    ASSUME NEW h \in [1 .. MaxBlocks -> Seq(Characters)], NEW a \in 1 .. MaxBlocks
    PROVE  /\ Cardinality(OtherBytes(h, a)) \in Nat
           /\ Cardinality(Bytes(h)) = Cardinality(OtherBytes(h, a)) + Len(h[a])
<1> DEFINE others == (1 .. MaxBlocks) \ {a}
           sets   == {BytesOf(h, b) : b \in others}
<1>1. IsFiniteSet(others)
  BY Positive, FS_Interval, FS_Subset
<1>2. IsFiniteSet(sets)
  <2> DEFINE f == [b \in others |-> BytesOf(h, b)]
  <2>1. sets = {f[b] : b \in others} /\ f \in [others -> sets]
    OBVIOUS
  <2>2. f \in Surjection(others, sets)
    BY <2>1 DEF Surjection
  <2> QED
    BY <1>1, <2>2, FS_Surjection
<1>3. \A S \in sets : IsFiniteSet(S)
  BY BlockMeasured
<1>4. IsFiniteSet(OtherBytes(h, a))
  BY <1>2, <1>3, FS_UNION DEF OtherBytes
<1>5. Bytes(h) = OtherBytes(h, a) \cup BytesOf(h, a)
  BY DEF Bytes, OtherBytes
<1>6. OtherBytes(h, a) \cap BytesOf(h, a) = {}
  BY DEF OtherBytes, BytesOf
<1>7. Cardinality(Bytes(h)) = Cardinality(OtherBytes(h, a)) + Cardinality(BytesOf(h, a)) - Cardinality({})
  BY <1>4, <1>5, <1>6, BlockMeasured, FS_Union
<1>8. Cardinality({}) = 0 /\ Cardinality(OtherBytes(h, a)) \in Nat /\ Len(h[a]) \in Nat
  BY <1>4, FS_EmptySet, FS_CardinalityType
<1>9. Cardinality(BytesOf(h, a)) = Len(h[a])
  BY BlockMeasured
<1> QED
  BY <1>7, <1>8, <1>9

\* A block with another content changes the bytes by the difference of length.
LEMMA BytesChange ==
    ASSUME NEW h \in [1 .. MaxBlocks -> Seq(Characters)], NEW a \in 1 .. MaxBlocks, NEW data \in Seq(Characters)
    PROVE  LET new == [h EXCEPT ![a] = data]
           IN  /\ Cardinality(Bytes(h)) \in Nat /\ Cardinality(Bytes(new)) \in Nat
               /\ Cardinality(Bytes(new)) = Cardinality(Bytes(h)) - Len(h[a]) + Len(data)
<1> DEFINE new == [h EXCEPT ![a] = data]
<1>1. new \in [1 .. MaxBlocks -> Seq(Characters)] /\ new[a] = data /\ \A b \in (1 .. MaxBlocks) \ {a} : new[b] = h[b]
  OBVIOUS
<1> HIDE DEF new
<1>2. OtherBytes(new, a) = OtherBytes(h, a)
  <2>1. \A b \in (1 .. MaxBlocks) \ {a} : BytesOf(new, b) = BytesOf(h, b)
    BY <1>1 DEF BytesOf
  <2> QED
    BY <2>1 DEF OtherBytes
<1>3. /\ Cardinality(OtherBytes(h, a)) \in Nat
      /\ Cardinality(Bytes(h)) = Cardinality(OtherBytes(h, a)) + Len(h[a])
      /\ Cardinality(Bytes(new)) = Cardinality(OtherBytes(h, a)) + Len(data)
  BY <1>1, <1>2, BytesSplit
<1>4. Len(h[a]) \in Nat /\ Len(data) \in Nat
  OBVIOUS
<1>5. /\ Cardinality(Bytes(h)) \in Nat /\ Cardinality(Bytes(new)) \in Nat
      /\ Cardinality(Bytes(new)) = Cardinality(Bytes(h)) - Len(h[a]) + Len(data)
  BY <1>3, <1>4
<1> QED
  BY <1>5 DEF new

\* A block is released with the size that it has.
Sized(h, a, size) == a # NULLpointer => size = Len(h[a])

LEMMA ReleaseBooked ==
    ASSUME NEW m \in Memory, Counts(m), NEW a \in 0 .. MaxBlocks, a # NULLpointer => m.heap[a] # Free,
           NEW size \in Int
    PROVE  LET r == Release(m, a, size)
           IN  /\ r \in Memory /\ Counts(r) /\ r.at = m.at
               /\ \A b \in 1 .. MaxBlocks : r.heap[b] = IF b = a THEN Free ELSE m.heap[b]
               /\ Measures(m) /\ Sized(m.heap, a, size) => Measures(r)
<1> DEFINE r == Release(m, a, size)
<1>1. CASE a = NULLpointer
  BY <1>1 DEF Release, NULLpointer
<1>2. CASE a # NULLpointer
  <2> DEFINE h == [m.heap EXCEPT ![a] = Free]
  <2>1. a \in 1 .. MaxBlocks
    BY <1>2, Positive DEF NULLpointer
  <2>2. m.heap \in [1 .. MaxBlocks -> Seq(Characters)] /\ m.used \in Nat /\ m.bytes \in Int /\ m.at \in 0 .. MaxBlocks
    BY DEF Memory
  <2>3. /\ r.heap = h /\ r.used = m.used - 1 /\ r.at = m.at /\ r.bytes = m.bytes - size
        /\ r = [heap |-> h, used |-> m.used - 1, bytes |-> m.bytes - size, at |-> m.at]
    BY <1>2 DEF Release, Memory
  <2>4. Free \in Seq(Characters)
    BY DEF Free
  <2>5. h \in [1 .. MaxBlocks -> Seq(Characters)] /\ \A b \in 1 .. MaxBlocks : h[b] = IF b = a THEN Free ELSE m.heap[b]
    BY <2>1, <2>2, <2>4
  <2>10. Measures(m) /\ Sized(m.heap, a, size) => m.bytes - size = Cardinality(Bytes(h))
    <3>1. /\ Cardinality(Bytes(m.heap)) \in Nat /\ Cardinality(Bytes(h)) \in Nat
          /\ Cardinality(Bytes(h)) = Cardinality(Bytes(m.heap)) - Len(m.heap[a]) + Len(Free)
      BY <2>1, <2>2, <2>4, BytesChange
    <3>2. Len(Free) = 0 /\ Len(m.heap[a]) \in Nat
      BY <2>1, <2>2 DEF Free
    <3> HIDE DEF h
    <3> QED
      BY <1>2, <2>2, <3>1, <3>2 DEF Measures, Sized
  <2> HIDE DEF h
  <2>6. Taken(h) = Taken(m.heap) \ {a} /\ a \in Taken(m.heap)
    BY <1>2, <2>1, <2>5 DEF Taken
  <2>7. Cardinality(Taken(h)) = Cardinality(Taken(m.heap)) - 1
    BY <2>6, TakenFinite, FS_RemoveElement
  <2>8. m.used - 1 \in Nat /\ m.used - 1 = Cardinality(Taken(h))
    BY <2>2, <2>7, TakenFinite DEF Counts
  <2> HIDE DEF r
  <2>9. r \in Memory
    BY <2>2, <2>3, <2>5, <2>8 DEF Memory
  <2> QED
    BY <2>3, <2>5, <2>8, <2>9, <2>10 DEF Counts, Measures, r
<1> QED
  BY <1>1, <1>2

LEMMA AllocateBooked ==
    ASSUME NEW m \in Memory, Counts(m), NEW data \in Seq(Characters), data # Free,
           \E b \in 1 .. MaxBlocks : m.heap[b] = Free
    PROVE  LET r == Allocate(m, data)
           IN  /\ r \in Memory /\ Counts(r)
               /\ r.at \in 1 .. MaxBlocks /\ m.heap[r.at] = Free
               /\ \A b \in 1 .. MaxBlocks : r.heap[b] = IF b = r.at THEN data ELSE m.heap[b]
               /\ Measures(m) => Measures(r)
<1> DEFINE r == Allocate(m, data)
           a == CHOOSE a \in DOMAIN m.heap : m.heap[a] = Free
           h == [m.heap EXCEPT ![a] = data]
<1>1. m.heap \in [1 .. MaxBlocks -> Seq(Characters)] /\ m.used \in Nat /\ m.bytes \in Int
  BY DEF Memory
<1>2. a \in 1 .. MaxBlocks /\ m.heap[a] = Free
  BY <1>1
<1>3. r = [heap |-> h, used |-> m.used + 1, bytes |-> m.bytes + Len(data), at |-> a]
  BY DEF Allocate
<1> HIDE DEF a, r
<1>4. h \in [1 .. MaxBlocks -> Seq(Characters)] /\ \A b \in 1 .. MaxBlocks : h[b] = IF b = a THEN data ELSE m.heap[b]
  BY <1>1, <1>2
<1>11. Measures(m) => m.bytes + Len(data) = Cardinality(Bytes(h))
  <2>1. /\ Cardinality(Bytes(m.heap)) \in Nat /\ Cardinality(Bytes(h)) \in Nat
        /\ Cardinality(Bytes(h)) = Cardinality(Bytes(m.heap)) - Len(m.heap[a]) + Len(data)
    BY <1>1, <1>2, BytesChange
  <2>2. Len(m.heap[a]) = 0 /\ Len(data) \in Nat
    BY <1>2 DEF Free
  <2> HIDE DEF h
  <2> QED
    BY <1>1, <2>1, <2>2 DEF Measures
<1> HIDE DEF h
<1>5. Taken(h) = Taken(m.heap) \cup {a} /\ a \notin Taken(m.heap)
  BY <1>2, <1>4 DEF Taken
<1>6. Cardinality(Taken(h)) = Cardinality(Taken(m.heap)) + 1
  BY <1>5, TakenFinite, FS_AddElement
<1>7. m.used + 1 \in Nat /\ m.used + 1 = Cardinality(Taken(h))
  BY <1>1, <1>6 DEF Counts
<1>8. r.heap = h /\ r.used = m.used + 1 /\ r.bytes = m.bytes + Len(data) /\ r.at = a
  BY <1>3
<1>9. r \in Memory
  <2>1. m.bytes + Len(data) \in Int
    BY <1>1
  <2> QED
    BY <1>2, <1>3, <1>4, <1>7, <2>1, Positive DEF Memory
<1>10. Counts(r)
  BY <1>7, <1>8 DEF Counts
<1> QED
  BY <1>2, <1>4, <1>8, <1>9, <1>10, <1>11 DEF Measures, r

-----------------------------------------------------------------------------
(* What one object may do to the blocks *)

Object == [pText: 0 .. MaxBlocks, Length: Nat, pUnicode: 0 .. MaxBlocks]

\* An object with another text, and with another copy of it.
WithText(o, a, n)   == [o EXCEPT !.pText = a, !.Length = n]
WithUnicode(o, a)   == [o EXCEPT !.pUnicode = a]

LEMMA ObjectFields ==
    ASSUME NEW o \in Object, NEW a \in 0 .. MaxBlocks, NEW n \in Nat
    PROVE  /\ WithText(o, a, n) \in Object
           /\ WithText(o, a, n).pText = a /\ WithText(o, a, n).Length = n /\ WithText(o, a, n).pUnicode = o.pUnicode
           /\ WithUnicode(o, a) \in Object
           /\ WithUnicode(o, a).pText = o.pText /\ WithUnicode(o, a).Length = o.Length /\ WithUnicode(o, a).pUnicode = a
BY DEF Object, WithText, WithUnicode

\* The blocks of an object that has the fields r, and whether its text fits.
BlocksOf(r) == {r.pText, r.pUnicode} \ {NULLpointer}

Fits(r, h, o) ==
    IF r.pText = NULLpointer THEN r.Length = 0
    ELSE Len(h[r.pText]) = r.Length + 1 /\ (~o => h[r.pText][Len(h[r.pText])] = NUL)

LEMMA ObjectTyped ==
    ASSUME BuffersInv, NEW s \in Strings
    PROVE  /\ string[s] \in Object /\ Blocks(s) = BlocksOf(string[s])
           /\ Blocks(s) \subseteq 1 .. MaxBlocks
           /\ \A a \in Blocks(s) : heap[a] # Free
           /\ Fits(string[s], heap, overrun)
<1>1. string[s] \in Object
  BY DEF BuffersInv, BufferType, Object
<1>2. Blocks(s) = BlocksOf(string[s])
  BY DEF Blocks, BlocksOf
<1>3. string[s].pText \in 0 .. MaxBlocks /\ string[s].pUnicode \in 0 .. MaxBlocks
  BY <1>1 DEF Object
<1>4. Blocks(s) \subseteq 1 .. MaxBlocks
  BY <1>3, Positive DEF Blocks, NULLpointer
<1>5. \A a \in Blocks(s) : heap[a] # Free
  BY <1>4 DEF BuffersInv, TakenIfHeld
<1>6. Fits(string[s], heap, overrun)
  BY DEF BuffersInv, TextFits, Fits
<1> QED
  BY <1>1, <1>2, <1>4, <1>5, <1>6

LEMMA NowBooked ==
    ASSUME BuffersInv
    PROVE  /\ Now \in Memory /\ Counts(Now) /\ Now.heap = heap /\ Now.used = ItemsUsed /\ Now.at = NULLpointer
           /\ outlived = 0 => Measures(Now)
<1>1. Now.heap = heap /\ Now.used = ItemsUsed /\ Now.bytes = MemoryUsed /\ Now.at = NULLpointer
  BY DEF Now
<1>2. Now \in Memory
  BY Positive DEF Now, Memory, BuffersInv, BufferType, NULLpointer
<1> QED
  BY <1>1, <1>2 DEF Counts, Measures, BuffersInv, Counted, Booked

\* An object may take blocks that are free, write to its own and give back what
\* it no longer points to.
LEMMA OneObjectChanges ==
    ASSUME BuffersInv, NEW s \in Strings, NEW new \in Object,
           NEW h \in [1 .. MaxBlocks -> Seq(Characters)],
           heap' = h, ItemsUsed' = Cardinality(Taken(h)), string' = [string EXCEPT ![s] = new],
           MemoryUsed' \in Int, outlived' \in Nat, overrun' \in BOOLEAN, overrun => overrun',
           outlived' = 0 => MemoryUsed' = Cardinality(Bytes(h)),
           \A b \in BlocksOf(new) : (heap[b] = Free \/ b \in Blocks(s)) /\ h[b] # Free,
           \A b \in Blocks(s) \ BlocksOf(new) : h[b] = Free,
           \A b \in 1 .. MaxBlocks : b \notin BlocksOf(new) \cup Blocks(s) => h[b] = heap[b],
           new.pText = new.pUnicode => new.pText = NULLpointer,
           Fits(new, h, overrun')
    PROVE  BuffersInv'
<1>1. string \in [Strings -> Object] /\ string' \in [Strings -> Object]
  BY DEF BuffersInv, BufferType, Object
<1>2. string'[s] = new /\ \A t \in Strings : t # s => string'[t] = string[t]
  BY <1>1
<1>3. Blocks(s)' = BlocksOf(new) /\ \A t \in Strings : t # s => Blocks(t)' = Blocks(t)
  BY <1>2 DEF Blocks, BlocksOf
<1>4. \A t \in Strings : /\ Blocks(t) \subseteq 1 .. MaxBlocks
                         /\ \A a \in Blocks(t) : heap[a] # Free
  BY ObjectTyped
<1>5. BlocksOf(new) \subseteq 1 .. MaxBlocks
  BY Positive DEF Object, BlocksOf, NULLpointer
<1>6. \A t \in Strings : t # s => Blocks(t) \cap Blocks(s) = {} /\ Blocks(t) \cap BlocksOf(new) = {}
  BY <1>4 DEF BuffersInv, HeldApart
<1>7. \A t \in Strings : t # s => \A b \in Blocks(t) : h[b] = heap[b]
  BY <1>4, <1>6
<1>8. BufferType'
  BY <1>1, TakenFinite DEF BufferType, Object
<1>9. TakenIfHeld'
  <2> SUFFICES ASSUME NEW a \in 1 .. MaxBlocks
               PROVE  h[a] # Free <=> \E t \in Strings : a \in Blocks(t)'
    BY DEF TakenIfHeld
  <2>1. CASE a \in BlocksOf(new)
    BY <1>3, <2>1
  <2>2. CASE a \notin BlocksOf(new) /\ a \in Blocks(s)
    BY <1>3, <1>6, <2>2
  <2>3. CASE a \notin BlocksOf(new) \cup Blocks(s)
    <3>1. h[a] = heap[a]
      BY <2>3
    <3>2. heap[a] # Free <=> \E t \in Strings : a \in Blocks(t)
      BY DEF BuffersInv, TakenIfHeld
    <3> QED
      BY <1>3, <2>3, <3>1, <3>2
  <2> QED
    BY <2>1, <2>2, <2>3
<1>10. HeldApart'
  BY <1>3, <1>6 DEF BuffersInv, HeldApart
<1>11. HeldOnce'
  BY <1>2 DEF BuffersInv, HeldOnce
<1>12. Counted' /\ Booked'
  BY DEF Counted, Booked, Taken, Bytes, BytesOf
<1>13. TextFits'
  <2> SUFFICES ASSUME NEW t \in Strings
               PROVE  Fits(string'[t], h, overrun')
    BY DEF TextFits, Fits
  <2>1. CASE t = s
    BY <1>2, <2>1
  <2>2. CASE t # s
    <3>1. Fits(string[t], heap, overrun) /\ string'[t] = string[t]
      BY <1>2, <2>2, ObjectTyped
    <3>2. string[t].pText # NULLpointer => h[string[t].pText] = heap[string[t].pText]
      BY <1>7, <2>2 DEF Blocks
    <3> QED
      BY <3>1, <3>2 DEF Fits
  <2> QED
    BY <2>1, <2>2
<1> QED
  BY <1>8, <1>9, <1>10, <1>11, <1>12, <1>13 DEF BuffersInv

-----------------------------------------------------------------------------
(* A block is replaced *)

\* The block old is given back, and one with the content data is taken.
Replaced(old, size, m, data) ==
    /\ m \in Memory /\ Counts(m)
    /\ outlived = 0 /\ Sized(heap, old, size) => Measures(m)
    /\ m.at \in 1 .. MaxBlocks /\ (heap[m.at] = Free \/ m.at = old)
    /\ \A b \in 1 .. MaxBlocks : m.heap[b] = IF b = m.at THEN data ELSE IF b = old THEN Free ELSE heap[b]

LEMMA PointerHeld ==
    ASSUME BuffersInv, NEW s \in Strings, NEW a \in {string[s].pText, string[s].pUnicode}
    PROVE  a \in 0 .. MaxBlocks /\ (a # NULLpointer => a \in 1 .. MaxBlocks /\ heap[a] # Free)
<1>1. a # NULLpointer => a \in Blocks(s)
  BY DEF Blocks
<1> QED
  BY <1>1, ObjectTyped, Positive DEF NULLpointer

\* Releasing the old block first...
LEMMA RenewsBlock ==
    ASSUME BuffersInv, HasBlocks, NEW s \in Strings, NEW old \in {string[s].pText, string[s].pUnicode},
           NEW data \in Seq(Characters), data # Free, NEW size \in Int
    PROVE  Replaced(old, size, Allocate(Release(Now, old, size), data), data)
<1> DEFINE r == Release(Now, old, size)
           m == Allocate(r, data)
<1>1. Now \in Memory /\ Counts(Now) /\ Now.heap = heap /\ (outlived = 0 => Measures(Now))
  BY NowBooked
<1>2. old \in 0 .. MaxBlocks /\ (old # NULLpointer => Now.heap[old] # Free)
  BY <1>1, PointerHeld
<1>3. /\ r \in Memory /\ Counts(r) /\ \A b \in 1 .. MaxBlocks : r.heap[b] = IF b = old THEN Free ELSE heap[b]
      /\ outlived = 0 /\ Sized(heap, old, size) => Measures(r)
  <2>1. /\ r \in Memory /\ Counts(r) /\ \A b \in 1 .. MaxBlocks : r.heap[b] = IF b = old THEN Free ELSE Now.heap[b]
        /\ Measures(Now) /\ Sized(Now.heap, old, size) => Measures(r)
    BY <1>1, <1>2, ReleaseBooked
  <2> HIDE DEF r
  <2> QED
    BY <1>1, <2>1
<1>4. \E b \in 1 .. MaxBlocks : r.heap[b] = Free
  BY <1>3 DEF HasBlocks, BuffersInv, BufferType
<1> HIDE DEF r
<1>5. /\ m \in Memory /\ Counts(m) /\ m.at \in 1 .. MaxBlocks /\ r.heap[m.at] = Free /\ (Measures(r) => Measures(m))
      /\ \A b \in 1 .. MaxBlocks : m.heap[b] = IF b = m.at THEN data ELSE r.heap[b]
  BY <1>3, <1>4, AllocateBooked
<1> HIDE DEF m
<1>6. Replaced(old, size, m, data)
  BY <1>3, <1>5 DEF Replaced
<1> QED
  BY <1>6 DEF m, r

\* ...or after the new one was taken comes to the same.
LEMMA MovesBlock ==
    ASSUME BuffersInv, HasBlocks, NEW s \in Strings, NEW old \in {string[s].pText, string[s].pUnicode},
           NEW data \in Seq(Characters), data # Free, NEW size \in Int
    PROVE  Replaced(old, size, Release(Allocate(Now, data), old, size), data)
<1> DEFINE m == Allocate(Now, data)
           r == Release(m, old, size)
<1>1. Now \in Memory /\ Counts(Now) /\ Now.heap = heap /\ (outlived = 0 => Measures(Now))
  BY NowBooked
<1>2. \E b \in 1 .. MaxBlocks : Now.heap[b] = Free
  BY <1>1 DEF HasBlocks, BuffersInv, BufferType
<1>3. /\ m \in Memory /\ Counts(m) /\ m.at \in 1 .. MaxBlocks /\ heap[m.at] = Free /\ (outlived = 0 => Measures(m))
      /\ \A b \in 1 .. MaxBlocks : m.heap[b] = IF b = m.at THEN data ELSE heap[b]
  BY <1>1, <1>2, AllocateBooked
<1>4. old \in 0 .. MaxBlocks /\ (old # NULLpointer => old \in 1 .. MaxBlocks /\ heap[old] # Free)
  BY PointerHeld
<1> HIDE DEF m
<1>5. old # NULLpointer => m.heap[old] # Free /\ old # m.at
  BY <1>3, <1>4
<1>6. /\ r \in Memory /\ Counts(r) /\ r.at = m.at /\ \A b \in 1 .. MaxBlocks : r.heap[b] = IF b = old THEN Free ELSE m.heap[b]
      /\ outlived = 0 /\ Sized(heap, old, size) => Measures(r)
  <2>1. Sized(heap, old, size) => Sized(m.heap, old, size)
    BY <1>3, <1>4, <1>5 DEF Sized
  <2>2. /\ r \in Memory /\ Counts(r) /\ r.at = m.at /\ \A b \in 1 .. MaxBlocks : r.heap[b] = IF b = old THEN Free ELSE m.heap[b]
        /\ Measures(m) /\ Sized(m.heap, old, size) => Measures(r)
    BY <1>3, <1>4, <1>5, ReleaseBooked
  <2> HIDE DEF r
  <2> QED
    BY <1>3, <2>1, <2>2
<1> HIDE DEF r
<1>7. old # r.at
  BY <1>3, <1>5, <1>6 DEF NULLpointer
<1>8. Replaced(old, size, r, data)
  BY <1>3, <1>6, <1>7 DEF Replaced
<1> QED
  BY <1>8 DEF r, m

LEMMA TextBlock ==
    ASSUME NEW data \in Seq(Characters)
    PROVE  LET block == Append(data, NUL)
           IN  /\ block \in Seq(Characters) /\ block # Free
               /\ Len(block) = Len(data) + 1 /\ block[Len(block)] = NUL
<1>1. NUL \in Characters
  BY DEF Characters
<1> QED
  BY <1>1, AppendProperties DEF Free

\* A text is released with the size of its block.
LEMMA TextSized ==
    ASSUME BuffersInv, NEW s \in Strings
    PROVE  TextSize(s) \in Int /\ UnicodeSize(s) \in Int /\ Sized(heap, string[s].pText, TextSize(s))
<1>1. string[s] \in Object /\ Fits(string[s], heap, overrun)
  BY ObjectTyped
<1> QED
  BY <1>1 DEF TextSize, UnicodeSize, Sized, Fits, Object

\* An object whose text is replaced.
LEMMA TextReplaced ==
    ASSUME BuffersInv, NEW s \in Strings, NEW data \in Seq(Characters), NEW m,
           Replaced(string[s].pText, TextSize(s), m, Append(data, NUL)), Reassign(s, m, Len(data))
    PROVE  BuffersInv'
<1> DEFINE block == Append(data, NUL)
           old == string[s].pText
           new == WithText(string[s], m.at, Len(data))
<1>1. block \in Seq(Characters) /\ block # Free /\ Len(block) = Len(data) + 1 /\ block[Len(block)] = NUL
  BY TextBlock
<1> HIDE DEF block
<1>2. /\ m \in Memory /\ Counts(m) /\ m.at \in 1 .. MaxBlocks /\ (heap[m.at] = Free \/ m.at = old)
      /\ \A b \in 1 .. MaxBlocks : m.heap[b] = IF b = m.at THEN block ELSE IF b = old THEN Free ELSE heap[b]
  BY DEF Replaced, block
<1>17. outlived = 0 => Measures(m)
  BY TextSized DEF Replaced
<1>3. string \in [Strings -> Object] /\ string[s] \in Object /\ Len(data) \in Nat
  BY DEF BuffersInv, BufferType, Object
<1>4. /\ new \in Object /\ new.pText = m.at /\ new.Length = Len(data) /\ new.pUnicode = string[s].pUnicode
  <2>1. m.at \in 0 .. MaxBlocks
    BY <1>2, Positive
  <2> QED
    BY <1>3, <2>1, ObjectFields
<1>5. heap' = m.heap /\ ItemsUsed' = Cardinality(Taken(m.heap)) /\ string' = [string EXCEPT ![s] = new]
  <2>1. string' = [string EXCEPT ![s].pText = m.at, ![s].Length = Len(data)] /\ heap' = m.heap /\ ItemsUsed' = m.used
    BY DEF Reassign, Book
  <2>2. [string EXCEPT ![s].pText = m.at, ![s].Length = Len(data)] = [string EXCEPT ![s] = new]
    BY <1>3 DEF Object, WithText
  <2> QED
    BY <1>2, <2>1, <2>2 DEF Counts
<1>18. /\ MemoryUsed' \in Int /\ outlived' \in Nat /\ overrun' \in BOOLEAN /\ (overrun => overrun')
       /\ outlived' = 0 => MemoryUsed' = Cardinality(Bytes(m.heap))
  BY <1>2, <1>17 DEF Reassign, Book, Memory, Measures, BuffersInv, BufferType
<1> HIDE DEF new
<1>6. m.heap \in [1 .. MaxBlocks -> Seq(Characters)]
  BY <1>2 DEF Memory
<1>7. m.at # NULLpointer
  BY <1>2, Positive DEF NULLpointer
<1>8. Blocks(s) \subseteq 1 .. MaxBlocks /\ (\A a \in Blocks(s) : heap[a] # Free) /\ Blocks(s) = {old, string[s].pUnicode} \ {NULLpointer}
  BY ObjectTyped DEF Blocks
<1>9. old = string[s].pUnicode => old = NULLpointer
  BY DEF BuffersInv, HeldOnce
<1>10. BlocksOf(new) = {m.at} \cup ({string[s].pUnicode} \ {NULLpointer})
  BY <1>4, <1>7 DEF BlocksOf
<1>11. string[s].pUnicode # NULLpointer => /\ string[s].pUnicode \in Blocks(s) /\ string[s].pUnicode # old
                                          /\ string[s].pUnicode # m.at
  BY <1>2, <1>7, <1>8, <1>9
<1>12. \A b \in BlocksOf(new) : (heap[b] = Free \/ b \in Blocks(s)) /\ m.heap[b] # Free
  BY <1>1, <1>2, <1>7, <1>8, <1>10, <1>11
<1>13. \A b \in Blocks(s) \ BlocksOf(new) : m.heap[b] = Free
  BY <1>2, <1>8, <1>10
<1>14. \A b \in 1 .. MaxBlocks : b \notin BlocksOf(new) \cup Blocks(s) => m.heap[b] = heap[b]
  BY <1>2, <1>8, <1>10, Positive DEF NULLpointer
<1>15. new.pText = new.pUnicode => new.pText = NULLpointer
  BY <1>4, <1>7, <1>11
<1>16. Fits(new, m.heap, overrun')
  BY <1>1, <1>2, <1>4, <1>7 DEF Fits
<1> QED
  BY <1>4, <1>5, <1>6, <1>12, <1>13, <1>14, <1>15, <1>16, <1>18, OneObjectChanges

LEMMA SetTextKeepsInv ==
    ASSUME BuffersInv, NEW s \in Strings, NEW data \in Seq(Characters), SetText(s, data)
    PROVE  BuffersInv'
<1>1. Append(data, NUL) \in Seq(Characters) /\ Append(data, NUL) # Free
  BY TextBlock
<1>2. Replaced(string[s].pText, TextSize(s), Renewed(s, data), Append(data, NUL))
  BY <1>1, TextSized, RenewsBlock DEF SetText, Renewed
<1> QED
  BY <1>2, TextReplaced DEF SetText

LEMMA MovedKeepsInv ==
    ASSUME BuffersInv, HasBlocks, NEW s \in Strings, NEW data \in Seq(Characters), Reassign(s, Moved(s, data), Len(data))
    PROVE  BuffersInv'
<1>1. Append(data, NUL) \in Seq(Characters) /\ Append(data, NUL) # Free
  BY TextBlock
<1>2. Replaced(string[s].pText, TextSize(s), Moved(s, data), Append(data, NUL))
  BY <1>1, TextSized, MovesBlock DEF Moved
<1> QED
  BY <1>2, TextReplaced

-----------------------------------------------------------------------------
(* What the texts are made of *)

LEMMA CStringTyped ==
    ASSUME NEW data \in Seq(Characters)
    PROVE  CString(data) \in Seq(Characters)
<1> DEFINE ends == {i \in DOMAIN data : data[i] = NUL}
           end  == CHOOSE i \in ends : \A j \in ends : i <= j
<1>1. CASE ends = {}
  BY <1>1 DEF CString
<1>2. CASE ends # {}
  <2>1. ends \subseteq Nat
    BY LenProperties
  <2>2. \E i \in ends : \A j \in ends : i <= j
    BY <1>2, <2>1, FirstOfNumbers
  <2>3. end \in ends
    BY <2>2
  <2>4. end \in 1 .. Len(data) /\ Len(data) \in Nat
    BY <2>3, LenProperties
  <2>5. CString(data) = SubSeq(data, 1, end - 1)
    BY <1>2 DEF CString
  <2> HIDE DEF end
  <2> QED
    BY <2>4, <2>5, PartTyped
<1> QED
  BY <1>1, <1>2

LEMMA DataTyped ==
    ASSUME BuffersInv, NEW s \in Strings
    PROVE  /\ GetText(s) \in Seq(Characters)
           /\ GetData(s) \in Seq(Characters) /\ Len(GetData(s)) = string[s].Length
<1>1. string[s] \in Object /\ Fits(string[s], heap, overrun)
  BY ObjectTyped
<1>2. string[s].Length \in Nat
  BY <1>1 DEF Object
<1>3. CASE string[s].pText = NULLpointer
  <2>1. GetText(s) = <<>> /\ GetData(s) = <<>> /\ string[s].Length = 0
    BY <1>1, <1>3 DEF GetText, GetData, Fits
  <2> QED
    BY <2>1
<1>4. CASE string[s].pText # NULLpointer
  <2> DEFINE block == heap[string[s].pText]
  <2>1. block \in Seq(Characters)
    <3>1. string[s].pText \in 1 .. MaxBlocks
      BY <1>4, PointerHeld
    <3> QED
      BY <3>1 DEF BuffersInv, BufferType
  <2>2. Len(block) = string[s].Length + 1
    BY <1>1, <1>4 DEF Fits
  <2>3. GetText(s) = CString(block) /\ GetData(s) = SubSeq(block, 1, string[s].Length)
    BY <1>4 DEF GetText, GetData
  <2> HIDE DEF block
  <2>4. CString(block) \in Seq(Characters)
    BY <2>1, CStringTyped
  <2>5. 1 \in Nat \ {0} /\ string[s].Length \in Int /\ string[s].Length <= Len(block)
    BY <1>2, <2>2
  <2>6. /\ SubSeq(block, 1, string[s].Length) \in Seq(Characters)
        /\ Len(SubSeq(block, 1, string[s].Length))
             = IF 1 <= string[s].Length THEN string[s].Length - 1 + 1 ELSE 0
    BY <2>1, <2>5, PartTyped
  <2>7. (IF 1 <= string[s].Length THEN string[s].Length - 1 + 1 ELSE 0) = string[s].Length
    BY <1>2
  <2> QED
    BY <2>3, <2>4, <2>6, <2>7
<1> QED
  BY <1>3, <1>4

-----------------------------------------------------------------------------
(* The calls *)

LEMMA SameCharacter ==
    ASSUME NEW n \in Nat, NEW c \in Characters
    PROVE  [i \in 1 .. n |-> c] \in Seq(Characters)
OBVIOUS

LEMMA ContentsTyped == Contents \subseteq Seq(Characters)
BY Positive DEF Contents

LEMMA AssignKeepsInv ==
    ASSUME BuffersInv, NEW s \in Strings, NEW t \in Strings, Assign(s, t)
    PROVE  BuffersInv'
<1>1. PICK data \in IF s = t THEN {CString(c) : c \in Contents} ELSE {GetText(t)} : SetText(s, data)
  BY DEF Assign
<1>2. data \in Seq(Characters)
  BY DataTyped, ContentsTyped, CStringTyped
<1> QED
  BY <1>1, <1>2, SetTextKeepsInv

LEMMA SetRangeKeepsInv ==
    ASSUME BuffersInv, NEW s \in Strings, NEW t \in Strings, NEW first \in Nat, NEW last \in Nat,
           SetRange(s, t, first, last)
    PROVE  BuffersInv'
<1>1. last < string[t].Length /\ SetText(s, SubSeq(GetData(t), first + 1, last + 1))
  BY DEF SetRange
<1>2. GetData(t) \in Seq(Characters) /\ Len(GetData(t)) = string[t].Length
  BY DataTyped
<1>3. string[t].Length \in Nat
  BY ObjectTyped DEF Object
<1>4. first + 1 \in Nat \ {0} /\ last + 1 \in Int /\ last + 1 <= Len(GetData(t))
  BY <1>1, <1>2, <1>3
<1>5. SubSeq(GetData(t), first + 1, last + 1) \in Seq(Characters)
  BY <1>2, <1>4, PartTyped
<1> QED
  BY <1>1, <1>5, SetTextKeepsInv

LEMMA AdjustLengthKeepsInv ==
    ASSUME BuffersInv, NEW s \in Strings, NEW length \in Nat, AdjustLength(s, length)
    PROVE  BuffersInv'
<1> DEFINE data == [i \in 1 .. length |-> IF i <= string[s].Length THEN GetData(s)[i] ELSE NUL]
<1>1. GetData(s) \in Seq(Characters) /\ Len(GetData(s)) = string[s].Length
  BY DataTyped
<1>2. string[s].Length \in Nat /\ NUL \in Characters
  BY ObjectTyped DEF Object, Characters
<1>3. \A i \in 1 .. length : (IF i <= string[s].Length THEN GetData(s)[i] ELSE NUL) \in Characters
  BY <1>1, <1>2
<1>4. data \in Seq(Characters) /\ Len(data) = length
  BY <1>3
<1>5. HasBlocks /\ Reassign(s, Moved(s, data), Len(data))
  BY <1>4 DEF AdjustLength
<1> HIDE DEF data
<1> QED
  BY <1>4, <1>5, MovedKeepsInv

LEMMA AddTextKeepsInv ==
    ASSUME BuffersInv, NEW s \in Strings, NEW t \in Strings, AddText(s, t)
    PROVE  BuffersInv'
<1> DEFINE data == GetData(s) \o GetText(t)
<1>1. data \in Seq(Characters)
  BY DataTyped, ConcatProperties
<1>2. HasBlocks /\ Reassign(s, Moved(s, data), Len(data))
  BY DEF AddText
<1> HIDE DEF data
<1> QED
  BY <1>1, <1>2, MovedKeepsInv

LEMMA AssignPartKeepsInv ==
    ASSUME BuffersInv, NEW s \in Strings, NEW t \in Strings, NEW first \in Nat, NEW last \in Nat,
           AssignPart(s, t, first, last)
    PROVE  BuffersInv'
<1> DEFINE length == string[t].Length
           end    == IF last < length THEN last + 1 ELSE length
           part   == IF first >= length THEN <<>> ELSE SubSeq(GetData(t), first + 1, end)
<1>1. GetData(t) \in Seq(Characters) /\ Len(GetData(t)) = length /\ length \in Nat
  BY DataTyped, ObjectTyped DEF Object
<1>2. part \in Seq(Characters)
  <2>1. first + 1 \in Nat \ {0} /\ end \in Int /\ end <= length
    BY <1>1
  <2> HIDE DEF end
  <2>2. SubSeq(GetData(t), first + 1, end) \in Seq(Characters)
    BY <1>1, <2>1, PartTyped
  <2> QED
    BY <2>2
<1>3. HasBlocks /\ Reassign(s, IF s = t /\ part # <<>> THEN Moved(s, part) ELSE Renewed(s, part), Len(part))
  BY DEF AssignPart
<1> HIDE DEF part
<1>4. CASE s = t /\ part # <<>>
  BY <1>2, <1>3, <1>4, MovedKeepsInv
<1>5. CASE ~ (s = t /\ part # <<>>)
  <2>1. SetText(s, part)
    BY <1>3, <1>5 DEF SetText
  <2> QED
    BY <1>2, <2>1, SetTextKeepsInv
<1> QED
  BY <1>4, <1>5

LEMMA FilledKeepsInv ==
    ASSUME BuffersInv, NEW s \in Strings, NEW n \in Nat, NEW c \in Characters,
           SetLengthOf(s, n, c) \/ SetNumberAt(s, n, c)
    PROVE  BuffersInv'
<1>1. CASE SetLengthOf(s, n, c)
  <2>1. [i \in 1 .. n |-> c] \in Seq(Characters)
    BY SameCharacter
  <2> QED
    BY <1>1, <2>1, SetTextKeepsInv DEF SetLengthOf
<1>2. CASE SetNumberAt(s, n, c)
  <2>1. \A i \in 1 .. WordSize : (IF i <= n THEN c ELSE NUL) \in Characters
    BY DEF Characters
  <2>2. [i \in 1 .. WordSize |-> IF i <= n THEN c ELSE NUL] \in Seq(Characters)
    BY <2>1, Positive
  <2> QED
    BY <1>2, <2>2, SetTextKeepsInv DEF SetNumberAt
<1> QED
  BY <1>1, <1>2

\* Nothing moves; a text may have lost its end.
LEMMA BlocksStay ==
    ASSUME BuffersInv, UNCHANGED <<heap, ItemsUsed, MemoryUsed, string, outlived>>,
           overrun' \in BOOLEAN, ~overrun \/ overrun' = overrun
    PROVE  BuffersInv'
<1>1. BufferType'
  BY DEF BuffersInv, BufferType
<1>2. TakenIfHeld' /\ HeldApart' /\ HeldOnce'
  BY DEF BuffersInv, TakenIfHeld, HeldApart, HeldOnce, Blocks
<1>3. Counted' /\ Booked'
  BY DEF BuffersInv, Counted, Booked, Taken, Bytes, BytesOf
<1>4. TextFits'
  BY DEF BuffersInv, TextFits
<1> QED
  BY <1>1, <1>2, <1>3, <1>4 DEF BuffersInv

\* The text is overwritten, up to its end or within it.
LEMMA OverwrittenKeepsInv ==
    ASSUME BuffersInv, NEW s \in Strings, NEW pos \in Nat, NEW w \in Nat \ {0}, NEW c \in Characters,
           ~overrun, overrun' \in BOOLEAN, ~overrun' => pos + w <= string[s].Length,
           string[s].pText # NULLpointer,
           heap' = [heap EXCEPT ![string[s].pText] = Overwritten(@, pos, w, c)],
           UNCHANGED <<ItemsUsed, MemoryUsed, string, outlived>>
    PROVE  BuffersInv'
<1> DEFINE a     == string[s].pText
           block == heap[a]
           new   == [i \in DOMAIN block |-> IF i \in pos + 1 .. pos + w THEN c ELSE block[i]]
           h     == [heap EXCEPT ![a] = new]
<1>1. heap' = h /\ UNCHANGED <<ItemsUsed, string>>
  BY DEF Overwritten
<1>2. string[s] \in Object /\ Fits(string[s], heap, overrun) /\ string[s].Length \in Nat
  BY ObjectTyped DEF Object
<1>3. a # NULLpointer
  OBVIOUS
<1>4. a \in 1 .. MaxBlocks /\ heap[a] # Free
  BY <1>3, PointerHeld
<1>5. block \in Seq(Characters) /\ Len(block) = string[s].Length + 1 /\ block[Len(block)] = NUL
  BY <1>2, <1>3, <1>4 DEF Fits, BuffersInv, BufferType
<1> HIDE DEF block
<1>6. new \in Seq(Characters) /\ Len(new) = Len(block)
  <2>1. \A i \in 1 .. Len(block) : (IF i \in pos + 1 .. pos + w THEN c ELSE block[i]) \in Characters
    BY <1>5
  <2>2. DOMAIN block = 1 .. Len(block) /\ Len(block) \in Nat
    BY <1>5
  <2> QED
    BY <2>1, <2>2
<1>7. ~overrun' => new[Len(new)] = NUL
  <2> SUFFICES ASSUME ~overrun' PROVE new[Len(new)] = NUL
    OBVIOUS
  <2>1. Len(block) \in 1 .. Len(block) /\ Len(block) \notin pos + 1 .. pos + w
    BY <1>2, <1>5
  <2> QED
    BY <1>5, <1>6, <2>1
<1>8. new # Free
  BY <1>2, <1>5, <1>6 DEF Free
<1> HIDE DEF new
<1>9. /\ h \in [1 .. MaxBlocks -> Seq(Characters)]
      /\ \A b \in 1 .. MaxBlocks : h[b] = IF b = a THEN new ELSE heap[b]
  BY <1>4, <1>6 DEF BuffersInv, BufferType
<1>19. Cardinality(Bytes(h)) = Cardinality(Bytes(heap))
  <2>1. /\ Cardinality(Bytes(heap)) \in Nat
        /\ Cardinality(Bytes(h)) = Cardinality(Bytes(heap)) - Len(heap[a]) + Len(new)
    BY <1>4, <1>6, BytesChange DEF BuffersInv, BufferType
  <2>2. Len(heap[a]) = Len(new) /\ Len(new) \in Nat
    BY <1>5, <1>6 DEF block
  <2> HIDE DEF h
  <2> QED
    BY <2>1, <2>2
<1> HIDE DEF h
<1>20. /\ MemoryUsed' \in Int /\ outlived' \in Nat
       /\ outlived' = 0 => MemoryUsed' = Cardinality(Bytes(h))
  BY <1>19 DEF BuffersInv, BufferType, Booked
<1>21. overrun' \in BOOLEAN /\ (overrun => overrun')
  OBVIOUS
<1>10. Taken(h) = Taken(heap)
  BY <1>4, <1>8, <1>9 DEF Taken
<1> DEFINE o == string[s]
<1>11. string' = [string EXCEPT ![s] = o] /\ o \in Object
  BY <1>1, <1>2 DEF BuffersInv, BufferType
<1>12. ItemsUsed' = Cardinality(Taken(h))
  BY <1>1, <1>10 DEF BuffersInv, Counted
<1>13. Blocks(s) = BlocksOf(o) /\ Blocks(s) \subseteq 1 .. MaxBlocks /\ (\A b \in Blocks(s) : heap[b] # Free) /\ a \in Blocks(s)
  BY <1>3, ObjectTyped DEF Blocks
<1>14. \A b \in BlocksOf(o) : (heap[b] = Free \/ b \in Blocks(s)) /\ h[b] # Free
  BY <1>8, <1>9, <1>13
<1>15. \A b \in Blocks(s) \ BlocksOf(o) : h[b] = Free
  BY <1>13
<1>16. \A b \in 1 .. MaxBlocks : b \notin BlocksOf(o) \cup Blocks(s) => h[b] = heap[b]
  BY <1>9, <1>13
<1>17. o.pText = o.pUnicode => o.pText = NULLpointer
  BY DEF BuffersInv, HeldOnce
<1>18. Fits(o, h, overrun')
  BY <1>3, <1>4, <1>5, <1>6, <1>7, <1>9 DEF Fits
<1> HIDE DEF o
<1> QED
  BY <1>1, <1>9, <1>11, <1>12, <1>14, <1>15, <1>16, <1>17, <1>18, <1>20, <1>21, OneObjectChanges

LEMMA SetAtKeepsInv ==
    ASSUME BuffersInv, ~overrun, NEW s \in Strings, NEW pos \in Nat, NEW w \in Nat \ {0}, NEW c \in Characters,
           SetAt(s, pos, w, c) \/ SetAtBehind(s, pos, w, c)
    PROVE  BuffersInv'
<1>1. CASE SetAt(s, pos, w, c)
  <2>1. string[s].pText # NULLpointer
    <3>1. pos + w <= string[s].Length /\ string[s].Length \in Nat /\ Fits(string[s], heap, overrun)
      BY <1>1, ObjectTyped DEF SetAt, Object
    <3>2. string[s].Length # 0
      BY <3>1
    <3> QED
      BY <3>1, <3>2 DEF Fits
  <2>2. /\ overrun' \in BOOLEAN /\ (~overrun' => pos + w <= string[s].Length)
        /\ heap' = [heap EXCEPT ![string[s].pText] = Overwritten(@, pos, w, c)]
        /\ UNCHANGED <<ItemsUsed, MemoryUsed, string, outlived>>
    BY <1>1 DEF SetAt, BuffersInv, BufferType
  <2> QED
    BY <2>1, <2>2, OverwrittenKeepsInv
<1>2. CASE SetAtBehind(s, pos, w, c) /\ string[s].pText # NULLpointer
  <2>1. /\ overrun' \in BOOLEAN /\ (~overrun' => pos + w <= string[s].Length)
        /\ heap' = [heap EXCEPT ![string[s].pText] = Overwritten(@, pos, w, c)]
        /\ UNCHANGED <<ItemsUsed, MemoryUsed, string, outlived>>
    BY <1>2 DEF SetAtBehind
  <2> QED
    BY <1>2, <2>1, OverwrittenKeepsInv
<1>3. CASE SetAtBehind(s, pos, w, c) /\ string[s].pText = NULLpointer
  <2>1. UNCHANGED <<heap, ItemsUsed, MemoryUsed, string, outlived>> /\ overrun' \in BOOLEAN
    BY <1>3 DEF SetAtBehind
  <2> QED
    BY <2>1, BlocksStay
<1> QED
  BY <1>1, <1>2, <1>3

LEMMA ClearKeepsInv ==
    ASSUME BuffersInv, NEW s \in Strings, Clear(s)
    PROVE  BuffersInv'
<1> DEFINE a   == string[s].pText
           r   == Release(Now, a, TextSize(s))
           new == WithText(string[s], NULLpointer, 0)
<1>1. /\ Now \in Memory /\ Counts(Now) /\ Now.heap = heap /\ a \in 0 .. MaxBlocks /\ (a # NULLpointer => Now.heap[a] # Free)
      /\ (outlived = 0 => Measures(Now)) /\ TextSize(s) \in Int /\ Sized(Now.heap, a, TextSize(s))
  BY NowBooked, PointerHeld, TextSized
<1>2. /\ r \in Memory /\ Counts(r) /\ (outlived = 0 => Measures(r))
      /\ \A b \in 1 .. MaxBlocks : r.heap[b] = IF b = a THEN Free ELSE heap[b]
  BY <1>1, ReleaseBooked
<1>3. heap' = r.heap /\ ItemsUsed' = r.used /\ string' = [string EXCEPT ![s].pText = NULLpointer, ![s].Length = 0]
  BY DEF Clear, Book
<1>16. /\ MemoryUsed' \in Int /\ outlived' \in Nat /\ overrun' \in BOOLEAN /\ (overrun => overrun')
       /\ outlived' = 0 => MemoryUsed' = Cardinality(Bytes(r.heap))
  <2>1. MemoryUsed' = r.bytes /\ UNCHANGED <<outlived, overrun>>
    BY DEF Clear, Book
  <2> HIDE DEF r
  <2> QED
    BY <1>2, <2>1 DEF Memory, Measures, BuffersInv, BufferType
<1> HIDE DEF r
<1>4. string \in [Strings -> Object] /\ string[s] \in Object
  BY DEF BuffersInv, BufferType, Object
<1>5. [string EXCEPT ![s].pText = NULLpointer, ![s].Length = 0] = [string EXCEPT ![s] = new]
  BY <1>4 DEF Object, WithText
<1>6. NULLpointer \in 0 .. MaxBlocks /\ 0 \in Nat
  BY Positive DEF NULLpointer
<1>7. new \in Object /\ new.pText = NULLpointer /\ new.Length = 0 /\ new.pUnicode = string[s].pUnicode
  BY <1>4, <1>6, ObjectFields
<1> HIDE DEF new
<1>8. r.heap \in [1 .. MaxBlocks -> Seq(Characters)] /\ ItemsUsed' = Cardinality(Taken(r.heap))
  BY <1>2, <1>3 DEF Memory, Counts
<1>9. Blocks(s) \subseteq 1 .. MaxBlocks /\ (\A b \in Blocks(s) : heap[b] # Free) /\ Blocks(s) = {a, string[s].pUnicode} \ {NULLpointer}
  BY ObjectTyped DEF Blocks
<1>10. BlocksOf(new) = {string[s].pUnicode} \ {NULLpointer}
  BY <1>7 DEF BlocksOf
<1>11. a = string[s].pUnicode => a = NULLpointer
  BY DEF BuffersInv, HeldOnce
<1>12. \A b \in BlocksOf(new) : (heap[b] = Free \/ b \in Blocks(s)) /\ r.heap[b] # Free
  BY <1>2, <1>9, <1>10, <1>11
<1>13. \A b \in Blocks(s) \ BlocksOf(new) : r.heap[b] = Free
  BY <1>2, <1>9, <1>10
<1>14. \A b \in 1 .. MaxBlocks : b \notin BlocksOf(new) \cup Blocks(s) => r.heap[b] = heap[b]
  BY <1>2, <1>9, <1>10, Positive DEF NULLpointer
<1>15. Fits(new, r.heap, overrun')
  BY <1>7 DEF Fits
<1> QED
  BY <1>3, <1>5, <1>7, <1>8, <1>12, <1>13, <1>14, <1>15, <1>16, OneObjectChanges

\* What is not counted as outlived was released with its size.
LEMMA OutlivedCounted ==
    ASSUME BuffersInv, NEW s \in Strings, CountOutlived(s)
    PROVE  /\ outlived' \in Nat /\ overrun' \in BOOLEAN /\ (overrun => overrun')
           /\ outlived' = 0 => outlived = 0 /\ Sized(heap, string[s].pUnicode, UnicodeSize(s))
<1>1. outlived \in Nat /\ overrun \in BOOLEAN
  BY DEF BuffersInv, BufferType
<1>2. overrun' = overrun /\ outlived' = IF Outlives(s) THEN outlived + 1 ELSE outlived
  BY DEF CountOutlived
<1>3. outlived' = 0 => outlived = 0 /\ ~Outlives(s)
  BY <1>1, <1>2
<1> QED
  BY <1>1, <1>2, <1>3 DEF Outlives, Sized

LEMMA UnicodeTyped ==
    ASSUME NEW data \in Seq(Characters)
    PROVE  Unicode(data) \in Seq(Characters) /\ Unicode(data) # Free
<1> DEFINE char(i) == IF i % 2 = 1 /\ i < 2 * Len(data) THEN data[(i + 1) \div 2] ELSE NUL
           n == 2 * (Len(data) + 1)
<1>1. n \in Nat \ {0}
  OBVIOUS
<1>2. \A i \in 1 .. n : char(i) \in Characters
  <2> SUFFICES ASSUME NEW i \in 1 .. n, i < 2 * Len(data)
               PROVE  data[(i + 1) \div 2] \in Characters
    BY DEF Characters
  <2>1. (i + 1) \div 2 \in 1 .. Len(data)
    OBVIOUS
  <2> QED
    BY <2>1
<1>3. Unicode(data) = [i \in 1 .. n |-> char(i)]
  BY DEF Unicode
<1> HIDE DEF char, n
<1>4. Unicode(data) \in Seq(Characters) /\ Len(Unicode(data)) = n
  BY <1>1, <1>2, <1>3
<1> QED
  BY <1>1, <1>4 DEF Free

LEMMA GetUnicodeKeepsInv ==
    ASSUME BuffersInv, NEW s \in Strings, GetUnicode(s)
    PROVE  BuffersInv'
<1> DEFINE block == Unicode(GetData(s))
           old   == string[s].pUnicode
           text  == string[s].pText
           m     == Allocate(Release(Now, old, UnicodeSize(s)), block)
           new   == WithUnicode(string[s], m.at)
<1>1. block \in Seq(Characters) /\ block # Free
  BY DataTyped, UnicodeTyped
<1>2. /\ HasBlocks /\ heap' = m.heap /\ ItemsUsed' = m.used /\ MemoryUsed' = m.bytes
      /\ string' = [string EXCEPT ![s].pUnicode = m.at]
      /\ CountOutlived(s)
  BY DEF GetUnicode, Book
<1> HIDE DEF block
<1>3. Replaced(old, UnicodeSize(s), m, block)
  BY <1>1, <1>2, TextSized, RenewsBlock
<1>18. /\ outlived' \in Nat /\ overrun' \in BOOLEAN /\ (overrun => overrun')
       /\ outlived' = 0 => outlived = 0 /\ Sized(heap, old, UnicodeSize(s))
  BY <1>2, OutlivedCounted
<1> HIDE DEF m
<1>4. /\ m \in Memory /\ Counts(m) /\ m.at \in 1 .. MaxBlocks /\ (heap[m.at] = Free \/ m.at = old)
      /\ \A b \in 1 .. MaxBlocks : m.heap[b] = IF b = m.at THEN block ELSE IF b = old THEN Free ELSE heap[b]
  BY <1>3 DEF Replaced
<1>19. MemoryUsed' \in Int /\ (outlived' = 0 => MemoryUsed' = Cardinality(Bytes(m.heap)))
  BY <1>2, <1>3, <1>4, <1>18 DEF Replaced, Memory, Measures
<1>5. string \in [Strings -> Object] /\ string[s] \in Object /\ Fits(string[s], heap, overrun)
  BY ObjectTyped DEF BuffersInv, BufferType, Object
<1>6. [string EXCEPT ![s].pUnicode = m.at] = [string EXCEPT ![s] = new]
  BY <1>5 DEF Object, WithUnicode
<1>7. m.at \in 0 .. MaxBlocks /\ m.at # NULLpointer
  BY <1>4, Positive DEF NULLpointer
<1>8. new \in Object /\ new.pUnicode = m.at /\ new.Length = string[s].Length /\ new.pText = text
  BY <1>5, <1>7, ObjectFields
<1> HIDE DEF new
<1>9. m.heap \in [1 .. MaxBlocks -> Seq(Characters)] /\ ItemsUsed' = Cardinality(Taken(m.heap))
  BY <1>2, <1>4 DEF Memory, Counts
<1>10. Blocks(s) \subseteq 1 .. MaxBlocks /\ (\A b \in Blocks(s) : heap[b] # Free) /\ Blocks(s) = {text, old} \ {NULLpointer}
  BY ObjectTyped DEF Blocks
<1>11. BlocksOf(new) = {m.at} \cup ({text} \ {NULLpointer})
  BY <1>7, <1>8 DEF BlocksOf
<1>12. text # NULLpointer => text \in Blocks(s) /\ text # old /\ text # m.at /\ m.heap[text] = heap[text]
  <2>1. text = old => text = NULLpointer
    BY DEF BuffersInv, HeldOnce
  <2>2. text # NULLpointer => text \in Blocks(s) /\ text # old
    BY <1>10, <2>1
  <2>3. text # NULLpointer => text # m.at
    BY <1>4, <1>10, <2>2
  <2> QED
    BY <1>4, <1>10, <2>2, <2>3
<1>13. \A b \in BlocksOf(new) : (heap[b] = Free \/ b \in Blocks(s)) /\ m.heap[b] # Free
  BY <1>1, <1>4, <1>7, <1>10, <1>11, <1>12
<1>14. \A b \in Blocks(s) \ BlocksOf(new) : m.heap[b] = Free
  BY <1>4, <1>10, <1>11
<1>15. \A b \in 1 .. MaxBlocks : b \notin BlocksOf(new) \cup Blocks(s) => m.heap[b] = heap[b]
  BY <1>4, <1>10, <1>11, Positive DEF NULLpointer
<1>16. new.pText = new.pUnicode => new.pText = NULLpointer
  BY <1>8, <1>12
<1>17. Fits(new, m.heap, overrun')
  BY <1>5, <1>8, <1>12, <1>18 DEF Fits
<1> QED
  BY <1>2, <1>6, <1>8, <1>9, <1>13, <1>14, <1>15, <1>16, <1>17, <1>18, <1>19, OneObjectChanges

LEMMA DestroyKeepsInv ==
    ASSUME BuffersInv, NEW s \in Strings, Destroy(s)
    PROVE  BuffersInv'
<1> DEFINE text    == string[s].pText
           unicode == string[s].pUnicode
           r       == Release(Now, text, TextSize(s))
           m       == Release(r, unicode, UnicodeSize(s))
<1>1. /\ Now \in Memory /\ Counts(Now) /\ Now.heap = heap /\ text \in 0 .. MaxBlocks /\ (text # NULLpointer => Now.heap[text] # Free)
      /\ (outlived = 0 => Measures(Now)) /\ TextSize(s) \in Int /\ UnicodeSize(s) \in Int /\ Sized(Now.heap, text, TextSize(s))
  BY NowBooked, PointerHeld, TextSized
<1>2. r \in Memory /\ Counts(r) /\ (outlived = 0 => Measures(r)) /\ \A b \in 1 .. MaxBlocks : r.heap[b] = IF b = text THEN Free ELSE heap[b]
  <2>1. /\ r \in Memory /\ Counts(r) /\ (Measures(Now) /\ Sized(Now.heap, text, TextSize(s)) => Measures(r))
        /\ \A b \in 1 .. MaxBlocks : r.heap[b] = IF b = text THEN Free ELSE Now.heap[b]
    BY <1>1, ReleaseBooked
  <2> HIDE DEF r
  <2> QED
    BY <1>1, <2>1
<1>3. text = unicode => text = NULLpointer
  BY DEF BuffersInv, HeldOnce
<1>4. unicode \in 0 .. MaxBlocks /\ (unicode # NULLpointer => unicode \in 1 .. MaxBlocks /\ heap[unicode] # Free)
  BY PointerHeld
<1>5. /\ heap' = m.heap /\ ItemsUsed' = m.used /\ MemoryUsed' = m.bytes /\ string' = [string EXCEPT ![s] = Fresh]
      /\ CountOutlived(s)
  BY DEF Destroy, Book
<1>13. /\ outlived' \in Nat /\ overrun' \in BOOLEAN /\ (overrun => overrun')
       /\ outlived' = 0 => outlived = 0 /\ Sized(heap, unicode, UnicodeSize(s))
  BY <1>5, OutlivedCounted
<1> HIDE DEF r
<1>6. unicode # NULLpointer => r.heap[unicode] # Free
  BY <1>2, <1>3, <1>4
<1>14. Sized(heap, unicode, UnicodeSize(s)) => Sized(r.heap, unicode, UnicodeSize(s))
  BY <1>2, <1>3, <1>4 DEF Sized
<1>7. /\ m \in Memory /\ Counts(m) /\ (Measures(r) /\ Sized(r.heap, unicode, UnicodeSize(s)) => Measures(m))
      /\ \A b \in 1 .. MaxBlocks : m.heap[b] = IF b = unicode THEN Free ELSE r.heap[b]
  <2>1. r \in Memory /\ Counts(r) /\ UnicodeSize(s) \in Int /\ unicode \in 0 .. MaxBlocks
    BY <1>1, <1>2, <1>4
  <2> QED
    BY <1>6, <2>1, ReleaseBooked
<1>15. MemoryUsed' \in Int /\ (outlived' = 0 => MemoryUsed' = Cardinality(Bytes(m.heap)))
  <2> HIDE DEF m
  <2> QED
    BY <1>2, <1>5, <1>7, <1>13, <1>14 DEF Memory, Measures
<1> HIDE DEF m
<1>8. m.heap \in [1 .. MaxBlocks -> Seq(Characters)] /\ ItemsUsed' = Cardinality(Taken(m.heap))
  BY <1>5, <1>7 DEF Memory, Counts
<1>9. Fresh \in Object /\ BlocksOf(Fresh) = {} /\ Fits(Fresh, m.heap, overrun') /\ Fresh.pText = NULLpointer
  BY Positive DEF Fresh, Object, BlocksOf, Fits, NULLpointer
<1>10. Blocks(s) \subseteq 1 .. MaxBlocks /\ Blocks(s) = {text, unicode} \ {NULLpointer}
  BY ObjectTyped DEF Blocks
<1>11. \A b \in Blocks(s) : m.heap[b] = Free
  BY <1>2, <1>7, <1>10
<1>12. \A b \in 1 .. MaxBlocks : b \notin Blocks(s) => m.heap[b] = heap[b]
  BY <1>2, <1>7, <1>10, Positive DEF NULLpointer
<1> QED
  BY <1>5, <1>8, <1>9, <1>11, <1>12, <1>13, <1>15, OneObjectChanges

-----------------------------------------------------------------------------
(* The invariant *)

LEMMA InitBuffersInv == InitBuffers => BuffersInv
<1> SUFFICES ASSUME InitBuffers PROVE BuffersInv
  OBVIOUS
<1>1. /\ heap = [a \in 1 .. MaxBlocks |-> Free] /\ ItemsUsed = 0 /\ MemoryUsed = 0
      /\ string = [s \in Strings |-> Fresh] /\ outlived = 0 /\ overrun = FALSE
  BY DEF InitBuffers
<1>2. BufferType
  <2>1. outlived \in Nat /\ ItemsUsed \in Nat /\ MemoryUsed \in Int
    BY <1>1
  <2>2. overrun \in BOOLEAN
    BY <1>1, Zenon
  <2> QED
    BY <1>1, <2>1, <2>2, Positive DEF BufferType, Fresh, Free, NULLpointer
<1>3. \A s \in Strings : string[s] = Fresh /\ Blocks(s) = {}
  BY <1>1 DEF Blocks, Fresh
<1>4. TakenIfHeld /\ HeldApart
  BY <1>1, <1>3 DEF TakenIfHeld, HeldApart
<1>5. HeldOnce /\ TextFits
  BY <1>3 DEF HeldOnce, TextFits, Fresh
<1>6. Counted /\ Booked
  <2>1. Taken(heap) = {} /\ Bytes(heap) = {}
    BY <1>1 DEF Taken, Bytes, BytesOf, Free
  <2> QED
    BY <1>1, <2>1, FS_EmptySet DEF Counted, Booked
<1> QED
  BY <1>2, <1>4, <1>5, <1>6 DEF BuffersInv

LEMMA NextBuffersInv == BuffersInv /\ [NextBuffers]_buffers => BuffersInv'
<1> SUFFICES ASSUME BuffersInv, [NextBuffers]_buffers
             PROVE  BuffersInv'
  OBVIOUS
<1>1. CASE UNCHANGED buffers
  <2>1. UNCHANGED <<heap, ItemsUsed, MemoryUsed, string, outlived>> /\ overrun' \in BOOLEAN /\ overrun' = overrun
    BY <1>1 DEF buffers, BuffersInv, BufferType
  <2> QED
    BY <2>1, BlocksStay
<1>2. CASE NextBuffers
  <2>1. PICK s \in Strings :
          \/ \E data \in Contents : SetText(s, data)
          \/ Clear(s) \/ GetUnicode(s) \/ Destroy(s)
          \/ \E n \in 0 .. MaxLength : AdjustLength(s, n) \/ \E c \in Characters : SetLengthOf(s, n, c)
          \/ \E pos \in 0 .. MaxLength - 1, w \in {1, WordSize}, c \in Characters :
               SetAt(s, pos, w, c) \/ SetAtBehind(s, pos, w, c)
          \/ \E w \in {1, WordSize}, c \in Characters : SetNumberAt(s, w, c)
          \/ \E t \in Strings :
               \/ Assign(s, t) \/ AddText(s, t)
               \/ \E first, last \in 0 .. MaxLength : SetRange(s, t, first, last) \/ AssignPart(s, t, first, last)
    BY <1>2 DEF NextBuffers
  <2>2. 0 .. MaxLength \subseteq Nat /\ 0 .. MaxLength - 1 \subseteq Nat /\ {1, WordSize} \subseteq Nat \ {0}
    BY Positive
  <2>3. CASE \E data \in Contents : SetText(s, data)
    BY <2>3, ContentsTyped, SetTextKeepsInv
  <2>4. CASE Clear(s) \/ GetUnicode(s) \/ Destroy(s)
    BY <2>4, ClearKeepsInv, GetUnicodeKeepsInv, DestroyKeepsInv
  <2>5. CASE \E n \in 0 .. MaxLength : AdjustLength(s, n) \/ \E c \in Characters : SetLengthOf(s, n, c)
    BY <2>2, <2>5, AdjustLengthKeepsInv, FilledKeepsInv
  <2>6. CASE \E pos \in 0 .. MaxLength - 1, w \in {1, WordSize}, c \in Characters :
               SetAt(s, pos, w, c) \/ SetAtBehind(s, pos, w, c)
    <3>1. ~overrun
      BY <1>2 DEF NextBuffers
    <3> QED
      BY <2>2, <2>6, <3>1, SetAtKeepsInv
  <2>7. CASE \E w \in {1, WordSize}, c \in Characters : SetNumberAt(s, w, c)
    BY <2>2, <2>7, FilledKeepsInv
  <2>8. CASE \E t \in Strings :
               \/ Assign(s, t) \/ AddText(s, t)
               \/ \E first, last \in 0 .. MaxLength : SetRange(s, t, first, last) \/ AssignPart(s, t, first, last)
    BY <2>2, <2>8, AssignKeepsInv, AddTextKeepsInv, SetRangeKeepsInv, AssignPartKeepsInv
  <2> QED
    BY <2>1, <2>3, <2>4, <2>5, <2>6, <2>7, <2>8
<1> QED
  BY <1>1, <1>2

\* The blocks of texts are held apart, each by one pointer of one object, and
\* booked, whatever calls are made: Renewed() and Moved() replace, release and
\* take one block after the other.
THEOREM BuffersInvInductive == SpecBuffers => []BuffersInv
<1>1. InitBuffers => BuffersInv
  BY InitBuffersInv
<1>2. BuffersInv /\ [NextBuffers]_buffers => BuffersInv'
  BY NextBuffersInv
<1> QED
  BY <1>1, <1>2, PTL DEF SpecBuffers

LEMMA InvOwnsBuffers == BuffersInv => BuffersOwned
<1> SUFFICES ASSUME BuffersInv PROVE BuffersOwned
  OBVIOUS
<1> DEFINE pointers  == {string[s].pText : s \in Strings} \cup {string[s].pUnicode : s \in Strings}
           taken     == {a \in DOMAIN heap : heap[a] # Free}
           Owners(a) == {<<s, 1>> : s \in {s \in Strings : string[s].pText = a}}
                           \cup {<<s, 2>> : s \in {s \in Strings : string[s].pUnicode = a}}
<1>1. DOMAIN heap = 1 .. MaxBlocks /\ taken = Taken(heap)
  BY DEF BuffersInv, BufferType, Taken
<1>2. \A s \in Strings : Blocks(s) \subseteq 1 .. MaxBlocks
  BY ObjectTyped
<1>3. pointers \ {NULLpointer} = taken
  <2>1. pointers \ {NULLpointer} = UNION {Blocks(s) : s \in Strings}
    BY DEF Blocks
  <2>2. UNION {Blocks(s) : s \in Strings} = Taken(heap)
    BY <1>2 DEF BuffersInv, TakenIfHeld, Taken
  <2> QED
    BY <1>1, <2>1, <2>2
<1>4. ItemsUsed = Cardinality(taken)
  BY <1>1 DEF BuffersInv, Counted
<1>5. ASSUME NEW a \in taken
      PROVE  Cardinality(Owners(a)) = 1
  <2>1. a # NULLpointer
    BY <1>1, Positive DEF NULLpointer, Taken
  <2>2. PICK s \in Strings : a \in Blocks(s)
    BY <1>1 DEF BuffersInv, TakenIfHeld, Taken
  <2>3. \A t \in Strings : string[t].pText = a \/ string[t].pUnicode = a => t = s
    BY <2>1, <2>2 DEF BuffersInv, HeldApart, Blocks
  <2>4. (string[s].pText = a /\ string[s].pUnicode # a) \/ (string[s].pText # a /\ string[s].pUnicode = a)
    <3>1. string[s].pText = a \/ string[s].pUnicode = a
      BY <2>2 DEF Blocks
    <3>2. string[s].pText = string[s].pUnicode => string[s].pText = NULLpointer
      BY DEF BuffersInv, HeldOnce
    <3> QED
      BY <2>1, <3>1, <3>2
  <2>5. Owners(a) = {<<s, 1>>} \/ Owners(a) = {<<s, 2>>}
    BY <2>3, <2>4
  <2> HIDE DEF Owners
  <2> QED
    BY <2>5, FS_Singleton
<1>6. ~overrun => \A s \in Strings :
        string[s].pText # NULLpointer =>
          LET block == heap[string[s].pText] IN Len(block) = string[s].Length + 1 /\ block[Len(block)] = NUL
  BY DEF BuffersInv, TextFits
<1>8. outlived = 0 => MemoryUsed = Cardinality(Bytes(heap))
  BY DEF BuffersInv, Booked
<1> HIDE DEF Owners
<1>7. \A a \in taken : Cardinality(Owners(a)) = 1
  BY <1>5
<1> QED
  BY <1>3, <1>4, <1>6, <1>7, <1>8 DEF BuffersOwned, Owners

\* No text shares a block with another, none is lost, each is one longer than
\* its text, and the books count those in use, also when a text is made of
\* itself or of a part of itself.  The books count the bytes in use until a
\* Unicode copy is released that was made of a text of another length.  Once a
\* number has been set in a text that is shorter than it, nothing is promised.
THEOREM BuffersAlwaysOwned == SpecBuffers => []BuffersOwned
BY BuffersInvInductive, InvOwnsBuffers, PTL

-----------------------------------------------------------------------------
(* Hierarchies of nodes: lists of nodes *)

IsList(t) == Len(t) \in Nat /\ t = [n \in 1 .. Len(t) |-> t[n]]

LEMMA ListSame ==
    ASSUME NEW t, NEW u, IsList(t), IsList(u), Len(t) = Len(u), \A n \in 1 .. Len(t) : t[n] = u[n]
    PROVE  t = u
  BY DEF IsList

LEMMA ListIs ==
    ASSUME NEW S, NEW m \in Nat, NEW u \in [1 .. m -> S]
    PROVE  u \in Seq(S) /\ Len(u) = m /\ IsList(u)
<1>1. u \in Seq(S) /\ Len(u) = m
  OBVIOUS
<1> QED  BY <1>1 DEF IsList

LEMMA SequenceIsList ==
    ASSUME NEW S, NEW u \in Seq(S)
    PROVE  IsList(u)
<1>1. PICK m : m = Len(u)
  OBVIOUS
<1>2. m \in Nat /\ DOMAIN u = 1 .. m
  BY <1>1
<1>3. u = [n \in 1 .. m |-> u[n]]
  BY <1>2
<1> QED  BY <1>1, <1>2, <1>3 DEF IsList

Extended(u, t, r) ==
    IsList(u) /\ Len(u) = Len(t) + 1 /\ u[Len(t) + 1] = r /\ \A n \in 1 .. Len(t) : u[n] = t[n]

LEMMA ListAppend ==
    ASSUME NEW t, IsList(t), NEW r
    PROVE  Extended(Append(t, r), t, r)
<1> DEFINE u == Append(t, r)
<1>1. PICK m \in Nat : m = Len(t)
  BY DEF IsList
<1>2. PICK S : S = {t[n] : n \in 1 .. m} \cup {r}
  OBVIOUS
<1>3. t \in [1 .. m -> S]
  BY <1>1, <1>2 DEF IsList
<1>4. t \in Seq(S) /\ r \in S
  BY <1>2, <1>3
<1>5. u \in Seq(S) /\ Len(u) = m + 1 /\ u[m + 1] = r /\ \A n \in 1 .. m : u[n] = t[n]
  BY <1>1, <1>4
<1>6. IsList(u)
  BY <1>5, SequenceIsList
<1> QED  BY <1>1, <1>5, <1>6 DEF Extended

NodeReplaced(u, t, k, r) ==
    IsList(u) /\ Len(u) = Len(t) /\ u[k] = r /\ \A n \in 1 .. Len(t) : n # k => u[n] = t[n]

LEMMA ListExcept ==
    ASSUME NEW t, IsList(t), NEW k \in 1 .. Len(t), NEW r
    PROVE  NodeReplaced([t EXCEPT ![k] = r], t, k, r)
<1> DEFINE u == [t EXCEPT ![k] = r]
<1>1. PICK m \in Nat : m = Len(t)
  BY DEF IsList
<1>2. PICK S : S = {t[n] : n \in 1 .. m} \cup {r}
  OBVIOUS
<1>3. t \in [1 .. m -> S]
  BY <1>1, <1>2 DEF IsList
<1>4. u \in [1 .. m -> S]
  BY <1>1, <1>2, <1>3
<1>5. Len(u) = m /\ IsList(u)
  BY <1>4, ListIs
<1>6. u[k] = r /\ \A n \in 1 .. m : n # k => u[n] = t[n]
  BY <1>1, <1>3
<1> QED  BY <1>1, <1>5, <1>6 DEF NodeReplaced

NodeFields == {"Parent", "Sibling", "Child", "TypeX", "text", "ref", "DataFormat"}

\* c has the children of p, each once, in the order of their ring.
Ring(t, p, c) ==
    /\ IsList(c) /\ \A i \in 1 .. Len(c) : c[i] \in 1 .. Len(t)
    /\ \A i, j \in 1 .. Len(c) : c[i] = c[j] => i = j
    /\ \A i \in 1 .. Len(c) : t[c[i]].Parent = p /\ t[c[i]].Sibling = IF i = Len(c) THEN c[1] ELSE c[i + 1]
    /\ t[p].Child = IF Len(c) = 0 THEN NULL ELSE c[1]
    /\ \A n \in 1 .. Len(t) : t[n].Parent = p => \E i \in 1 .. Len(c) : c[i] = n

IsNodes(t) ==
    /\ IsList(t) /\ Len(t) # 0
    /\ \A n \in 1 .. Len(t) : DOMAIN t[n] = NodeFields
    /\ t[1].Parent = NULL /\ \A n \in 2 .. Len(t) : t[n].Parent \in 1 .. Len(t)

IsHierarchy(t) == IsNodes(t) /\ \A p \in 1 .. Len(t) : Ring(t, p, Children(t, p))

\* A ring is not longer than there are nodes.
LEMMA RingIsShort ==
    ASSUME NEW t, IsList(t), NEW p, NEW c, Ring(t, p, c)
    PROVE  Len(c) <= Len(t)
<1>1. PICK m \in Nat, n \in Nat : m = Len(c) /\ n = Len(t)
  BY DEF Ring, IsList
<1>2. PICK f : f = [i \in 1 .. m |-> c[i]]
  OBVIOUS
<1>3. f \in Injection(1 .. m, 1 .. n)
  <2>1. f \in [1 .. m -> 1 .. n]
    BY <1>1, <1>2 DEF Ring
  <2>2. IsInjective(f)
    BY <1>1, <1>2 DEF Ring, IsInjective
  <2> QED  BY <2>1, <2>2 DEF Injection
<1>4. IsFiniteSet(1 .. n) /\ Cardinality(1 .. n) = n /\ Cardinality(1 .. m) = m
  <2>1. 1 \in Int /\ m \in Int /\ n \in Int
    OBVIOUS
  <2>2. IsFiniteSet(1 .. n) /\ Cardinality(1 .. n) = IF 1 > n THEN 0 ELSE n - 1 + 1
    BY <2>1, FS_Interval
  <2>3. Cardinality(1 .. m) = IF 1 > m THEN 0 ELSE m - 1 + 1
    BY <2>1, FS_Interval
  <2> QED  BY <2>2, <2>3
<1>5. Cardinality(1 .. m) <= Cardinality(1 .. n)
  BY <1>3, <1>4, FS_Injection
<1> QED  BY <1>1, <1>4, <1>5

\* One step along a ring.
OneFurther(t, d) == IF d = <<>> \/ t[Last(d)].Sibling = d[1] THEN d ELSE Append(d, t[Last(d)].Sibling)

\* The walk along a ring: d first, then n steps.
IsRingwalk(t, d, n, f) ==
    f = [k \in 0 .. n |-> IF k = 0 THEN d ELSE OneFurther(t, f[k - 1])]

LEMMA RingwalkExists ==
    ASSUME NEW t, NEW d, NEW n \in Nat
    PROVE  \E f : IsRingwalk(t, d, n, f)
<1> DEFINE K == {j \in Nat : \E f : IsRingwalk(t, d, j, f)}
<1>1. 0 \in K
  <2>1. PICK f : f = [k \in 0 .. 0 |-> d]
    OBVIOUS
  <2>2. IsRingwalk(t, d, 0, f)
    BY <2>1 DEF IsRingwalk
  <2> QED  BY <2>2
<1>2. ASSUME NEW j \in Nat, j \in K
      PROVE  j + 1 \in K
  <2>1. PICK f : IsRingwalk(t, d, j, f)
    BY <1>2
  <2>2. PICK next : next = OneFurther(t, f[j])
    OBVIOUS
  <2>3. PICK h : h = [k \in 0 .. j + 1 |-> IF k = j + 1 THEN next ELSE f[k]]
    OBVIOUS
  <2>4. ASSUME NEW k \in 0 .. j + 1
        PROVE  h[k] = IF k = 0 THEN d ELSE OneFurther(t, h[k - 1])
    <3>1. CASE k = j + 1
      <4>1. h[k - 1] = f[j] /\ k # 0 /\ h[k] = next
        BY <2>3, <3>1
      <4> QED  BY <2>2, <3>1, <4>1
    <3>2. CASE k = 0
      BY <2>1, <2>3, <3>2 DEF IsRingwalk
    <3>3. CASE k # 0 /\ k # j + 1
      <4>1. k \in 0 .. j /\ h[k] = f[k] /\ h[k - 1] = f[k - 1]
        BY <2>3, <3>3
      <4> QED  BY <2>1, <3>3, <4>1 DEF IsRingwalk
    <3> QED  BY <3>1, <3>2, <3>3
  <2>5. IsRingwalk(t, d, j + 1, h)
    BY <2>3, <2>4 DEF IsRingwalk
  <2> QED  BY <2>5
<1>3. K \in SUBSET Nat
  OBVIOUS
<1> HIDE DEF K
<1>4. K = Nat
  BY <1>1, <1>2, <1>3, AllNumbers
<1>5. n \in K
  BY <1>4
<1> QED  BY <1>5 DEF K

LEMMA RingwalkFold ==
    ASSUME NEW t, NEW p, Len(t) \in Nat
    PROVE  \E f : /\ f[0] = (IF t[p].Child = NULL THEN <<>> ELSE <<t[p].Child>>)
                  /\ \A k \in 1 .. Len(t) : f[k] = OneFurther(t, f[k - 1])
                  /\ Children(t, p) = f[Len(t)]
<1>1. PICK n \in Nat : n = Len(t)
  OBVIOUS
<1>2. PICK d : d = (IF t[p].Child = NULL THEN <<>> ELSE <<t[p].Child>>)
  OBVIOUS
<1> DEFINE walk == CHOOSE f : IsRingwalk(t, d, n, f)
<1>3. Children(t, p) = walk[n]
  BY <1>1, <1>2 DEF Children, OneFurther, FoldAlong, IsRingwalk
<1>4. \E f : IsRingwalk(t, d, n, f)
  BY <1>1, RingwalkExists
<1>5. IsRingwalk(t, d, n, walk)
  BY <1>4
<1> HIDE DEF walk
<1>6. PICK f : f = walk
  OBVIOUS
<1>7. f[0] = d /\ \A k \in 1 .. n : f[k] = OneFurther(t, f[k - 1])
  BY <1>5, <1>6 DEF IsRingwalk
<1> QED  BY <1>1, <1>2, <1>3, <1>6, <1>7

LEMMA RingIsChildren ==
    ASSUME NEW t, IsList(t), NEW p, NEW c, Ring(t, p, c)
    PROVE  Children(t, p) = c
<1>1. PICK n \in Nat, m \in Nat : n = Len(t) /\ m = Len(c) /\ m <= n
  BY RingIsShort DEF Ring, IsList
<1>2. PICK d : d = IF t[p].Child = NULL THEN <<>> ELSE <<t[p].Child>>
  OBVIOUS
<1>4. PICK f : /\ f[0] = (IF t[p].Child = NULL THEN <<>> ELSE <<t[p].Child>>)
               /\ \A k \in 1 .. Len(t) : f[k] = OneFurther(t, f[k - 1])
               /\ Children(t, p) = f[Len(t)]
  BY <1>1, RingwalkFold
<1>3. f[0] = d /\ (\A k \in 1 .. n : f[k] = OneFurther(t, f[k - 1])) /\ Children(t, p) = f[n]
  <2>1. f[0] = d
    BY <1>2, <1>4
  <2>2. \A k \in 1 .. n : f[k] = OneFurther(t, f[k - 1])
    BY <1>1, <1>4
  <2>3. Children(t, p) = f[n]
    BY <1>1, <1>4
  <2> QED  BY <2>1, <2>2, <2>3
<1>6. f[0] = d /\ \A k \in 1 .. n : f[k] = OneFurther(t, f[k - 1])
  BY <1>3
<1>7. CASE m = 0
  <2>1. d = <<>>
    BY <1>1, <1>2, <1>7 DEF Ring
  <2> DEFINE K == {j \in Nat : j <= n => f[j] = <<>>}
  <2>2. 0 \in K
    BY <1>6, <2>1
  <2>3. ASSUME NEW j \in Nat, j \in K
        PROVE  j + 1 \in K
    <3> SUFFICES ASSUME j + 1 <= n
                 PROVE  f[j + 1] = <<>>
      OBVIOUS
    <3>1. j + 1 \in 1 .. n /\ j + 1 - 1 = j /\ f[j] = <<>>
      BY <2>3
    <3>2. f[j + 1] = OneFurther(t, f[j])
      BY <1>6, <3>1
    <3> QED  BY <3>1, <3>2 DEF OneFurther
  <2>4. K \in SUBSET Nat
    OBVIOUS
  <2> HIDE DEF K
  <2>5. n \in K
    BY <2>2, <2>3, <2>4, AllNumbers
  <2>6. c = <<>>
    BY <1>1, <1>7 DEF Ring, IsList
  <2> QED  BY <1>3, <2>5, <2>6 DEF K
<1>8. CASE m # 0
  <2>1. d = <<c[1]>> /\ c[1] \in 1 .. n
    BY <1>1, <1>2, <1>8 DEF Ring, NULL
  <2> DEFINE Met(e, l) == IsList(e) /\ Len(e) = l /\ \A i \in 1 .. l : e[i] = c[i]
             Seen(j) == IF j + 1 < m THEN j + 1 ELSE m
             K == {j \in Nat : j <= n => Met(f[j], Seen(j))}
  <2>2. 0 \in K
    <3>1. IsList(d) /\ Len(d) = 1 /\ d[1] = c[1]
      BY <2>1 DEF IsList
    <3>2. Met(d, 1)
      BY <3>1
    <3>3. Seen(0) = 1 /\ f[0] = d
      BY <1>1, <1>6, <1>8
    <3> HIDE DEF Met, Seen
    <3> QED  BY <3>2, <3>3
  <2>3. ASSUME NEW j \in Nat, j \in K
        PROVE  j + 1 \in K
    <3> SUFFICES ASSUME j + 1 <= n
                 PROVE  Met(f[j + 1], Seen(j + 1))
      OBVIOUS
    <3>1. j + 1 \in 1 .. n /\ j + 1 - 1 = j /\ Met(f[j], Seen(j))
      BY <2>3
    <3>2. PICK e, l : e = f[j] /\ l = Seen(j)
      OBVIOUS
    <3>3. f[j + 1] = OneFurther(t, e)
      BY <1>6, <3>1, <3>2
    <3>4. l \in 1 .. m /\ Met(e, l)
      BY <1>8, <3>1, <3>2
    <3>5. e # <<>> /\ Last(e) = c[l] /\ e[1] = c[1]
      <4>1. Last(e) = e[l]
        BY <3>4 DEF Last
      <4> QED  BY <3>4, <4>1
    <3>6. t[c[l]].Sibling = IF l = m THEN c[1] ELSE c[l + 1]
      BY <1>1, <3>4 DEF Ring
    <3>7. CASE l = m
      <4>1. f[j + 1] = e
        BY <3>3, <3>5, <3>6, <3>7 DEF OneFurther
      <4>2. Seen(j + 1) = m
        BY <3>2, <3>7
      <4> QED  BY <3>4, <3>7, <4>1, <4>2
    <3>8. CASE l # m
      <4>1. l + 1 \in 1 .. m /\ 1 \in 1 .. m /\ l + 1 # 1
        BY <3>4, <3>8
      <4>2. c[l + 1] # c[1]
        BY <1>1, <4>1 DEF Ring
      <4>3. f[j + 1] = Append(e, c[l + 1])
        BY <3>3, <3>5, <3>6, <3>8, <4>2 DEF OneFurther
      <4>4. PICK g, x : g = Append(e, x) /\ x = c[l + 1]
        OBVIOUS
      <4>8. g = f[j + 1]
        BY <4>3, <4>4
      <4>5. Extended(Append(e, x), e, x)
        BY <3>4, ListAppend
      <4>6. Seen(j + 1) = l + 1
        BY <3>2, <3>8
      <4>7. IsList(g) /\ Len(g) = l + 1 /\ \A i \in 1 .. l + 1 : g[i] = c[i]
        BY <3>4, <4>4, <4>5 DEF Extended
      <4> QED  BY <4>8, <4>6, <4>7
    <3> QED  BY <3>7, <3>8
  <2>4. K \in SUBSET Nat
    OBVIOUS
  <2>5. Seen(n) = m
    BY <1>1
  <2> HIDE DEF K
  <2>6. n \in K
    BY <2>2, <2>3, <2>4, AllNumbers
  <2>7. Met(f[n], m)
    BY <2>5, <2>6 DEF K
  <2>8. IsList(c)
    BY DEF Ring
  <2> QED  BY <1>1, <1>3, <2>7, <2>8, ListSame
<1> QED  BY <1>7, <1>8

LEMMA HierarchyChildren ==
    ASSUME NEW t, IsHierarchy(t), NEW p \in 1 .. Len(t)
    PROVE  Ring(t, p, Children(t, p))
  BY DEF IsHierarchy

\* The nodes of t, with one more: the last child of p.
JoinedNode(u, t, p) ==
    /\ u[Len(t) + 1].Parent = p /\ u[Len(t) + 1].Child = NULL
    /\ u[Len(t) + 1].Sibling = IF Len(Children(t, p)) = 0 THEN Len(t) + 1 ELSE Children(t, p)[1]

JoinedOthers(u, t, p) ==
    \A n \in 1 .. Len(t) :
        /\ u[n].Parent = t[n].Parent
        /\ u[n].Child = IF n = p /\ Len(Children(t, p)) = 0 THEN Len(t) + 1 ELSE t[n].Child
        /\ u[n].Sibling = IF Len(Children(t, p)) # 0 /\ n = Children(t, p)[Len(Children(t, p))]
                          THEN Len(t) + 1 ELSE t[n].Sibling

Joined(u, t, p) ==
    /\ IsList(u) /\ Len(u) = Len(t) + 1
    /\ \A n \in 1 .. Len(t) + 1 : DOMAIN u[n] = NodeFields
    /\ JoinedNode(u, t, p) /\ JoinedOthers(u, t, p)

\* What that makes of the hierarchy.
OneMore(u, t, p) ==
    /\ IsHierarchy(u) /\ Len(u) = Len(t) + 1
    /\ \A n \in 1 .. Len(t) : u[n].Parent = t[n].Parent
    /\ u[Len(t) + 1].Parent = p
    /\ Extended(Children(u, p), Children(t, p), Len(t) + 1)
    /\ \A n \in 1 .. Len(t) : n # p => Children(u, n) = Children(t, n)

LEMMA JoinedRing ==
    ASSUME NEW t, IsHierarchy(t), NEW p \in 1 .. Len(t), NEW u, Joined(u, t, p)
    PROVE  Ring(u, p, Append(Children(t, p), Len(t) + 1))
<1>1. PICK m \in Nat, c \in {Children(t, p)} : m = Len(t) /\ c = Children(t, p)
  BY DEF IsHierarchy, IsNodes, IsList
<1>2. Ring(t, p, c)
  BY <1>1, HierarchyChildren
<1>3. IsList(c)
  BY <1>2 DEF Ring
<1>4. PICK l \in Nat : l = Len(c)
  BY <1>3 DEF IsList
<1>5. PICK d : d = Append(c, m + 1)
  OBVIOUS
<1>6. Extended(Append(c, m + 1), c, m + 1)
  BY <1>3, ListAppend
<1>7. IsList(d) /\ Len(d) = l + 1 /\ d[l + 1] = m + 1 /\ \A i \in 1 .. l : d[i] = c[i]
  BY <1>4, <1>5, <1>6 DEF Extended
<1>8. \A i \in 1 .. l : c[i] \in 1 .. m
  BY <1>1, <1>2, <1>4 DEF Ring
<1>9. Len(u) = m + 1 /\ u[m + 1].Parent = p /\ u[m + 1].Sibling = IF l = 0 THEN m + 1 ELSE c[1]
  BY <1>1, <1>4 DEF Joined, JoinedNode
<1>10. \A n \in 1 .. m :
         /\ u[n].Parent = t[n].Parent
         /\ u[n].Child = IF n = p /\ l = 0 THEN m + 1 ELSE t[n].Child
         /\ u[n].Sibling = IF l # 0 /\ n = c[l] THEN m + 1 ELSE t[n].Sibling
  BY <1>1, <1>4 DEF Joined, JoinedOthers
<1>11. \A i \in 1 .. l + 1 : d[i] \in 1 .. m + 1
  BY <1>7, <1>8
<1>12. ASSUME NEW i \in 1 .. l + 1, NEW j \in 1 .. l + 1, d[i] = d[j]
       PROVE  i = j
  <2>1. \A k \in 1 .. l + 1 : k = l + 1 \/ k \in 1 .. l
    OBVIOUS
  <2>2. \A k \in 1 .. l : c[k] # m + 1
    BY <1>8
  <2>3. \A a, b \in 1 .. l : c[a] = c[b] => a = b
    BY <1>2, <1>4 DEF Ring
  <2> QED  BY <1>7, <1>12, <2>1, <2>2, <2>3
<1>13. ASSUME NEW i \in 1 .. l + 1
       PROVE  u[d[i]].Parent = p /\ u[d[i]].Sibling = IF i = l + 1 THEN d[1] ELSE d[i + 1]
  <2>1. CASE i = l + 1
    BY <1>7, <1>9, <2>1
  <2>2. CASE i # l + 1
    <3>1. i \in 1 .. l /\ d[i] = c[i] /\ c[i] \in 1 .. m
      BY <1>7, <1>8, <2>2
    <3>2. t[c[i]].Parent = p /\ t[c[i]].Sibling = IF i = l THEN c[1] ELSE c[i + 1]
      BY <1>2, <1>4, <3>1 DEF Ring
    <3>3. l # 0 /\ (c[i] = c[l] <=> i = l)
      BY <1>2, <1>4, <3>1 DEF Ring
    <3>4. i # l => d[i + 1] = c[i + 1]
      BY <1>7, <3>1
    <3>5. i = l => d[i + 1] = m + 1
      BY <1>7
    <3> QED  BY <1>10, <3>1, <3>2, <3>3, <3>4, <3>5, <2>2
  <2> QED  BY <2>1, <2>2
<1>14. u[p].Child = d[1]
  <2>1. t[p].Child = IF l = 0 THEN NULL ELSE c[1]
    BY <1>2, <1>4 DEF Ring
  <2> QED  BY <1>1, <1>7, <1>10, <2>1
<1>15. ASSUME NEW n \in 1 .. m + 1, u[n].Parent = p
       PROVE  \E i \in 1 .. l + 1 : d[i] = n
  <2>1. CASE n = m + 1
    BY <1>7, <2>1
  <2>2. CASE n # m + 1
    <3>1. n \in 1 .. m /\ t[n].Parent = p
      BY <1>10, <1>15, <2>2
    <3>2. PICK i \in 1 .. l : c[i] = n
      BY <1>1, <1>2, <1>4, <3>1 DEF Ring
    <3> QED  BY <1>7, <3>2
  <2> QED  BY <2>1, <2>2
<1>16. Ring(u, p, d)
  <2>1. l + 1 # 0
    OBVIOUS
  <2> QED  BY <1>7, <1>9, <1>11, <1>12, <1>13, <1>14, <1>15, <2>1 DEF Ring
<1> QED  BY <1>1, <1>5, <1>16

LEMMA JoinedOtherRing ==
    ASSUME NEW t, IsHierarchy(t), NEW p \in 1 .. Len(t), NEW u, Joined(u, t, p),
           NEW q \in 1 .. Len(t), q # p
    PROVE  Ring(u, q, Children(t, q))
<1>1. PICK m \in Nat, c \in {Children(t, p)}, e \in {Children(t, q)} : m = Len(t) /\ c = Children(t, p) /\ e = Children(t, q)
  BY DEF IsHierarchy, IsNodes, IsList
<1>2. Ring(t, p, c) /\ Ring(t, q, e)
  BY <1>1, HierarchyChildren
<1>3. PICK l \in Nat, k \in Nat : l = Len(c) /\ k = Len(e)
  BY <1>2 DEF Ring, IsList
<1>4. \A n \in 1 .. m :
         /\ u[n].Parent = t[n].Parent
         /\ u[n].Child = IF n = p /\ l = 0 THEN m + 1 ELSE t[n].Child
         /\ u[n].Sibling = IF l # 0 /\ n = c[l] THEN m + 1 ELSE t[n].Sibling
  BY <1>1, <1>3 DEF Joined, JoinedOthers
<1>5. Len(u) = m + 1 /\ u[m + 1].Parent = p
  BY <1>1 DEF Joined, JoinedNode
<1>6. ASSUME NEW i \in 1 .. k
      PROVE  /\ e[i] \in 1 .. m /\ u[e[i]].Parent = q
             /\ u[e[i]].Sibling = IF i = k THEN e[1] ELSE e[i + 1]
  <2>1. /\ e[i] \in 1 .. m /\ t[e[i]].Parent = q
        /\ t[e[i]].Sibling = IF i = k THEN e[1] ELSE e[i + 1]
    BY <1>1, <1>2, <1>3 DEF Ring
  <2>2. l # 0 => e[i] # c[l]
    <3>1. SUFFICES ASSUME l # 0
                   PROVE  t[c[l]].Parent = p
      BY <2>1
    <3>2. l \in 1 .. l
      BY <3>1
    <3> QED  BY <1>2, <1>3, <3>2 DEF Ring
  <2> QED  BY <1>4, <2>1, <2>2
<1>7. u[q].Child = IF k = 0 THEN NULL ELSE e[1]
  <2>1. t[q].Child = IF k = 0 THEN NULL ELSE e[1]
    BY <1>2, <1>3 DEF Ring
  <2> QED  BY <1>1, <1>4, <2>1
<1>8. ASSUME NEW n \in 1 .. m + 1, u[n].Parent = q
      PROVE  \E i \in 1 .. k : e[i] = n
  <2>1. n \in 1 .. m /\ t[n].Parent = q
    BY <1>4, <1>5, <1>8
  <2> QED  BY <1>1, <1>2, <1>3, <2>1 DEF Ring
<1>9. IsList(e) /\ \A i, j \in 1 .. k : e[i] = e[j] => i = j
  BY <1>2, <1>3 DEF Ring
<1>10. Ring(u, q, e)
  <2>1. \A i \in 1 .. k : e[i] \in 1 .. m + 1
    BY <1>6
  <2> QED  BY <1>3, <1>5, <1>6, <1>7, <1>8, <1>9, <2>1 DEF Ring
<1> QED  BY <1>1, <1>10

LEMMA JoinedOneMore ==
    ASSUME NEW t, IsHierarchy(t), NEW p \in 1 .. Len(t), NEW u, Joined(u, t, p)
    PROVE  OneMore(u, t, p)
<1>1. PICK m \in Nat, c \in {Children(t, p)} : m = Len(t) /\ c = Children(t, p)
  BY DEF IsHierarchy, IsNodes, IsList
<1>2. IsList(u) /\ Len(u) = m + 1 /\ u[m + 1].Parent = p /\ u[m + 1].Child = NULL
  BY <1>1 DEF Joined, JoinedNode
<1>3. \A n \in 1 .. m : u[n].Parent = t[n].Parent
  BY <1>1 DEF Joined, JoinedOthers
<1>4. IsList(c)
  BY <1>1, HierarchyChildren DEF Ring
<1>5. Children(u, p) = Append(c, m + 1)
  <2>1. Ring(u, p, Append(c, m + 1))
    BY <1>1, JoinedRing
  <2> QED  BY <1>2, <2>1, RingIsChildren
<1>6. Extended(Children(u, p), c, m + 1)
  <2>1. Extended(Append(c, m + 1), c, m + 1)
    BY <1>4, ListAppend
  <2> QED  BY <1>5, <2>1
<1>7. ASSUME NEW q \in 1 .. m, q # p
      PROVE  Children(u, q) = Children(t, q)
  <2>1. Ring(u, q, Children(t, q))
    BY <1>1, <1>7, JoinedOtherRing
  <2> QED  BY <1>2, <2>1, RingIsChildren
<1>8. t[1].Parent = NULL /\ m # 0 /\ \A n \in 2 .. m : t[n].Parent \in 1 .. m
  BY <1>1 DEF IsHierarchy, IsNodes
<1>9. IsNodes(u)
  <2>1. \A n \in 1 .. m + 1 : DOMAIN u[n] = NodeFields
    BY <1>1 DEF Joined
  <2>2. u[1].Parent = NULL
    BY <1>3, <1>8
  <2>3. \A n \in 2 .. m + 1 : u[n].Parent \in 1 .. m + 1
    BY <1>1, <1>2, <1>3, <1>8
  <2> QED  BY <1>2, <2>1, <2>2, <2>3 DEF IsNodes
<1>10. ASSUME NEW q \in 1 .. m + 1
       PROVE  Ring(u, q, Children(u, q))
  <2>1. CASE q = p
    BY <1>1, <1>5, <2>1, JoinedRing
  <2>2. CASE q # p /\ q \in 1 .. m
    <3>1. Ring(u, q, Children(t, q))
      BY <1>1, <2>2, JoinedOtherRing
    <3> QED  BY <1>7, <2>2, <3>1
  <2>3. CASE q = m + 1
    <3>1. ASSUME NEW n \in 1 .. m + 1
          PROVE  u[n].Parent # m + 1
      <4>1. CASE n = m + 1
        BY <1>1, <1>2, <4>1
      <4>2. CASE n = 1
        BY <1>3, <1>8, <4>2 DEF NULL
      <4>3. CASE n \in 2 .. m
        <5>1. t[n].Parent \in 1 .. m
          BY <1>8, <4>3
        <5>2. n \in 1 .. m
          BY <4>3
        <5>3. u[n].Parent = t[n].Parent
          BY <1>3, <5>2
        <5> QED  BY <5>1, <5>3
      <4>4. n = m + 1 \/ n = 1 \/ n \in 2 .. m
        OBVIOUS
      <4> QED  BY <4>1, <4>2, <4>3, <4>4, Zenon
    <3>2. PICK e : e = <<>>
      OBVIOUS
    <3>3. IsList(e) /\ Len(e) = 0
      BY <3>2 DEF IsList
    <3>4. u[q].Child = NULL
      BY <1>2, <2>3
    <3>5. Ring(u, q, e)
      BY <1>2, <2>3, <3>1, <3>3, <3>4 DEF Ring
    <3>6. Children(u, q) = e
      BY <1>2, <3>5, RingIsChildren
    <3> QED  BY <3>5, <3>6
  <2> QED  BY <1>1, <2>1, <2>2, <2>3
<1>11. IsHierarchy(u)
  BY <1>2, <1>9, <1>10 DEF IsHierarchy
<1> QED  BY <1>1, <1>2, <1>3, <1>6, <1>7, <1>11 DEF OneMore

\* Only what does not belong to the links is different.
SameLinks(u, t) ==
    /\ IsList(u) /\ Len(u) = Len(t)
    /\ \A n \in 1 .. Len(t) :
         DOMAIN u[n] = NodeFields /\ u[n].Parent = t[n].Parent /\ u[n].Sibling = t[n].Sibling
         /\ u[n].Child = t[n].Child

SameHierarchy(u, t) ==
    /\ IsHierarchy(u) /\ Len(u) = Len(t) /\ \A n \in 1 .. Len(t) : u[n].Parent = t[n].Parent
    /\ \A n \in 1 .. Len(t) : Children(u, n) = Children(t, n)

LEMMA LinksHierarchy ==
    ASSUME NEW t, IsHierarchy(t), NEW u, SameLinks(u, t)
    PROVE  SameHierarchy(u, t)
<1>1. PICK m \in Nat : m = Len(t)
  BY DEF IsHierarchy, IsNodes, IsList
<1>2. IsList(u) /\ Len(u) = m
  BY <1>1 DEF SameLinks
<1>3. \A n \in 1 .. m : /\ DOMAIN u[n] = NodeFields /\ u[n].Parent = t[n].Parent
                        /\ u[n].Sibling = t[n].Sibling /\ u[n].Child = t[n].Child
  BY <1>1 DEF SameLinks
<1>4. IsNodes(u)
  <2>1. m # 0 /\ t[1].Parent = NULL /\ \A n \in 2 .. m : t[n].Parent \in 1 .. m
    BY <1>1 DEF IsHierarchy, IsNodes
  <2>2. u[1].Parent = NULL /\ \A n \in 2 .. m : u[n].Parent \in 1 .. m
    BY <1>3, <2>1
  <2> QED  BY <1>2, <1>3, <2>1, <2>2 DEF IsNodes
<1>5. ASSUME NEW q \in 1 .. m
      PROVE  Ring(u, q, Children(t, q)) /\ Children(u, q) = Children(t, q)
  <2>1. PICK e : e = Children(t, q)
    OBVIOUS
  <2>2. Ring(t, q, e)
    BY <1>1, <2>1, HierarchyChildren
  <2>3. PICK k \in Nat : k = Len(e)
    BY <2>2 DEF Ring, IsList
  <2>4. /\ IsList(e) /\ \A i \in 1 .. k : e[i] \in 1 .. m
        /\ \A i, j \in 1 .. k : e[i] = e[j] => i = j
    BY <1>1, <2>2, <2>3 DEF Ring
  <2>5. \A i \in 1 .. k : u[e[i]].Parent = q /\ u[e[i]].Sibling = IF i = k THEN e[1] ELSE e[i + 1]
    BY <1>3, <2>2, <2>3, <2>4 DEF Ring
  <2>6. u[q].Child = IF k = 0 THEN NULL ELSE e[1]
    BY <1>3, <2>2, <2>3 DEF Ring
  <2>7. \A n \in 1 .. m : u[n].Parent = q => \E i \in 1 .. k : e[i] = n
    BY <1>1, <1>3, <2>2, <2>3 DEF Ring
  <2>8. Ring(u, q, e)
    BY <1>2, <2>3, <2>4, <2>5, <2>6, <2>7 DEF Ring
  <2> QED  BY <1>2, <2>1, <2>8, RingIsChildren
<1>6. IsHierarchy(u)
  BY <1>2, <1>4, <1>5 DEF IsHierarchy
<1> QED  BY <1>1, <1>2, <1>3, <1>5, <1>6 DEF SameHierarchy

LEMMA OneMoreSame ==
    ASSUME NEW t, IsHierarchy(t), NEW p \in 1 .. Len(t), NEW u, OneMore(u, t, p), NEW v, SameLinks(v, u)
    PROVE  OneMore(v, t, p)
<1>1. PICK m \in Nat : m = Len(t)
  BY DEF IsHierarchy, IsNodes, IsList
<1>2. IsHierarchy(u) /\ Len(u) = m + 1
  BY <1>1 DEF OneMore
<1>3. SameHierarchy(v, u)
  BY <1>2, LinksHierarchy
<1>4. /\ IsHierarchy(v) /\ Len(v) = m + 1
      /\ \A n \in 1 .. m + 1 : v[n].Parent = u[n].Parent /\ Children(v, n) = Children(u, n)
  BY <1>2, <1>3 DEF SameHierarchy
<1>5. /\ \A n \in 1 .. m : u[n].Parent = t[n].Parent
      /\ u[m + 1].Parent = p
      /\ Extended(Children(u, p), Children(t, p), m + 1)
      /\ \A n \in 1 .. m : n # p => Children(u, n) = Children(t, n)
  BY <1>1 DEF OneMore
<1>6. Extended(Children(v, p), Children(t, p), m + 1)
  BY <1>1, <1>4, <1>5
<1> QED  BY <1>1, <1>4, <1>5, <1>6 DEF OneMore

-----------------------------------------------------------------------------
(* Nodes are changed field by field *)

\* The links of a node, which its type and its text leave alone.
SameLinkFields(r, n) == DOMAIN r = NodeFields /\ r.Parent = n.Parent /\ r.Child = n.Child /\ r.Sibling = n.Sibling

LEMMA SetLinks ==
    ASSUME NEW t, IsHierarchy(t), NEW n \in 1 .. Len(t), NEW r, SameLinkFields(r, t[n])
    PROVE  SameLinks([t EXCEPT ![n] = r], t)
<1>1. PICK m \in Nat, u \in {[t EXCEPT ![n] = r]} : m = Len(t) /\ u = [t EXCEPT ![n] = r]
  BY DEF IsHierarchy, IsNodes, IsList
<1>2. IsList(t) /\ \A k \in 1 .. m : DOMAIN t[k] = NodeFields
  BY <1>1 DEF IsHierarchy, IsNodes
<1>3. NodeReplaced([t EXCEPT ![n] = r], t, n, r)
  BY <1>2, ListExcept
<1>4. IsList(u) /\ Len(u) = m /\ u[n] = r /\ \A k \in 1 .. m : k # n => u[k] = t[k]
  BY <1>1, <1>3 DEF NodeReplaced
<1>5. \A k \in 1 .. m : SameLinkFields(u[k], t[k])
  BY <1>2, <1>4 DEF SameLinkFields
<1> QED  BY <1>1, <1>4, <1>5 DEF SameLinks, SameLinkFields

LEMMA SetIsSame ==
    ASSUME NEW t, IsHierarchy(t), NEW n \in 1 .. Len(t), NEW type, NEW text
    PROVE  SameLinks(Set(t, n, type, text), t)
<1>1. DOMAIN t[n] = NodeFields /\ IsList(t)
  BY DEF IsHierarchy, IsNodes
<1>2. PICK r : r = [[[t[n] EXCEPT !.TypeX = type] EXCEPT !.text = text] EXCEPT !.DataFormat = "FTLight"]
  OBVIOUS
<1>3. SameLinkFields(r, t[n])
  BY <1>1, <1>2 DEF SameLinkFields, NodeFields
<1>4. n \in DOMAIN t
  BY <1>1 DEF IsList
<1>5. Set(t, n, type, text) = [t EXCEPT ![n] = r]
  BY <1>2, <1>4 DEF Set
<1> QED  BY <1>3, <1>5, SetLinks

LEMMA NamedIsSame ==
    ASSUME NEW t, IsHierarchy(t)
    PROVE  SameLinks(Named(t), t)
<1>1. PICK m \in Nat : m = Len(t) /\ m # 0
  BY DEF IsHierarchy, IsNodes, IsList
<1>2. DOMAIN t[m] = NodeFields /\ IsList(t) /\ m \in 1 .. m
  BY <1>1 DEF IsHierarchy, IsNodes
<1>3. PICK r : r = [t[m] EXCEPT !.text = Append(@, "-")]
  OBVIOUS
<1>4. SameLinkFields(r, t[m])
  BY <1>2, <1>3 DEF SameLinkFields, NodeFields
<1>5. Named(t) = [t EXCEPT ![m] = r]
  BY <1>1, <1>3 DEF Named
<1> QED  BY <1>1, <1>2, <1>4, <1>5, SetLinks

-----------------------------------------------------------------------------
(* addChild() and getChild() *)

LEMMA NewNodeIs ==
    ASSUME NEW m, NEW p, NEW s, NEW x
    PROVE  /\ DOMAIN [NewNode(m) EXCEPT !.Parent = p, !.Sibling = s] = NodeFields
           /\ [NewNode(m) EXCEPT !.Parent = p, !.Sibling = s].Parent = p
           /\ [NewNode(m) EXCEPT !.Parent = p, !.Sibling = s].Sibling = s
           /\ [NewNode(m) EXCEPT !.Parent = p, !.Sibling = s].Child = NULL
  BY DEF NewNode, NodeFields

\* Appended behind the last sibling of a ring.
LEMMA AppendJoined ==
    ASSUME NEW t, IsHierarchy(t), NEW p \in 1 .. Len(t), Len(Children(t, p)) # 0, NEW r,
           DOMAIN r = NodeFields, r.Parent = p, r.Child = NULL, r.Sibling = Children(t, p)[1],
           NEW l, l = Children(t, p)[Len(Children(t, p))]
    PROVE  Joined(Append([t EXCEPT ![l].Sibling = Len(t) + 1], r), t, p)
<1>1. PICK m \in Nat, c \in {Children(t, p)} : m = Len(t) /\ c = Children(t, p)
  BY DEF IsHierarchy, IsNodes, IsList
<1>2. Ring(t, p, c)
  BY <1>1, HierarchyChildren
<1>3. PICK k \in Nat : k = Len(c) /\ k # 0
  BY <1>1, <1>2 DEF Ring, IsList
<1>4. k \in 1 .. k /\ l = c[k]
  BY <1>1, <1>3
<1>5. l \in 1 .. m
  BY <1>1, <1>2, <1>3, <1>4 DEF Ring
<1>6. IsList(t) /\ \A n \in 1 .. m : DOMAIN t[n] = NodeFields
  BY <1>1 DEF IsHierarchy, IsNodes
<1>7. PICK q, u, v : q = [t[l] EXCEPT !.Sibling = m + 1] /\ u = [t EXCEPT ![l] = q] /\ v = Append(u, r)
  OBVIOUS
<1>8. NodeReplaced([t EXCEPT ![l] = q], t, l, q)
  BY <1>1, <1>5, <1>6, ListExcept
<1>9. IsList(u) /\ Len(u) = m /\ u[l] = q /\ \A n \in 1 .. m : n # l => u[n] = t[n]
  BY <1>1, <1>7, <1>8 DEF NodeReplaced
<1>10. Extended(Append(u, r), u, r)
  BY <1>9, ListAppend
<1>11. IsList(v) /\ Len(v) = m + 1 /\ v[m + 1] = r /\ \A n \in 1 .. m : v[n] = u[n]
  BY <1>7, <1>9, <1>10 DEF Extended
<1>12. DOMAIN q = NodeFields /\ q.Parent = t[l].Parent /\ q.Child = t[l].Child /\ q.Sibling = m + 1
  BY <1>5, <1>6, <1>7 DEF NodeFields
<1>13. JoinedOthers(v, t, p)
  <2>1. ASSUME NEW n \in 1 .. m
        PROVE  /\ v[n].Parent = t[n].Parent
               /\ v[n].Child = t[n].Child
               /\ v[n].Sibling = IF n = l THEN m + 1 ELSE t[n].Sibling
    BY <1>9, <1>11, <1>12
  <2>2. \A n \in 1 .. m : (n = p /\ Len(c) = 0) = FALSE
    BY <1>3
  <2> QED  BY <1>1, <1>3, <1>4, <2>1 DEF JoinedOthers
<1>14. JoinedNode(v, t, p)
  BY <1>1, <1>3, <1>11 DEF JoinedNode
<1>15. \A n \in 1 .. m + 1 : DOMAIN v[n] = NodeFields
  BY <1>6, <1>9, <1>11, <1>12
<1>16. Joined(v, t, p)
  BY <1>1, <1>11, <1>13, <1>14, <1>15 DEF Joined
<1> QED  BY <1>1, <1>7, <1>16

\* The first child of a node.
LEMMA AppendFirst ==
    ASSUME NEW t, IsHierarchy(t), NEW p \in 1 .. Len(t), Len(Children(t, p)) = 0, NEW r,
           DOMAIN r = NodeFields, r.Parent = p, r.Child = NULL, r.Sibling = Len(t) + 1
    PROVE  Joined(Append([t EXCEPT ![p].Child = Len(t) + 1], r), t, p)
<1>1. PICK m \in Nat, c \in {Children(t, p)} : m = Len(t) /\ c = Children(t, p)
  BY DEF IsHierarchy, IsNodes, IsList
<1>6. IsList(t) /\ \A n \in 1 .. m : DOMAIN t[n] = NodeFields
  BY <1>1 DEF IsHierarchy, IsNodes
<1>7. PICK q, u, v : q = [t[p] EXCEPT !.Child = m + 1] /\ u = [t EXCEPT ![p] = q] /\ v = Append(u, r)
  OBVIOUS
<1>8. NodeReplaced([t EXCEPT ![p] = q], t, p, q)
  BY <1>1, <1>6, ListExcept
<1>9. IsList(u) /\ Len(u) = m /\ u[p] = q /\ \A n \in 1 .. m : n # p => u[n] = t[n]
  BY <1>1, <1>7, <1>8 DEF NodeReplaced
<1>10. Extended(Append(u, r), u, r)
  BY <1>9, ListAppend
<1>11. IsList(v) /\ Len(v) = m + 1 /\ v[m + 1] = r /\ \A n \in 1 .. m : v[n] = u[n]
  BY <1>7, <1>9, <1>10 DEF Extended
<1>12. DOMAIN q = NodeFields /\ q.Parent = t[p].Parent /\ q.Sibling = t[p].Sibling /\ q.Child = m + 1
  BY <1>1, <1>6, <1>7 DEF NodeFields
<1>13. JoinedOthers(v, t, p)
  <2>1. ASSUME NEW n \in 1 .. m
        PROVE  /\ v[n].Parent = t[n].Parent
               /\ v[n].Child = IF n = p THEN m + 1 ELSE t[n].Child
               /\ v[n].Sibling = t[n].Sibling
    BY <1>9, <1>11, <1>12
  <2> QED  BY <1>1, <2>1 DEF JoinedOthers
<1>14. JoinedNode(v, t, p)
  BY <1>1, <1>11 DEF JoinedNode
<1>15. \A n \in 1 .. m + 1 : DOMAIN v[n] = NodeFields
  BY <1>6, <1>9, <1>11, <1>12
<1>16. Joined(v, t, p)
  BY <1>1, <1>11, <1>13, <1>14, <1>15 DEF Joined
<1> QED  BY <1>1, <1>7, <1>16

LEMMA FirstChild ==
    ASSUME NEW t, IsHierarchy(t), NEW p \in 1 .. Len(t)
    PROVE  /\ t[p].Child = NULL <=> Len(Children(t, p)) = 0
           /\ t[p].Child # NULL => t[p].Child = Children(t, p)[1]
<1>1. PICK m \in Nat, c \in {Children(t, p)} : m = Len(t) /\ c = Children(t, p)
  BY DEF IsHierarchy, IsNodes, IsList
<1>2. Ring(t, p, c)
  BY <1>1, HierarchyChildren
<1>3. PICK k \in Nat : k = Len(c)
  BY <1>2 DEF Ring, IsList
<1>4. k # 0 => c[1] \in 1 .. m
  BY <1>1, <1>2, <1>3 DEF Ring
<1>5. t[p].Child = IF k = 0 THEN NULL ELSE c[1]
  BY <1>2, <1>3 DEF Ring
<1> QED  BY <1>1, <1>3, <1>4, <1>5 DEF NULL

LEMMA LastChildIs ==
    ASSUME NEW t, IsHierarchy(t), NEW p \in 1 .. Len(t), t[p].Child # NULL
    PROVE  LastChild(t, t[p].Child) = Children(t, p)[Len(Children(t, p))]
<1>1. PICK m \in Nat, c \in {Children(t, p)} : m = Len(t) /\ c = Children(t, p)
  BY DEF IsHierarchy, IsNodes, IsList
<1>2. Ring(t, p, c)
  BY <1>1, HierarchyChildren
<1>3. PICK k \in Nat : k = Len(c) /\ k # 0
  BY <1>1, <1>2, FirstChild DEF Ring, IsList
<1>4. t[p].Child = c[1]
  BY <1>1, FirstChild
<1>5. k \in 1 .. k /\ 1 \in 1 .. k
  BY <1>3
<1>6. t[c[1]].Parent = p
  BY <1>2, <1>3, <1>5 DEF Ring
<1>7. DOMAIN t = 1 .. m
  BY <1>1 DEF IsHierarchy, IsNodes, IsList
<1>8. c[k] \in Nodes(t) /\ t[c[k]].Sibling = c[1] /\ t[c[k]].Parent = p
  BY <1>1, <1>2, <1>3, <1>5, <1>7 DEF Ring, Nodes
<1>9. ASSUME NEW n \in Nodes(t), t[n].Sibling = c[1], t[n].Parent = p
      PROVE  n = c[k]
  <2>1. PICK i \in 1 .. k : c[i] = n
    BY <1>1, <1>2, <1>3, <1>7, <1>9 DEF Ring, Nodes
  <2>2. t[c[i]].Sibling = IF i = k THEN c[1] ELSE c[i + 1]
    BY <1>2, <1>3, <2>1 DEF Ring
  <2>3. i # k => i + 1 \in 1 .. k /\ i + 1 # 1
    BY <2>1
  <2>4. \A a, b \in 1 .. k : c[a] = c[b] => a = b
    BY <1>2, <1>3 DEF Ring
  <2> QED  BY <1>5, <1>9, <2>1, <2>2, <2>3, <2>4
<1>10. LastChild(t, c[1]) = c[k]
  BY <1>6, <1>8, <1>9 DEF LastChild
<1> QED  BY <1>1, <1>3, <1>4, <1>10

LEMMA AddChildOneMore ==
    ASSUME NEW t, IsHierarchy(t), NEW p \in 1 .. Len(t)
    PROVE  OneMore(AddChild(t, p), t, p)
<1>1. PICK m \in Nat : m = Len(t)
  BY DEF IsHierarchy, IsNodes, IsList
<1>2. CASE t[p].Child = NULL
  <2>1. PICK r : r = [NewNode(m + 1) EXCEPT !.Parent = p, !.Sibling = m + 1]
    OBVIOUS
  <2>2. DOMAIN r = NodeFields /\ r.Parent = p /\ r.Child = NULL /\ r.Sibling = m + 1
    BY <2>1, NewNodeIs
  <2>3. Joined(Append([t EXCEPT ![p].Child = Len(t) + 1], r), t, p)
    BY <1>1, <1>2, <2>2, FirstChild, AppendFirst
  <2>4. AddChild(t, p) = Append([t EXCEPT ![p].Child = Len(t) + 1], r)
    BY <1>1, <1>2, <2>1 DEF AddChild
  <2> QED  BY <2>3, <2>4, JoinedOneMore
<1>3. CASE t[p].Child # NULL
  <2>1. PICK r, f, l : /\ r = [NewNode(m + 1) EXCEPT !.Parent = p, !.Sibling = f]
                       /\ f = t[p].Child /\ l = LastChild(t, t[p].Child)
    OBVIOUS
  <2>2. DOMAIN r = NodeFields /\ r.Parent = p /\ r.Child = NULL /\ r.Sibling = f
    BY <2>1, NewNodeIs
  <2>3. Len(Children(t, p)) # 0 /\ f = Children(t, p)[1] /\ l = Children(t, p)[Len(Children(t, p))]
    BY <1>3, <2>1, FirstChild, LastChildIs
  <2>4. Joined(Append([t EXCEPT ![l].Sibling = Len(t) + 1], r), t, p)
    BY <2>2, <2>3, AppendJoined
  <2>5. AddChild(t, p) = Append([t EXCEPT ![l].Sibling = Len(t) + 1], r)
    BY <1>1, <1>3, <2>1 DEF AddChild
  <2> QED  BY <2>4, <2>5, JoinedOneMore
<1> QED  BY <1>2, <1>3

-----------------------------------------------------------------------------
(* Hierarchies only grow: behind the last child of a node *)

Prefix(c, d) == Len(c) <= Len(d) /\ \A i \in 1 .. Len(c) : d[i] = c[i]

Grown(u, t) ==
    /\ IsHierarchy(u) /\ Len(t) <= Len(u)
    /\ \A n \in 1 .. Len(t) : u[n].Parent = t[n].Parent /\ Prefix(Children(t, n), Children(u, n))

LEMMA ChildrenAreList ==
    ASSUME NEW t, IsHierarchy(t), NEW p \in 1 .. Len(t)
    PROVE  IsList(Children(t, p)) /\ Len(Children(t, p)) \in Nat
<1>1. PICK c : c = Children(t, p)
  OBVIOUS
<1>2. Ring(t, p, c)
  BY <1>1, HierarchyChildren
<1> QED  BY <1>1, <1>2 DEF Ring, IsList

LEMMA GrownSame ==
    ASSUME NEW t, IsHierarchy(t), NEW u, SameHierarchy(u, t)
    PROVE  Grown(u, t)
<1>1. PICK m \in Nat : m = Len(t)
  BY DEF IsHierarchy, IsNodes, IsList
<1>2. ASSUME NEW n \in 1 .. m
      PROVE  Prefix(Children(t, n), Children(u, n))
  <2>1. Children(u, n) = Children(t, n) /\ Len(Children(t, n)) \in Nat
    BY <1>1, ChildrenAreList DEF SameHierarchy
  <2> QED  BY <2>1 DEF Prefix
<1> QED  BY <1>1, <1>2 DEF Grown, SameHierarchy

LEMMA SameAsItself ==
    ASSUME NEW t, IsHierarchy(t)
    PROVE  Grown(t, t)
<1>1. SameHierarchy(t, t)
  BY DEF SameHierarchy
<1> QED  BY <1>1, GrownSame

LEMMA GrownOneMore ==
    ASSUME NEW t, IsHierarchy(t), NEW p \in 1 .. Len(t), NEW u, OneMore(u, t, p)
    PROVE  Grown(u, t)
<1>1. PICK m \in Nat : m = Len(t)
  BY DEF IsHierarchy, IsNodes, IsList
<1>2. IsHierarchy(u) /\ Len(u) = m + 1 /\ \A n \in 1 .. m : u[n].Parent = t[n].Parent
  BY <1>1 DEF OneMore
<1>3. ASSUME NEW n \in 1 .. m
      PROVE  Prefix(Children(t, n), Children(u, n))
  <2>1. PICK c, d : c = Children(t, n) /\ d = Children(u, n)
    OBVIOUS
  <2>2. PICK l \in Nat : l = Len(c)
    BY <1>1, <2>1, ChildrenAreList
  <2>3. CASE n = p
    <3>1. Extended(d, c, m + 1)
      BY <1>1, <2>1, <2>3 DEF OneMore
    <3> QED  BY <2>1, <2>2, <3>1 DEF Extended, Prefix
  <2>4. CASE n # p
    <3>1. d = c
      BY <1>1, <2>1, <2>4 DEF OneMore
    <3> QED  BY <2>1, <2>2, <3>1 DEF Prefix
  <2> QED  BY <2>3, <2>4
<1> QED  BY <1>1, <1>2, <1>3 DEF Grown

LEMMA GrownTwice ==
    ASSUME NEW t, IsHierarchy(t), NEW u, Grown(u, t), NEW v, Grown(v, u)
    PROVE  Grown(v, t)
<1>1. PICK m \in Nat : m = Len(t)
  BY DEF IsHierarchy, IsNodes, IsList
<1>2. PICK k \in Nat, l \in Nat : k = Len(u) /\ l = Len(v) /\ m <= k /\ k <= l
  <2>1. IsHierarchy(u) /\ IsHierarchy(v) /\ Len(t) <= Len(u) /\ Len(u) <= Len(v)
    BY DEF Grown
  <2>2. Len(u) \in Nat /\ Len(v) \in Nat
    BY <2>1 DEF IsHierarchy, IsNodes, IsList
  <2> QED  BY <1>1, <2>1, <2>2
<1>3. ASSUME NEW n \in 1 .. m
      PROVE  v[n].Parent = t[n].Parent /\ Prefix(Children(t, n), Children(v, n))
  <2>1. PICK c, d, e : c = Children(t, n) /\ d = Children(u, n) /\ e = Children(v, n)
    OBVIOUS
  <2>2. n \in 1 .. k
    BY <1>2
  <2>3. Len(c) \in Nat /\ Len(d) \in Nat /\ Len(e) \in Nat
    BY <1>1, <1>2, <2>1, <2>2, ChildrenAreList DEF Grown
  <2>4. Prefix(c, d) /\ u[n].Parent = t[n].Parent
    BY <1>1, <2>1 DEF Grown
  <2>5. Prefix(d, e) /\ v[n].Parent = u[n].Parent
    BY <1>2, <2>1, <2>2 DEF Grown
  <2>6. Len(c) <= Len(e) /\ \A i \in 1 .. Len(c) : e[i] = c[i]
    BY <2>3, <2>4, <2>5 DEF Prefix
  <2> QED  BY <2>1, <2>4, <2>5, <2>6 DEF Prefix
<1> QED  BY <1>1, <1>2, <1>3 DEF Grown

\* A hierarchy and a node of it.
IsPlace(p) == p = [t |-> p.t, at |-> p.at] /\ IsHierarchy(p.t) /\ p.at \in 1 .. Len(p.t)

\* The child k of p.at, counted from zero; when it was there already, nothing else is different.
ChildAt(q, p, k) ==
    /\ IsPlace(q) /\ Grown(q.t, p.t)
    /\ k < Len(Children(q.t, p.at)) /\ q.at = Children(q.t, p.at)[k + 1]
    /\ k < Len(Children(p.t, p.at)) => q.t = p.t

FirstPlace(p) ==
    IF p.t[p.at].Child # NULL THEN [p EXCEPT !.at = p.t[p.at].Child]
    ELSE [t |-> Named(AddChild(p.t, p.at)), at |-> Len(p.t) + 1]

NextPlace(q) ==
    IF q.t[q.at].Sibling # q.t[q.t[q.t[q.at].Sibling].Parent].Child THEN [q EXCEPT !.at = q.t[q.at].Sibling]
    ELSE [t |-> Append([q.t EXCEPT ![q.at].Sibling = Len(q.t) + 1],
                       [NewNode(Len(q.t) + 1) EXCEPT !.Parent = q.t[q.at].Parent, !.Sibling = q.t[q.at].Sibling,
                                                     !.text = <<"-">>]),
          at |-> Len(q.t) + 1]

LEMMA PlaceIs ==
    ASSUME NEW t, IsHierarchy(t), NEW a \in 1 .. Len(t), NEW p, p = [t |-> t, at |-> a]
    PROVE  IsPlace(p) /\ p.t = t /\ p.at = a
  BY DEF IsPlace

LEMMA FirstPlaceIs ==
    ASSUME NEW p, IsPlace(p)
    PROVE  ChildAt(FirstPlace(p), p, 0)
<1>9. PICK t, a, m : t = p.t /\ a = p.at /\ m = Len(p.t)
  OBVIOUS
<1>1. /\ t = p.t /\ a = p.at /\ m = Len(t) /\ IsHierarchy(t) /\ a \in 1 .. m /\ m \in Nat
      /\ p = [t |-> t, at |-> a]
  <2>2. p = [t |-> t, at |-> a]
    BY <1>9 DEF IsPlace
  <2>3. m \in Nat /\ IsHierarchy(t) /\ a \in 1 .. m
    BY <1>9 DEF IsPlace, IsHierarchy, IsNodes, IsList
  <2> QED  BY <1>9, <2>2, <2>3
<1>2. CASE t[a].Child # NULL
  <2>1. PICK c : c = Children(t, a)
    OBVIOUS
  <2>2. Ring(t, a, c)
    BY <1>1, <2>1, HierarchyChildren
  <2>3. PICK l \in Nat : l = Len(c)
    BY <2>2 DEF Ring, IsList
  <2>4. l # 0 /\ t[a].Child = c[1]
    BY <1>1, <1>2, <2>1, <2>3, FirstChild
  <2>5. c[1] \in 1 .. m
    BY <1>1, <2>2, <2>3, <2>4 DEF Ring
  <2>6. PICK q : q = [t |-> t, at |-> c[1]]
    OBVIOUS
  <2>7. FirstPlace(p) = q
    BY <1>1, <1>2, <2>4, <2>6 DEF FirstPlace
  <2>8. IsPlace(q) /\ q.t = t /\ q.at = c[1]
    BY <1>1, <2>5, <2>6, PlaceIs
  <2>9. Grown(t, t)
    BY <1>1, SameAsItself
  <2>10. ChildAt(q, p, 0)
    BY <1>1, <2>1, <2>3, <2>4, <2>8, <2>9 DEF ChildAt
  <2> QED  BY <2>7, <2>10
<1>3. CASE t[a].Child = NULL
  <2>1. PICK v, u : v = AddChild(t, a) /\ u = Named(v)
    OBVIOUS
  <2>2. OneMore(v, t, a)
    BY <1>1, <2>1, AddChildOneMore
  <2>3. SameLinks(u, v)
    BY <2>1, <2>2, NamedIsSame DEF OneMore
  <2>4. OneMore(u, t, a)
    BY <1>1, <2>2, <2>3, OneMoreSame
  <2>5. Grown(u, t)
    BY <1>1, <2>4, GrownOneMore
  <2>6. Len(Children(t, a)) = 0
    BY <1>1, <1>3, FirstChild
  <2>7. Len(Children(u, a)) = 1 /\ Children(u, a)[1] = m + 1
    <3>1. Extended(Children(u, a), Children(t, a), m + 1)
      BY <1>1, <2>4 DEF OneMore
    <3> QED  BY <2>6, <3>1 DEF Extended
  <2>8. IsHierarchy(u) /\ Len(u) = m + 1 /\ m + 1 \in 1 .. m + 1
    BY <1>1, <2>4 DEF OneMore
  <2>9. PICK q : q = [t |-> u, at |-> m + 1]
    OBVIOUS
  <2>10. FirstPlace(p) = q
    BY <1>1, <1>3, <2>1, <2>9 DEF FirstPlace
  <2>11. IsPlace(q) /\ q.t = u /\ q.at = m + 1
    BY <2>8, <2>9, PlaceIs
  <2>12. ChildAt(q, p, 0)
    BY <1>1, <2>5, <2>6, <2>7, <2>11 DEF ChildAt
  <2> QED  BY <2>10, <2>12
<1> QED  BY <1>2, <1>3

LEMMA NextPlaceOf ==
    ASSUME NEW t, NEW b
    PROVE  NextPlace([t |-> t, at |-> b]) =
             IF t[b].Sibling # t[t[t[b].Sibling].Parent].Child THEN [t |-> t, at |-> t[b].Sibling]
             ELSE [t |-> Append([t EXCEPT ![b].Sibling = Len(t) + 1],
                                [NewNode(Len(t) + 1) EXCEPT !.Parent = t[b].Parent, !.Sibling = t[b].Sibling,
                                                            !.text = <<"-">>]),
                   at |-> Len(t) + 1]
  BY DEF NextPlace

LEMMA NextPlaceIs ==
    ASSUME NEW p, IsPlace(p), NEW k \in Nat, NEW q, ChildAt(q, p, k)
    PROVE  ChildAt(NextPlace(q), p, k + 1)
<1>1. PICK a : a = p.at /\ a \in 1 .. Len(p.t) /\ IsHierarchy(p.t)
  BY DEF IsPlace
<1>18. PICK t, b, m : t = q.t /\ b = q.at /\ m = Len(q.t)
  OBVIOUS
<1>2. /\ t = q.t /\ b = q.at /\ m = Len(t) /\ IsHierarchy(t) /\ b \in 1 .. m /\ m \in Nat
      /\ q = [t |-> t, at |-> b]
  <2>1. IsPlace(q)
    BY DEF ChildAt
  <2>2. q = [t |-> t, at |-> b]
    BY <1>18, <2>1 DEF IsPlace
  <2>3. m \in Nat /\ IsHierarchy(t) /\ b \in 1 .. m
    BY <1>18, <2>1 DEF IsPlace, IsHierarchy, IsNodes, IsList
  <2> QED  BY <1>18, <2>2, <2>3
<1>3. Grown(t, p.t)
  BY <1>2 DEF ChildAt
<1>4. a \in 1 .. m
  <2>1. Len(p.t) <= m /\ Len(p.t) \in Nat
    BY <1>1, <1>2, <1>3 DEF Grown, IsHierarchy, IsNodes, IsList
  <2> QED  BY <1>1, <1>2, <2>1
<1>5. PICK c : c = Children(t, a)
  OBVIOUS
<1>6. Ring(t, a, c)
  BY <1>2, <1>4, <1>5, HierarchyChildren
<1>7. PICK l \in Nat : l = Len(c)
  BY <1>6 DEF Ring, IsList
<1>8. k < l /\ b = c[k + 1]
  BY <1>1, <1>2, <1>5, <1>7 DEF ChildAt
<1>9. k + 1 \in 1 .. l /\ 1 \in 1 .. l
  BY <1>7, <1>8
<1>10. \A i, j \in 1 .. l : c[i] = c[j] => i = j
  BY <1>6, <1>7 DEF Ring
<1>11. t[b].Parent = a /\ t[b].Sibling = IF k + 1 = l THEN c[1] ELSE c[k + 2]
  BY <1>6, <1>7, <1>8, <1>9 DEF Ring
<1>12. t[a].Child = c[1]
  BY <1>6, <1>7, <1>8 DEF Ring
<1>13. PICK d : d = Children(p.t, a)
  OBVIOUS
<1>14. Prefix(d, c) /\ Len(d) \in Nat
  BY <1>1, <1>3, <1>5, <1>13, ChildrenAreList DEF Grown
<1>15. k < Len(d) => t = p.t
  BY <1>1, <1>2, <1>13 DEF ChildAt
<1>16. CASE k + 1 # l
  <2>1. k + 2 \in 1 .. l /\ k + 2 # 1
    BY <1>9, <1>16
  <2>2. c[k + 2] # c[1] /\ c[k + 2] \in 1 .. m /\ t[c[k + 2]].Parent = a
    BY <1>2, <1>6, <1>7, <1>9, <1>10, <2>1 DEF Ring
  <2>3. PICK r : r = [t |-> t, at |-> c[k + 2]]
    OBVIOUS
  <2>4. t[b].Sibling = c[k + 2]
    BY <1>11, <1>16
  <2>5. NextPlace(q) = r
    <3>1. NextPlace([t |-> t, at |-> b]) = [t |-> t, at |-> t[b].Sibling]
      <4>1. t[b].Sibling # t[t[t[b].Sibling].Parent].Child
        BY <1>12, <2>2, <2>4
      <4> QED  BY <4>1, NextPlaceOf
    <3> QED  BY <1>2, <2>3, <2>4, <3>1
  <2>6. IsPlace(r) /\ r.t = t /\ r.at = c[k + 2]
    BY <1>2, <2>2, <2>3, PlaceIs
  <2>7. k + 1 < l /\ k + 1 + 1 = k + 2
    BY <2>1
  <2>8. k + 1 < Len(d) => t = p.t
    BY <1>14, <1>15
  <2>9. ChildAt(r, p, k + 1)
    BY <1>1, <1>3, <1>5, <1>7, <1>13, <2>6, <2>7, <2>8 DEF ChildAt
  <2> QED  BY <2>5, <2>9
<1>17. CASE k + 1 = l
  <2>1. c[1] \in 1 .. m /\ t[c[1]].Parent = a /\ t[b].Sibling = c[1]
    BY <1>2, <1>6, <1>7, <1>9, <1>11, <1>17 DEF Ring
  <2>2. PICK r, u : /\ r = [NewNode(m + 1) EXCEPT !.Parent = a, !.Sibling = c[1], !.text = <<"-">>]
                    /\ u = Append([t EXCEPT ![b].Sibling = m + 1], r)
    OBVIOUS
  <2>3. DOMAIN r = NodeFields /\ r.Parent = a /\ r.Child = NULL /\ r.Sibling = c[1]
    <3>1. PICK e : e = [NewNode(m + 1) EXCEPT !.Parent = a, !.Sibling = c[1]]
      OBVIOUS
    <3>2. DOMAIN e = NodeFields /\ e.Parent = a /\ e.Child = NULL /\ e.Sibling = c[1]
      BY <3>1, NewNodeIs
    <3>3. r = [e EXCEPT !.text = <<"-">>]
      BY <2>2, <3>1
    <3> QED  BY <3>2, <3>3 DEF NodeFields
  <2>4. Joined(Append([t EXCEPT ![b].Sibling = Len(t) + 1], r), t, a)
    <3>1. Len(c) # 0 /\ b = c[Len(c)]
      BY <1>7, <1>8, <1>17
    <3> QED  BY <1>2, <1>4, <1>5, <2>3, <3>1, AppendJoined
  <2>5. Joined(u, t, a)
    BY <1>2, <2>2, <2>4
  <2>6. OneMore(u, t, a)
    BY <1>2, <1>4, <2>5, JoinedOneMore
  <2>7. Grown(u, t)
    BY <1>2, <1>4, <2>6, GrownOneMore
  <2>8. Grown(u, p.t)
    BY <1>1, <1>3, <2>7, GrownTwice
  <2>9. Len(Children(u, a)) = l + 1 /\ Children(u, a)[l + 1] = m + 1
    BY <1>2, <1>5, <1>7, <2>6 DEF OneMore, Extended
  <2>10. IsHierarchy(u) /\ Len(u) = m + 1 /\ m + 1 \in 1 .. m + 1
    BY <1>2, <2>6 DEF OneMore
  <2>11. PICK s : s = [t |-> u, at |-> m + 1]
    OBVIOUS
  <2>12. NextPlace(q) = s
    <3>1. NextPlace([t |-> t, at |-> b]) =
            [t |-> Append([t EXCEPT ![b].Sibling = Len(t) + 1],
                          [NewNode(Len(t) + 1) EXCEPT !.Parent = t[b].Parent, !.Sibling = t[b].Sibling,
                                                      !.text = <<"-">>]),
             at |-> Len(t) + 1]
      BY <1>12, <2>1, NextPlaceOf
    <3>2. t[b].Parent = a /\ t[b].Sibling = c[1] /\ Len(t) = m /\ q = [t |-> t, at |-> b]
      BY <1>2, <1>11, <2>1
    <3> QED  BY <2>2, <2>11, <3>1, <3>2, Zenon
  <2>13. IsPlace(s) /\ s.t = u /\ s.at = m + 1
    BY <2>10, <2>11, PlaceIs
  <2>14. ~ (k + 1 < Len(d))
    BY <1>7, <1>14, <1>17 DEF Prefix
  <2>15. k + 1 < l + 1 /\ k + 1 + 1 = l + 1
    BY <1>17
  <2>16. ChildAt(s, p, k + 1)
    BY <1>1, <1>13, <2>8, <2>9, <2>13, <2>14, <2>15 DEF ChildAt
  <2> QED  BY <2>12, <2>16
<1> QED  BY <1>16, <1>17

\* The walk of getChild(): d first, then n steps.
IsPlacewalk(d, n, f) ==
    f = [k \in 0 .. n |-> IF k = 0 THEN d ELSE NextPlace(f[k - 1])]

LEMMA PlacewalkExists ==
    ASSUME NEW d, NEW n \in Nat
    PROVE  \E f : IsPlacewalk(d, n, f)
<1> DEFINE K == {j \in Nat : \E f : IsPlacewalk(d, j, f)}
<1>1. 0 \in K
  <2>1. PICK f : f = [k \in 0 .. 0 |-> d]
    OBVIOUS
  <2>2. IsPlacewalk(d, 0, f)
    BY <2>1 DEF IsPlacewalk
  <2> QED  BY <2>2
<1>2. ASSUME NEW j \in Nat, j \in K
      PROVE  j + 1 \in K
  <2>1. PICK f : IsPlacewalk(d, j, f)
    BY <1>2
  <2>2. PICK next : next = NextPlace(f[j])
    OBVIOUS
  <2>3. PICK h : h = [k \in 0 .. j + 1 |-> IF k = j + 1 THEN next ELSE f[k]]
    OBVIOUS
  <2>4. ASSUME NEW k \in 0 .. j + 1
        PROVE  h[k] = IF k = 0 THEN d ELSE NextPlace(h[k - 1])
    <3>1. CASE k = j + 1
      <4>1. h[k - 1] = f[j] /\ k # 0 /\ h[k] = next
        BY <2>3, <3>1
      <4> QED  BY <2>2, <3>1, <4>1
    <3>2. CASE k = 0
      BY <2>1, <2>3, <3>2 DEF IsPlacewalk
    <3>3. CASE k # 0 /\ k # j + 1
      <4>1. k \in 0 .. j /\ h[k] = f[k] /\ h[k - 1] = f[k - 1]
        BY <2>3, <3>3
      <4> QED  BY <2>1, <3>3, <4>1 DEF IsPlacewalk
    <3> QED  BY <3>1, <3>2, <3>3
  <2>5. IsPlacewalk(d, j + 1, h)
    BY <2>3, <2>4 DEF IsPlacewalk
  <2> QED  BY <2>5
<1>3. K \in SUBSET Nat
  OBVIOUS
<1> HIDE DEF K
<1>4. K = Nat
  BY <1>1, <1>2, <1>3, AllNumbers
<1>5. n \in K
  BY <1>4
<1> QED  BY <1>5 DEF K

LEMMA PlacewalkFold ==
    ASSUME NEW p, NEW position \in Int, Len([k \in 1 .. position |-> k]) \in Nat
    PROVE  \E f : /\ f[0] = FirstPlace(p)
                  /\ \A k \in 1 .. Len([k \in 1 .. position |-> k]) : f[k] = NextPlace(f[k - 1])
                  /\ GetChild(p, position) = f[Len([k \in 1 .. position |-> k])]
<1>1. PICK n \in Nat : n = Len([k \in 1 .. position |-> k])
  OBVIOUS
<1>2. PICK d : d = FirstPlace(p)
  OBVIOUS
<1> DEFINE walk == CHOOSE f : IsPlacewalk(d, n, f)
<1>3. GetChild(p, position) = walk[n]
  BY <1>1, <1>2 DEF GetChild, FirstPlace, NextPlace, FoldAlong, IsPlacewalk
<1>4. \E f : IsPlacewalk(d, n, f)
  BY <1>1, PlacewalkExists
<1>5. IsPlacewalk(d, n, walk)
  BY <1>4
<1> HIDE DEF walk
<1>6. PICK f : f = walk
  OBVIOUS
<1>7. f[0] = d /\ \A k \in 1 .. n : f[k] = NextPlace(f[k - 1])
  BY <1>5, <1>6 DEF IsPlacewalk
<1> QED  BY <1>1, <1>2, <1>3, <1>6, <1>7

LEMMA CountedTo ==
    ASSUME NEW n \in Int
    PROVE  Len([k \in 1 .. n |-> k]) = IF n < 0 THEN 0 ELSE n
<1>1. CASE n >= 0
  BY <1>1
<1>2. CASE n < 0
  <2>1. PICK S : S = 1 .. n
    OBVIOUS
  <2>2. S = 1 .. 0
    BY <1>2, <2>1
  <2>3. Len([k \in 1 .. 0 |-> k]) = 0
    OBVIOUS
  <2>4. Len([k \in S |-> k]) = 0
    BY <2>2, <2>3, Zenon
  <2>5. Len([k \in 1 .. n |-> k]) = 0
    BY <2>1, <2>4, Zenon
  <2> QED  BY <1>2, <2>5, Zenon
<1>3. n >= 0 \/ n < 0
  OBVIOUS
<1> QED  BY <1>1, <1>2, <1>3, Zenon

\* getChild(): the child at a position, counted from zero; before it there is only the first.
LEMMA GetChildIs ==
    ASSUME NEW p, IsPlace(p), NEW x \in Int
    PROVE  ChildAt(GetChild(p, x), p, IF x < 0 THEN 0 ELSE x)
<1>1. PICK n \in Nat : n = IF x < 0 THEN 0 ELSE x
  OBVIOUS
<1>2. Len([k \in 1 .. x |-> k]) = n
  BY <1>1, CountedTo
<1>3. PICK f : /\ f[0] = FirstPlace(p)
               /\ \A k \in 1 .. Len([k \in 1 .. x |-> k]) : f[k] = NextPlace(f[k - 1])
               /\ GetChild(p, x) = f[Len([k \in 1 .. x |-> k])]
  BY <1>2, PlacewalkFold
<1>4. f[0] = FirstPlace(p) /\ (\A k \in 1 .. n : f[k] = NextPlace(f[k - 1])) /\ GetChild(p, x) = f[n]
  BY <1>2, <1>3
<1> DEFINE K == {j \in Nat : j <= n => ChildAt(f[j], p, j)}
<1>5. 0 \in K
  BY <1>4, FirstPlaceIs
<1>6. ASSUME NEW j \in Nat, j \in K
      PROVE  j + 1 \in K
  <2> SUFFICES ASSUME j + 1 <= n
               PROVE  ChildAt(f[j + 1], p, j + 1)
    OBVIOUS
  <2>1. j + 1 \in 1 .. n /\ j + 1 - 1 = j /\ ChildAt(f[j], p, j)
    BY <1>6
  <2>2. f[j + 1] = NextPlace(f[j])
    BY <1>4, <2>1
  <2>3. ChildAt(NextPlace(f[j]), p, j + 1)
    BY <2>1, NextPlaceIs
  <2> QED  BY <2>2, <2>3
<1>7. K \in SUBSET Nat
  OBVIOUS
<1> HIDE DEF K
<1>8. n \in K
  BY <1>5, <1>6, <1>7, AllNumbers
<1>9. ChildAt(f[n], p, n)
  BY <1>8 DEF K
<1> QED  BY <1>1, <1>4, <1>9

\* The walk of getPosition(), from one level to the next.
IsDescent(d, s, n, f) ==
    f = [k \in 0 .. n |-> IF k = 0 THEN d ELSE GetChild(f[k - 1], s[k])]

LEMMA DescentExists ==
    ASSUME NEW d, NEW s, NEW n \in Nat
    PROVE  \E f : IsDescent(d, s, n, f)
<1> DEFINE K == {j \in Nat : \E f : IsDescent(d, s, j, f)}
<1>1. 0 \in K
  <2>1. PICK f : f = [k \in 0 .. 0 |-> d]
    OBVIOUS
  <2>2. IsDescent(d, s, 0, f)
    BY <2>1 DEF IsDescent
  <2> QED  BY <2>2
<1>2. ASSUME NEW j \in Nat, j \in K
      PROVE  j + 1 \in K
  <2>1. PICK f : IsDescent(d, s, j, f)
    BY <1>2
  <2>2. PICK next : next = GetChild(f[j], s[j + 1])
    OBVIOUS
  <2>3. PICK h : h = [k \in 0 .. j + 1 |-> IF k = j + 1 THEN next ELSE f[k]]
    OBVIOUS
  <2>4. ASSUME NEW k \in 0 .. j + 1
        PROVE  h[k] = IF k = 0 THEN d ELSE GetChild(h[k - 1], s[k])
    <3>1. CASE k = j + 1
      <4>1. h[k - 1] = f[j] /\ k # 0 /\ h[k] = next
        BY <2>3, <3>1
      <4> QED  BY <2>2, <3>1, <4>1
    <3>2. CASE k = 0
      BY <2>1, <2>3, <3>2 DEF IsDescent
    <3>3. CASE k # 0 /\ k # j + 1
      <4>1. k \in 0 .. j /\ h[k] = f[k] /\ h[k - 1] = f[k - 1]
        BY <2>3, <3>3
      <4> QED  BY <2>1, <3>3, <4>1 DEF IsDescent
    <3> QED  BY <3>1, <3>2, <3>3
  <2>5. IsDescent(d, s, j + 1, h)
    BY <2>3, <2>4 DEF IsDescent
  <2> QED  BY <2>5
<1>3. K \in SUBSET Nat
  OBVIOUS
<1> HIDE DEF K
<1>4. K = Nat
  BY <1>1, <1>2, <1>3, AllNumbers
<1>5. n \in K
  BY <1>4
<1> QED  BY <1>5 DEF K

AreWalked(f, n, s) == \A k \in 1 .. n : f[k] = GetChild(f[k - 1], s[k])

LEMMA DescentOf ==
    ASSUME NEW t, NEW start, NEW s, NEW n \in Nat, n = Len(s)
    PROVE  \E f : f[0] = [t |-> t, at |-> start] /\ AreWalked(f, n, s) /\ GetPosition(t, start, s) = f[n]
<1>1. PICK d : d = [t |-> t, at |-> start]
  OBVIOUS
<1> DEFINE walk == CHOOSE f : IsDescent(d, s, n, f)
<1>2. GetPosition(t, start, s) = walk[n]
  BY <1>1 DEF GetPosition, FoldAlong, IsDescent
<1>3. \E f : IsDescent(d, s, n, f)
  BY DescentExists
<1>4. IsDescent(d, s, n, walk)
  BY <1>3
<1> HIDE DEF walk
<1>5. walk[0] = d /\ AreWalked(walk, n, s)
  BY <1>4 DEF IsDescent, AreWalked
<1> QED  BY <1>1, <1>2, <1>5

FoundAt(a) == [at |-> a, found |-> TRUE]
LostAt(a)  == [at |-> a, found |-> FALSE]

FindStep(t, p, position) ==
    IF p.found = FALSE \/ Children(t, p.at) = <<>> THEN [p EXCEPT !.found = FALSE]
    ELSE IF position < Len(Children(t, p.at)) THEN [p EXCEPT !.at = Children(t, p.at)[position + 1]]
    ELSE [at |-> Last(Children(t, p.at)), found |-> FALSE]

\* The walk of findPosition(), from one level to the next.
IsSearch(t, d, s, n, f) ==
    f = [k \in 0 .. n |-> IF k = 0 THEN d ELSE FindStep(t, f[k - 1], s[k])]

LEMMA SearchExists ==
    ASSUME NEW t, NEW d, NEW s, NEW n \in Nat
    PROVE  \E f : IsSearch(t, d, s, n, f)
<1> DEFINE K == {j \in Nat : \E f : IsSearch(t, d, s, j, f)}
<1>1. 0 \in K
  <2>1. PICK f : f = [k \in 0 .. 0 |-> d]
    OBVIOUS
  <2>2. IsSearch(t, d, s, 0, f)
    BY <2>1 DEF IsSearch
  <2> QED  BY <2>2
<1>2. ASSUME NEW j \in Nat, j \in K
      PROVE  j + 1 \in K
  <2>1. PICK f : IsSearch(t, d, s, j, f)
    BY <1>2
  <2>2. PICK next : next = FindStep(t, f[j], s[j + 1])
    OBVIOUS
  <2>3. PICK h : h = [k \in 0 .. j + 1 |-> IF k = j + 1 THEN next ELSE f[k]]
    OBVIOUS
  <2>4. ASSUME NEW k \in 0 .. j + 1
        PROVE  h[k] = IF k = 0 THEN d ELSE FindStep(t, h[k - 1], s[k])
    <3>1. CASE k = j + 1
      <4>1. h[k - 1] = f[j] /\ k # 0 /\ h[k] = next
        BY <2>3, <3>1
      <4> QED  BY <2>2, <3>1, <4>1
    <3>2. CASE k = 0
      BY <2>1, <2>3, <3>2 DEF IsSearch
    <3>3. CASE k # 0 /\ k # j + 1
      <4>1. k \in 0 .. j /\ h[k] = f[k] /\ h[k - 1] = f[k - 1]
        BY <2>3, <3>3
      <4> QED  BY <2>1, <3>3, <4>1 DEF IsSearch
    <3> QED  BY <3>1, <3>2, <3>3
  <2>5. IsSearch(t, d, s, j + 1, h)
    BY <2>3, <2>4 DEF IsSearch
  <2> QED  BY <2>5
<1>3. K \in SUBSET Nat
  OBVIOUS
<1> HIDE DEF K
<1>4. K = Nat
  BY <1>1, <1>2, <1>3, AllNumbers
<1>5. n \in K
  BY <1>4
<1> QED  BY <1>5 DEF K

LEMMA SearchFold ==
    ASSUME NEW t, NEW start, NEW numbers, Len(numbers) \in Nat
    PROVE  \E f : /\ f[0] = FoundAt(start)
                  /\ \A k \in 1 .. Len(numbers) : f[k] = FindStep(t, f[k - 1], numbers[k])
                  /\ FindPosition(t, start, numbers) = f[Len(numbers)]
<1>1. PICK n \in Nat : n = Len(numbers)
  OBVIOUS
<1>2. PICK d : d = FoundAt(start)
  OBVIOUS
<1> DEFINE walk == CHOOSE f : IsSearch(t, d, numbers, n, f)
<1>3. FindPosition(t, start, numbers) = walk[n]
  BY <1>1, <1>2 DEF FindPosition, FindStep, FoundAt, FoldAlong, IsSearch
<1>4. \E f : IsSearch(t, d, numbers, n, f)
  BY <1>1, SearchExists
<1>5. IsSearch(t, d, numbers, n, walk)
  BY <1>4
<1> HIDE DEF walk
<1>6. PICK f : f = walk
  OBVIOUS
<1>7. f[0] = d /\ \A k \in 1 .. n : f[k] = FindStep(t, f[k - 1], numbers[k])
  BY <1>5, <1>6 DEF IsSearch
<1> QED  BY <1>1, <1>2, <1>3, <1>6, <1>7

AreNumbers(s) == IsList(s) /\ \A i \in 1 .. Len(s) : s[i] \in Int

\* The places on the way are places, and nothing on it is undone.
LEMMA DescentIs ==
    ASSUME NEW f, NEW n \in Nat, IsPlace(f[0]), NEW s, AreWalked(f, n, s), \A i \in 1 .. n : s[i] \in Int
    PROVE  \A j \in 0 .. n : IsPlace(f[j]) /\ \A i \in 0 .. j : Grown(f[j].t, f[i].t)
<1> DEFINE K == {j \in Nat : j <= n => IsPlace(f[j]) /\ \A i \in 0 .. j : IsPlace(f[i]) /\ Grown(f[j].t, f[i].t)}
<1>1. 0 \in K
  <2>1. Grown(f[0].t, f[0].t)
    BY SameAsItself DEF IsPlace
  <2>2. \A i \in 0 .. 0 : i = 0
    OBVIOUS
  <2> QED  BY <2>1, <2>2
<1>2. ASSUME NEW j \in Nat, j \in K
      PROVE  j + 1 \in K
  <2> SUFFICES ASSUME j + 1 <= n
               PROVE  IsPlace(f[j + 1]) /\ \A i \in 0 .. j + 1 : IsPlace(f[i]) /\ Grown(f[j + 1].t, f[i].t)
    OBVIOUS
  <2>1. j + 1 \in 1 .. n /\ j + 1 - 1 = j
    OBVIOUS
  <2>2. IsPlace(f[j]) /\ \A i \in 0 .. j : IsPlace(f[i]) /\ Grown(f[j].t, f[i].t)
    BY <1>2, <2>1
  <2>3. f[j + 1] = GetChild(f[j], s[j + 1]) /\ s[j + 1] \in Int
    BY <2>1 DEF AreWalked
  <2>4. PICK x : x = IF s[j + 1] < 0 THEN 0 ELSE s[j + 1]
    OBVIOUS
  <2>5. ChildAt(GetChild(f[j], s[j + 1]), f[j], x)
    BY <2>2, <2>3, <2>4, GetChildIs
  <2>6. IsPlace(f[j + 1]) /\ Grown(f[j + 1].t, f[j].t)
    BY <2>3, <2>5 DEF ChildAt
  <2>7. ASSUME NEW i \in 0 .. j
        PROVE  IsPlace(f[i]) /\ Grown(f[j + 1].t, f[i].t)
    <3>1. IsPlace(f[i]) /\ Grown(f[j].t, f[i].t)
      BY <2>2
    <3>2. IsHierarchy(f[i].t)
      BY <3>1 DEF IsPlace
    <3> QED  BY <2>6, <3>1, <3>2, GrownTwice
  <2>8. Grown(f[j + 1].t, f[j + 1].t)
    BY <2>6, SameAsItself DEF IsPlace
  <2>9. \A i \in 0 .. j + 1 : i \in 0 .. j \/ i = j + 1
    OBVIOUS
  <2> QED  BY <2>6, <2>7, <2>8, <2>9
<1>3. K \in SUBSET Nat
  OBVIOUS
<1> HIDE DEF K
<1>4. K = Nat
  BY <1>1, <1>2, <1>3, AllNumbers
<1>5. ASSUME NEW j \in 0 .. n
      PROVE  IsPlace(f[j]) /\ \A i \in 0 .. j : Grown(f[j].t, f[i].t)
  <2>1. j \in K /\ j <= n
    BY <1>4
  <2> QED  BY <2>1 DEF K
<1> QED  BY <1>5

LEMMA GetPositionIs ==
    ASSUME NEW t, IsHierarchy(t), NEW start \in 1 .. Len(t), NEW s, AreNumbers(s)
    PROVE  IsPlace(GetPosition(t, start, s)) /\ Grown(GetPosition(t, start, s).t, t)
<1>1. PICK n \in Nat : n = Len(s)
  BY DEF AreNumbers, IsList
<1>2. PICK f : f[0] = [t |-> t, at |-> start] /\ AreWalked(f, n, s) /\ GetPosition(t, start, s) = f[n]
  BY <1>1, DescentOf
<1>3. AreWalked(f, n, s) /\ GetPosition(t, start, s) = f[n]
  BY <1>2
<1>4. IsPlace(f[0]) /\ f[0].t = t
  BY <1>2, PlaceIs
<1>5. \A i \in 1 .. n : s[i] \in Int
  BY <1>1 DEF AreNumbers
<1>6. \A j \in 0 .. n : IsPlace(f[j]) /\ \A i \in 0 .. j : Grown(f[j].t, f[i].t)
  BY <1>3, <1>4, <1>5, DescentIs
<1>7. n \in 0 .. n /\ 0 \in 0 .. n
  OBVIOUS
<1> QED  BY <1>3, <1>4, <1>6, <1>7

LEMMA OtherPlace ==
    ASSUME NEW a, NEW b \in BOOLEAN
    PROVE  /\ \A e : [[at |-> a, found |-> b] EXCEPT !.at = e] = [at |-> e, found |-> b]
           /\ \A d \in BOOLEAN : [[at |-> a, found |-> b] EXCEPT !.found = d] = [at |-> a, found |-> d]
  OBVIOUS

LEMMA FindFurther ==
    ASSUME NEW t, NEW a, NEW c, c = Children(t, a), NEW x \in Nat, Len(c) \in Nat, x < Len(c)
    PROVE  FindStep(t, FoundAt(a), x) = FoundAt(c[x + 1])
<1>1. PICK p : p = FoundAt(a)
  OBVIOUS
<1>2. p.at = a /\ p.found = TRUE
  BY <1>1 DEF FoundAt
<1>3. c # <<>>
  OBVIOUS
<1>4. [p EXCEPT !.at = c[x + 1]] = FoundAt(c[x + 1])
  <2>1. PICK b \in BOOLEAN : b = TRUE
    OBVIOUS
  <2>2. p = [at |-> a, found |-> b] /\ FoundAt(c[x + 1]) = [at |-> c[x + 1], found |-> b]
    BY <1>1, <2>1 DEF FoundAt
  <2> QED  BY <2>2, OtherPlace
<1>5. FindStep(t, p, x) = [p EXCEPT !.at = c[x + 1]]
  BY <1>2, <1>3 DEF FindStep
<1> QED  BY <1>1, <1>4, <1>5

LEMMA FindNoFurther ==
    ASSUME NEW t, NEW a, NEW x, ~ (x < Len(Children(t, a)) /\ Children(t, a) # <<>>)
    PROVE  \E b : FindStep(t, FoundAt(a), x) = LostAt(b)
<1>1. PICK p : p = FoundAt(a)
  OBVIOUS
<1>2. p.at = a /\ p = [at |-> a, found |-> TRUE]
  BY <1>1 DEF FoundAt
<1>3. CASE Children(t, a) = <<>>
  <2>1. FindStep(t, p, x) = [p EXCEPT !.found = FALSE]
    BY <1>2, <1>3 DEF FindStep
  <2>2. [p EXCEPT !.found = FALSE] = LostAt(a)
    <3>1. PICK b \in BOOLEAN, d \in BOOLEAN : b = TRUE /\ d = FALSE
      OBVIOUS
    <3>2. p = [at |-> a, found |-> b] /\ LostAt(a) = [at |-> a, found |-> d]
      BY <1>2, <3>1 DEF LostAt
    <3>3. [p EXCEPT !.found = d] = [at |-> a, found |-> d]
      BY <3>2, OtherPlace
    <3> QED  BY <3>1, <3>2, <3>3
  <2> QED  BY <1>1, <2>1, <2>2
<1>4. CASE Children(t, a) # <<>>
  <2>1. p.found # FALSE
    BY <1>2
  <2>2. FindStep(t, p, x) = LostAt(Last(Children(t, a)))
    BY <1>2, <1>4, <2>1 DEF FindStep, LostAt
  <2> QED  BY <1>1, <2>2
<1> QED  BY <1>3, <1>4

LEMMA LostStays ==
    ASSUME NEW t, NEW a, NEW x
    PROVE  FindStep(t, LostAt(a), x) = LostAt(a)
  BY DEF FindStep, LostAt

LEMMA FoundIsNotLost ==
    ASSUME NEW a
    PROVE  ~ LostAt(a).found
  BY DEF LostAt

AreSearched(t, g, n, s) == \A k \in 1 .. n : g[k] = FindStep(t, g[k - 1], s[k])

\* What getPosition() has made or passed is found.
LEMMA MadeIsFound ==
    ASSUME NEW f, NEW n \in Nat, IsPlace(f[0]), NEW s, AreWalked(f, n, s), \A i \in 1 .. n : s[i] \in Nat,
           NEW u, u = f[n].t, NEW g, g[0] = FoundAt(f[0].at), AreSearched(u, g, n, s)
    PROVE  g[n] = FoundAt(f[n].at)
<1>1. \A j \in 0 .. n : IsPlace(f[j]) /\ \A i \in 0 .. j : Grown(f[j].t, f[i].t)
  BY DescentIs
<1>2. n \in 0 .. n
  OBVIOUS
<1>3. \A j \in 0 .. n : IsPlace(f[j]) /\ Grown(u, f[j].t)
  BY <1>1, <1>2
<1> DEFINE K == {j \in Nat : j <= n => g[j] = FoundAt(f[j].at)}
<1>4. 0 \in K
  OBVIOUS
<1>5. ASSUME NEW j \in Nat, j \in K
      PROVE  j + 1 \in K
  <2> SUFFICES ASSUME j + 1 <= n
               PROVE  g[j + 1] = FoundAt(f[j + 1].at)
    OBVIOUS
  <2>1. j + 1 \in 1 .. n /\ j + 1 - 1 = j /\ j \in 0 .. n /\ j + 1 \in 0 .. n
    OBVIOUS
  <2>2. g[j] = FoundAt(f[j].at)
    BY <1>5, <2>1
  <2>3. PICK p, q, x : p = f[j] /\ q = f[j + 1] /\ x = s[j + 1]
    OBVIOUS
  <2>4. x \in Nat /\ q = GetChild(p, x) /\ g[j + 1] = FindStep(u, g[j], x)
    BY <2>1, <2>3 DEF AreWalked, AreSearched
  <2>5. IsPlace(p) /\ Grown(u, q.t)
    BY <1>3, <2>1, <2>3
  <2>6. ChildAt(q, p, x)
    <3>1. x \in Int /\ (IF x < 0 THEN 0 ELSE x) = x
      BY <2>4
    <3> QED  BY <2>4, <2>5, <3>1, GetChildIs
  <2>7. PICK c, d : c = Children(q.t, p.at) /\ d = Children(u, p.at)
    OBVIOUS
  <2>8. x < Len(c) /\ q.at = c[x + 1] /\ Grown(q.t, p.t) /\ IsPlace(q)
    BY <2>6, <2>7 DEF ChildAt
  <2>9. p.at \in 1 .. Len(q.t) /\ p.at \in 1 .. Len(u)
    <3>1. Len(p.t) \in Nat /\ Len(q.t) \in Nat /\ Len(u) \in Nat
      BY <2>5, <2>8 DEF IsPlace, Grown, IsHierarchy, IsNodes, IsList
    <3>2. p.at \in 1 .. Len(p.t) /\ Len(p.t) <= Len(q.t) /\ Len(q.t) <= Len(u)
      BY <2>5, <2>8 DEF IsPlace, Grown
    <3> QED  BY <3>1, <3>2
  <2>10. Len(c) \in Nat /\ Len(d) \in Nat
    BY <2>5, <2>7, <2>8, <2>9, ChildrenAreList DEF IsPlace, Grown
  <2>11. Prefix(c, d)
    BY <2>5, <2>7, <2>9 DEF Grown
  <2>12. x < Len(d) /\ d[x + 1] = c[x + 1]
    BY <2>4, <2>8, <2>10, <2>11 DEF Prefix
  <2>13. FindStep(u, FoundAt(p.at), x) = FoundAt(d[x + 1])
    BY <2>4, <2>7, <2>10, <2>12, FindFurther
  <2> QED  BY <2>2, <2>3, <2>4, <2>8, <2>12, <2>13
<1>6. K \in SUBSET Nat
  OBVIOUS
<1> HIDE DEF K
<1>7. n \in K
  BY <1>4, <1>5, <1>6, AllNumbers
<1> QED  BY <1>7 DEF K

\* What is found is not made.
LEMMA FoundIsThere ==
    ASSUME NEW f, NEW n \in Nat, IsPlace(f[0]), NEW s, AreWalked(f, n, s), \A i \in 1 .. n : s[i] \in Nat,
           NEW t, t = f[0].t, NEW g, g[0] = FoundAt(f[0].at), AreSearched(t, g, n, s)
    PROVE  (\E b : g[n] = LostAt(b)) \/ (g[n] = FoundAt(f[n].at) /\ f[n].t = t /\ IsPlace(f[n]))
<1>3. \A j \in 0 .. n : IsPlace(f[j])
  BY DescentIs
<1> DEFINE Way(j) == (\E b : g[j] = LostAt(b)) \/ (g[j] = FoundAt(f[j].at) /\ f[j].t = t)
           K == {j \in Nat : j <= n => Way(j)}
<1>4. 0 \in K
  OBVIOUS
<1>5. ASSUME NEW j \in Nat, j \in K
      PROVE  j + 1 \in K
  <2> SUFFICES ASSUME j + 1 <= n
               PROVE  Way(j + 1)
    OBVIOUS
  <2>1. j + 1 \in 1 .. n /\ j + 1 - 1 = j /\ j \in 0 .. n
    OBVIOUS
  <2>2. Way(j)
    BY <1>5, <2>1
  <2>3. PICK p, q, x : p = f[j] /\ q = f[j + 1] /\ x = s[j + 1]
    OBVIOUS
  <2>4. x \in Nat /\ q = GetChild(p, x) /\ g[j + 1] = FindStep(t, g[j], x)
    BY <2>1, <2>3 DEF AreWalked, AreSearched
  <2>5. CASE \E b : g[j] = LostAt(b)
    <3>1. PICK b : g[j] = LostAt(b)
      BY <2>5
    <3>2. g[j + 1] = LostAt(b)
      BY <2>4, <3>1, LostStays
    <3> QED  BY <3>2
  <2>6. CASE g[j] = FoundAt(f[j].at) /\ f[j].t = t
    <3>1. IsPlace(p) /\ p.t = t /\ g[j] = FoundAt(p.at)
      BY <1>3, <2>1, <2>3, <2>6
    <3>2. PICK c : c = Children(t, p.at)
      OBVIOUS
    <3>3. Len(c) \in Nat
      BY <3>1, <3>2, ChildrenAreList DEF IsPlace
    <3>4. ChildAt(q, p, x)
      <4>1. x \in Int /\ (IF x < 0 THEN 0 ELSE x) = x
        BY <2>4
      <4> QED  BY <2>4, <3>1, <4>1, GetChildIs
    <3>5. CASE x < Len(c) /\ c # <<>>
      <4>1. FindStep(t, FoundAt(p.at), x) = FoundAt(c[x + 1])
        BY <2>4, <3>2, <3>3, <3>5, FindFurther
      <4>2. q.t = t /\ q.at = c[x + 1]
        BY <3>1, <3>2, <3>4, <3>5 DEF ChildAt
      <4> QED  BY <2>3, <2>4, <3>1, <4>1, <4>2
    <3>6. CASE ~ (x < Len(c) /\ c # <<>>)
      <4>1. \E b : FindStep(t, FoundAt(p.at), x) = LostAt(b)
        BY <3>2, <3>6, FindNoFurther
      <4> QED  BY <2>4, <3>1, <4>1
    <3> QED  BY <3>5, <3>6
  <2> QED  BY <2>2, <2>5, <2>6
<1>6. K \in SUBSET Nat
  OBVIOUS
<1> HIDE DEF K
<1>7. n \in K
  BY <1>4, <1>5, <1>6, AllNumbers
<1>8. Way(n)
  BY <1>7 DEF K
<1>9. n \in 0 .. n
  OBVIOUS
<1> QED  BY <1>3, <1>8, <1>9

ArePositions(s) == IsList(s) /\ \A i \in 1 .. Len(s) : s[i] \in Nat

LEMMA SearchOf ==
    ASSUME NEW u, NEW start, NEW s, NEW n \in Nat, n = Len(s)
    PROVE  \E g : g[0] = FoundAt(start) /\ AreSearched(u, g, n, s) /\ FindPosition(u, start, s) = g[n]
<1>1. PICK g : /\ g[0] = FoundAt(start)
               /\ \A k \in 1 .. Len(s) : g[k] = FindStep(u, g[k - 1], s[k])
               /\ FindPosition(u, start, s) = g[Len(s)]
  BY SearchFold
<1>2. AreSearched(u, g, n, s) /\ FindPosition(u, start, s) = g[n]
  BY <1>1 DEF AreSearched
<1> QED  BY <1>1, <1>2

LEMMA WaysAgree ==
    ASSUME NEW t, IsHierarchy(t), NEW start \in 1 .. Len(t), NEW s, ArePositions(s),
           NEW p, p = GetPosition(t, start, s), NEW way, way = FindPosition(t, start, s)
    PROVE  /\ FindPosition(p.t, start, s) = [at |-> p.at, found |-> TRUE]
           /\ way.found => p = [t |-> t, at |-> way.at]
<1>1. PICK n \in Nat : n = Len(s)
  BY DEF ArePositions, IsList
<1>2. PICK f : f[0] = [t |-> t, at |-> start] /\ AreWalked(f, n, s) /\ GetPosition(t, start, s) = f[n]
  BY <1>1, DescentOf
<1>3. AreWalked(f, n, s) /\ p = f[n]
  BY <1>2
<1>4. IsPlace(f[0]) /\ f[0].t = t /\ f[0].at = start
  BY <1>2, PlaceIs
<1>5. \A i \in 1 .. n : s[i] \in Nat
  BY <1>1 DEF ArePositions
<1>6. \A a : [at |-> a, found |-> TRUE] = FoundAt(a)
  BY DEF FoundAt
<1>7. PICK u : u = p.t
  OBVIOUS
<1>8. PICK g : g[0] = FoundAt(start) /\ AreSearched(u, g, n, s) /\ FindPosition(u, start, s) = g[n]
  BY <1>1, SearchOf
<1>9. PICK h : h[0] = FoundAt(start) /\ AreSearched(t, h, n, s) /\ FindPosition(t, start, s) = h[n]
  BY <1>1, SearchOf
<1>10. FindPosition(u, start, s) = FoundAt(p.at)
  <2>1. g[0] = FoundAt(f[0].at)
    BY <1>4, <1>6, <1>8
  <2>2. AreSearched(u, g, n, s) /\ FindPosition(u, start, s) = g[n]
    BY <1>8
  <2>3. u = f[n].t
    BY <1>3, <1>7
  <2>4. g[n] = FoundAt(f[n].at)
    BY <1>3, <1>4, <1>5, <2>1, <2>2, <2>3, MadeIsFound
  <2> QED  BY <1>3, <2>2, <2>4
<1>11. (\E b : way = LostAt(b)) \/ (way = FoundAt(p.at) /\ p.t = t /\ IsPlace(p))
  <2>1. h[0] = FoundAt(f[0].at)
    BY <1>4, <1>6, <1>9
  <2>2. AreSearched(t, h, n, s) /\ way = h[n]
    BY <1>9
  <2>3. t = f[0].t
    BY <1>4
  <2>4. (\E b : h[n] = LostAt(b)) \/ (h[n] = FoundAt(f[n].at) /\ f[n].t = t /\ IsPlace(f[n]))
    BY <1>3, <1>4, <1>5, <2>1, <2>2, <2>3, FoundIsThere
  <2> QED  BY <1>3, <2>2, <2>4
<1>12. way.found => p = [t |-> t, at |-> way.at]
  <2>1. CASE \E b : way = LostAt(b)
    BY <2>1, FoundIsNotLost
  <2>2. CASE way = FoundAt(p.at) /\ p.t = t /\ IsPlace(p)
    <3>1. way.at = p.at
      BY <2>2 DEF FoundAt
    <3> QED  BY <2>2, <3>1 DEF IsPlace
  <2> QED  BY <1>11, <2>1, <2>2
<1> QED  BY <1>6, <1>7, <1>10, <1>12

-----------------------------------------------------------------------------
(* Addresses *)

AddressStep(p, c) ==
    IF c = "-" THEN [done |-> Append(p.done, p.position), position |-> 0]
    ELSE [p EXCEPT !.position = 10 * @ + IF c = "1" THEN 1 ELSE 0]

\* The characters of an address, one after the other.
IsAddress(d, s, n, f) ==
    f = [k \in 0 .. n |-> IF k = 0 THEN d ELSE AddressStep(f[k - 1], s[k])]

LEMMA AddressExists ==
    ASSUME NEW d, NEW s, NEW n \in Nat
    PROVE  \E f : IsAddress(d, s, n, f)
<1> DEFINE K == {j \in Nat : \E f : IsAddress(d, s, j, f)}
<1>1. 0 \in K
  <2>1. PICK f : f = [k \in 0 .. 0 |-> d]
    OBVIOUS
  <2>2. IsAddress(d, s, 0, f)
    BY <2>1 DEF IsAddress
  <2> QED  BY <2>2
<1>2. ASSUME NEW j \in Nat, j \in K
      PROVE  j + 1 \in K
  <2>1. PICK f : IsAddress(d, s, j, f)
    BY <1>2
  <2>2. PICK next : next = AddressStep(f[j], s[j + 1])
    OBVIOUS
  <2>3. PICK h : h = [k \in 0 .. j + 1 |-> IF k = j + 1 THEN next ELSE f[k]]
    OBVIOUS
  <2>4. ASSUME NEW k \in 0 .. j + 1
        PROVE  h[k] = IF k = 0 THEN d ELSE AddressStep(h[k - 1], s[k])
    <3>1. CASE k = j + 1
      <4>1. h[k - 1] = f[j] /\ k # 0 /\ h[k] = next
        BY <2>3, <3>1
      <4> QED  BY <2>2, <3>1, <4>1
    <3>2. CASE k = 0
      BY <2>1, <2>3, <3>2 DEF IsAddress
    <3>3. CASE k # 0 /\ k # j + 1
      <4>1. k \in 0 .. j /\ h[k] = f[k] /\ h[k - 1] = f[k - 1]
        BY <2>3, <3>3
      <4> QED  BY <2>1, <3>3, <4>1 DEF IsAddress
    <3> QED  BY <3>1, <3>2, <3>3
  <2>5. IsAddress(d, s, j + 1, h)
    BY <2>3, <2>4 DEF IsAddress
  <2> QED  BY <2>5
<1>3. K \in SUBSET Nat
  OBVIOUS
<1> HIDE DEF K
<1>4. K = Nat
  BY <1>1, <1>2, <1>3, AllNumbers
<1>5. n \in K
  BY <1>4
<1> QED  BY <1>5 DEF K

LEMMA AddressFold ==
    ASSUME NEW text, Len(text) \in Nat
    PROVE  \E f : /\ f[0] = [done |-> <<>>, position |-> 0]
                  /\ \A k \in 1 .. Len(text) : f[k] = AddressStep(f[k - 1], text[k])
                  /\ AddressNumbers(text) = Append(f[Len(text)].done, f[Len(text)].position)
<1>1. PICK n \in Nat : n = Len(text)
  OBVIOUS
<1>2. PICK d : d = [done |-> <<>>, position |-> 0]
  OBVIOUS
<1> DEFINE walk == CHOOSE f : IsAddress(d, text, n, f)
<1>3. AddressNumbers(text) = Append(walk[n].done, walk[n].position)
  BY <1>1, <1>2 DEF AddressNumbers, AddressStep, FoldAlong, IsAddress
<1>4. \E f : IsAddress(d, text, n, f)
  BY <1>1, AddressExists
<1>5. IsAddress(d, text, n, walk)
  BY <1>4
<1> HIDE DEF walk
<1>6. PICK f : f = walk
  OBVIOUS
<1>7. f[0] = d /\ \A k \in 1 .. n : f[k] = AddressStep(f[k - 1], text[k])
  BY <1>5, <1>6 DEF IsAddress
<1> QED  BY <1>1, <1>2, <1>3, <1>6, <1>7

IsAddressPart(p) == p = [done |-> p.done, position |-> p.position] /\ ArePositions(p.done) /\ p.position \in Nat

LEMMA AddressStepIs ==
    ASSUME NEW p, IsAddressPart(p), NEW c
    PROVE  IsAddressPart(AddressStep(p, c))
<1>1. PICK d, x : d = p.done /\ x = p.position
  OBVIOUS
<1>2. p = [done |-> d, position |-> x] /\ ArePositions(d) /\ x \in Nat
  BY <1>1 DEF IsAddressPart
<1>3. CASE c = "-"
  <2>1. PICK e : e = Append(d, x)
    OBVIOUS
  <2>2. Extended(Append(d, x), d, x)
    BY <1>2, ListAppend DEF ArePositions
  <2>3. ArePositions(e)
    <3>1. PICK n \in Nat : n = Len(d)
      BY <1>2 DEF ArePositions, IsList
    <3>2. IsList(e) /\ Len(e) = n + 1 /\ e[n + 1] = x /\ \A i \in 1 .. n : e[i] = d[i]
      BY <2>1, <2>2, <3>1 DEF Extended
    <3>3. \A i \in 1 .. n : d[i] \in Nat
      BY <1>2, <3>1 DEF ArePositions
    <3>4. \A i \in 1 .. n + 1 : e[i] \in Nat
      BY <1>2, <3>2, <3>3
    <3> QED  BY <3>2, <3>4 DEF ArePositions
  <2>4. AddressStep(p, c) = [done |-> e, position |-> 0]
    BY <1>1, <1>3, <2>1 DEF AddressStep
  <2> QED  BY <2>3, <2>4 DEF IsAddressPart
<1>4. CASE c # "-"
  <2>1. PICK y \in Nat : y = 10 * x + IF c = "1" THEN 1 ELSE 0
    BY <1>2
  <2>2. AddressStep(p, c) = [done |-> d, position |-> y]
    BY <1>2, <1>4, <2>1 DEF AddressStep
  <2> QED  BY <1>2, <2>1, <2>2 DEF IsAddressPart
<1> QED  BY <1>3, <1>4

LEMMA AddressIs ==
    ASSUME NEW text, Len(text) \in Nat
    PROVE  ArePositions(AddressNumbers(text)) /\ Len(AddressNumbers(text)) # 0
<1>1. PICK n \in Nat : n = Len(text)
  OBVIOUS
<1>2. PICK f : /\ f[0] = [done |-> <<>>, position |-> 0]
               /\ \A k \in 1 .. Len(text) : f[k] = AddressStep(f[k - 1], text[k])
               /\ AddressNumbers(text) = Append(f[Len(text)].done, f[Len(text)].position)
  BY AddressFold
<1> DEFINE K == {j \in Nat : j <= n => IsAddressPart(f[j])}
<1>3. 0 \in K
  <2>1. PICK e : e = <<>>
    OBVIOUS
  <2>2. ArePositions(e)
    BY <2>1 DEF ArePositions, IsList
  <2>3. f[0] = [done |-> e, position |-> 0]
    BY <1>2, <2>1
  <2>4. IsAddressPart(f[0])
    BY <2>2, <2>3 DEF IsAddressPart
  <2> QED  BY <2>4
<1>4. ASSUME NEW j \in Nat, j \in K
      PROVE  j + 1 \in K
  <2> SUFFICES ASSUME j + 1 <= n
               PROVE  IsAddressPart(f[j + 1])
    OBVIOUS
  <2>1. j + 1 \in 1 .. n /\ j + 1 - 1 = j /\ IsAddressPart(f[j])
    BY <1>4
  <2>2. f[j + 1] = AddressStep(f[j], text[j + 1])
    BY <1>1, <1>2, <2>1
  <2> QED  BY <2>1, <2>2, AddressStepIs
<1>5. K \in SUBSET Nat
  OBVIOUS
<1> HIDE DEF K
<1>6. n \in K
  BY <1>3, <1>4, <1>5, AllNumbers
<1>7. IsAddressPart(f[n])
  BY <1>6 DEF K
<1>8. PICK d, x : d = f[n].done /\ x = f[n].position
  OBVIOUS
<1>9. AddressNumbers(text) = Append(d, x)
  BY <1>1, <1>2, <1>8
<1>10. AddressStep(f[n], "-").done = Append(d, x)
  BY <1>8 DEF AddressStep
<1>11. IsAddressPart(AddressStep(f[n], "-"))
  BY <1>7, AddressStepIs
<1>12. Extended(Append(d, x), d, x) /\ Len(d) \in Nat
  BY <1>7, <1>8, ListAppend DEF IsAddressPart, ArePositions, IsList
<1>13. ArePositions(Append(d, x))
  BY <1>10, <1>11 DEF IsAddressPart
<1>14. Len(Append(d, x)) # 0
  BY <1>12 DEF Extended
<1> QED  BY <1>9, <1>13, <1>14

-----------------------------------------------------------------------------
(* Items of a line *)

ListElements(t) == {t[n] : n \in 1 .. Len(t)}

LEMMA ListIsSequence ==
    ASSUME NEW t, IsList(t)
    PROVE  t \in Seq(ListElements(t)) /\ Len(t) \in Nat
<1>1. PICK m \in Nat, S \in {ListElements(t)} : m = Len(t) /\ S = ListElements(t)
  BY DEF IsList
<1>2. S = {t[n] : n \in 1 .. m}
  BY <1>1 DEF ListElements
<1>3. t = [n \in 1 .. m |-> t[n]]
  BY <1>1 DEF IsList
<1>4. t \in [1 .. m -> S]
  BY <1>2, <1>3
<1> QED  BY <1>1, <1>4

LEMMA PartOfList ==
    ASSUME NEW t, IsList(t), NEW k \in 1 .. Len(t) + 1
    PROVE  IsList(SubSeq(t, k, Len(t)))
<1>1. PICK S, m : S = ListElements(t) /\ m = Len(t)
  OBVIOUS
<1>3. t \in Seq(S) /\ m \in Nat /\ Len(t) = m
  BY <1>1, ListIsSequence
<1>2. SubSeq(t, k, m) \in Seq(S)
  BY <1>1, <1>3
<1> QED  BY <1>1, <1>2, SequenceIsList

LEMMA RestOfList ==
    ASSUME NEW t, IsList(t), t # <<>>
    PROVE  IsList(Tail(t)) /\ Len(Tail(t)) = Len(t) - 1 /\ Len(t) \in Nat \ {0}
<1>1. PICK S, m : S = ListElements(t) /\ m = Len(t)
  OBVIOUS
<1>3. t \in Seq(S) /\ m \in Nat /\ Len(t) = m
  BY <1>1, ListIsSequence
<1>2. Tail(t) \in Seq(S) /\ Len(Tail(t)) = m - 1 /\ m # 0
  BY <1>1, <1>3
<1> QED  BY <1>1, <1>2, <1>3, SequenceIsList

\* What has been read of an item whose first character sets the flags f.
Reading(l, f, j) ==
    /\ DOMAIN l = {"flags", "stopped", "length", "item"}
    /\ IsList(l.item) /\ l.length \in 1 .. j + 1
    /\ "determined" \in f => "determined" \in l.flags
    /\ "address" \in l.flags => "address" \in f

LEMMA StopIs ==
    ASSUME NEW l, NEW f, NEW j \in Nat, Reading(l, f, j), NEW on, NEW off, "determined" \notin off, "address" \notin on
    PROVE  Reading(Stop(l, on, off), f, j + 1)
<1>1. PICK g, k, i : g = l.flags /\ k = l.length /\ i = l.item
  OBVIOUS
<1>2. PICK r : r = Stop(l, on, off)
  OBVIOUS
<1>3. DOMAIN r = {"flags", "stopped", "length", "item"} /\ r.flags = (g \ off) \cup on /\ r.length = k /\ r.item = i
  BY <1>1, <1>2 DEF Reading, Stop
<1>4. IsList(i) /\ k \in 1 .. j + 1 + 1
  BY <1>1 DEF Reading
<1>5. /\ "determined" \in f => "determined" \in (g \ off) \cup on
      /\ "address" \in (g \ off) \cup on => "address" \in f
  BY <1>1 DEF Reading
<1> QED  BY <1>2, <1>3, <1>4, <1>5 DEF Reading

LEMMA SkipIs ==
    ASSUME NEW l, NEW f, NEW j \in Nat, Reading(l, f, j), NEW on, NEW off, "determined" \notin off, "address" \notin on
    PROVE  Reading(Skip(l, on, off), f, j + 1)
<1>1. PICK g, k, i, s : g = l.flags /\ k = l.length /\ i = l.item /\ s = l.stopped
  OBVIOUS
<1>2. PICK r : r = Skip(l, on, off)
  OBVIOUS
<1>3. DOMAIN r = {"flags", "stopped", "length", "item"} /\ r.flags = (g \ off) \cup on /\ r.length = k + 1 /\ r.item = i
  BY <1>1, <1>2 DEF Reading, Skip
<1>4. IsList(i) /\ k + 1 \in 1 .. j + 1 + 1
  BY <1>1 DEF Reading
<1>5. /\ "determined" \in f => "determined" \in (g \ off) \cup on
      /\ "address" \in (g \ off) \cup on => "address" \in f
  BY <1>1 DEF Reading
<1> QED  BY <1>2, <1>3, <1>4, <1>5 DEF Reading

LEMMA KeepIs ==
    ASSUME NEW l, NEW f, NEW j \in Nat, Reading(l, f, j), NEW c, NEW on, NEW off,
           "determined" \notin off, "address" \notin on
    PROVE  Reading(Keep(l, c, on, off), f, j + 1)
<1>1. PICK g, k, i, s, h : g = l.flags /\ k = l.length /\ i = l.item /\ s = l.stopped /\ h = Append(l.item, c)
  OBVIOUS
<1>2. PICK r : r = Keep(l, c, on, off)
  OBVIOUS
<1>3. DOMAIN r = {"flags", "stopped", "length", "item"} /\ r.flags = (g \ off) \cup on /\ r.length = k + 1 /\ r.item = h
  BY <1>1, <1>2 DEF Reading, Keep
<1>4. IsList(i) /\ k + 1 \in 1 .. j + 1 + 1
  BY <1>1 DEF Reading
<1>5. /\ "determined" \in f => "determined" \in (g \ off) \cup on
      /\ "address" \in (g \ off) \cup on => "address" \in f
  BY <1>1 DEF Reading
<1>6. IsList(h)
  <2>1. Extended(Append(i, c), i, c)
    BY <1>4, ListAppend
  <2> QED  BY <1>1, <2>1 DEF Extended
<1> QED  BY <1>2, <1>3, <1>4, <1>5, <1>6 DEF Reading

LEMMA FurtherIs ==
    ASSUME NEW l, NEW f, NEW j \in Nat, Reading(l, f, j), NEW c, NEW b \in BOOLEAN
    PROVE  Reading(Further(l, c, b), f, j + 1)
<1>1. Reading(l, f, j + 1)
  BY DEF Reading
<1>2. \A on : "address" \notin on => Reading(Stop(l, on, {}), f, j + 1) /\ Reading(Stop(l, on, {"checksum"}), f, j + 1)
  <2>1. "determined" \notin {} /\ "determined" \notin {"checksum"}
    OBVIOUS
  <2> QED  BY <2>1, StopIs
<1>3. PICK e1, e2, e3 : e1 = {"lineEnd"} /\ e2 = {"next"} /\ e3 = {"next", "checksum"}
  OBVIOUS
<1>4. /\ Reading(Stop(l, {"lineEnd"}, {}), f, j + 1) /\ Reading(Stop(l, {"next"}, {"checksum"}), f, j + 1)
      /\ Reading(Stop(l, {"next", "checksum"}, {}), f, j + 1)
  <2>1. "address" \notin e1 /\ "address" \notin e2 /\ "address" \notin e3
    BY <1>3
  <2> QED  BY <1>2, <1>3, <2>1
<1>5. \A on, off : "address" \notin on /\ "determined" \notin off => Reading(Skip(l, on, off), f, j + 1)
  BY SkipIs
<1>6. /\ Reading(Skip(l, {"option"}, {"framework", "checksum"}), f, j + 1)
      /\ Reading(Skip(l, {"comment"}, {"option", "checksum"}), f, j + 1)
  <2>1. /\ "address" \notin {"option"} /\ "address" \notin {"comment"}
        /\ "determined" \notin {"framework", "checksum"} /\ "determined" \notin {"option", "checksum"}
    OBVIOUS
  <2> QED  BY <1>5, <2>1
<1>7. \A on, off : "address" \notin on /\ "determined" \notin off => Reading(Keep(l, c, on, off), f, j + 1)
  BY KeepIs
<1>8. /\ Reading(Keep(l, c, {}, {"escape", "address"}), f, j + 1) /\ Reading(Keep(l, c, {}, {"escape"}), f, j + 1)
      /\ Reading(Keep(l, c, {"identifier"}, {}), f, j + 1) /\ Reading(Keep(l, c, {"query"}, {"address"}), f, j + 1)
      /\ Reading(Keep(l, c, {}, {"address"}), f, j + 1) /\ Reading(Keep(l, c, {"escape"}, {}), f, j + 1)
      /\ Reading(Keep(l, c, {}, {}), f, j + 1) /\ Reading(Keep(l, c, {"addressDelimiter"}, {"escape"}), f, j + 1)
      /\ Reading(Keep(l, c, {}, {"escape", "number", "address"}), f, j + 1)
  <2>1. /\ "address" \notin {} /\ "address" \notin {"identifier"} /\ "address" \notin {"query"}
        /\ "address" \notin {"escape"} /\ "address" \notin {"addressDelimiter"}
        /\ "determined" \notin {} /\ "determined" \notin {"escape"} /\ "determined" \notin {"address"}
        /\ "determined" \notin {"escape", "address"} /\ "determined" \notin {"escape", "number", "address"}
    OBVIOUS
  <2> QED  BY <1>7, <2>1
<1> QED  BY <1>1, <1>4, <1>6, <1>8 DEF Further

\* The further characters of an item, one after the other.
IsReader(b, d, s, n, f) ==
    f = [k \in 0 .. n |-> IF k = 0 THEN d ELSE Further(f[k - 1], s[k], b)]

LEMMA ReaderExists ==
    ASSUME NEW b, NEW d, NEW s, NEW n \in Nat
    PROVE  \E f : IsReader(b, d, s, n, f)
<1> DEFINE K == {j \in Nat : \E f : IsReader(b, d, s, j, f)}
<1>1. 0 \in K
  <2>1. PICK f : f = [k \in 0 .. 0 |-> d]
    OBVIOUS
  <2>2. IsReader(b, d, s, 0, f)
    BY <2>1 DEF IsReader
  <2> QED  BY <2>2
<1>2. ASSUME NEW j \in Nat, j \in K
      PROVE  j + 1 \in K
  <2>1. PICK f : IsReader(b, d, s, j, f)
    BY <1>2
  <2>2. PICK next : next = Further(f[j], s[j + 1], b)
    OBVIOUS
  <2>3. PICK h : h = [k \in 0 .. j + 1 |-> IF k = j + 1 THEN next ELSE f[k]]
    OBVIOUS
  <2>4. ASSUME NEW k \in 0 .. j + 1
        PROVE  h[k] = IF k = 0 THEN d ELSE Further(h[k - 1], s[k], b)
    <3>1. CASE k = j + 1
      <4>1. h[k - 1] = f[j] /\ k # 0 /\ h[k] = next
        BY <2>3, <3>1
      <4> QED  BY <2>2, <3>1, <4>1
    <3>2. CASE k = 0
      BY <2>1, <2>3, <3>2 DEF IsReader
    <3>3. CASE k # 0 /\ k # j + 1
      <4>1. k \in 0 .. j /\ h[k] = f[k] /\ h[k - 1] = f[k - 1]
        BY <2>3, <3>3
      <4> QED  BY <2>1, <3>3, <4>1 DEF IsReader
    <3> QED  BY <3>1, <3>2, <3>3
  <2>5. IsReader(b, d, s, j + 1, h)
    BY <2>3, <2>4 DEF IsReader
  <2> QED  BY <2>5
<1>3. K \in SUBSET Nat
  OBVIOUS
<1> HIDE DEF K
<1>4. K = Nat
  BY <1>1, <1>2, <1>3, AllNumbers
<1>5. n \in K
  BY <1>4
<1> QED  BY <1>5 DEF K

LineRead(l0, line, b) == FoldAlong(LAMBDA k, d : Further(k, d, b), l0, line)

LEMMA ReaderFold ==
    ASSUME NEW b, NEW d, NEW s, Len(s) \in Nat
    PROVE  \E f : /\ f[0] = d
                  /\ \A k \in 1 .. Len(s) : f[k] = Further(f[k - 1], s[k], b)
                  /\ LineRead(d, s, b) = f[Len(s)]
<1>1. PICK n \in Nat : n = Len(s)
  OBVIOUS
<1> DEFINE walk == CHOOSE f : IsReader(b, d, s, n, f)
<1>3. LineRead(d, s, b) = walk[n]
  BY <1>1 DEF LineRead, FoldAlong, IsReader
<1>4. \E f : IsReader(b, d, s, n, f)
  BY <1>1, ReaderExists
<1>5. IsReader(b, d, s, n, walk)
  BY <1>4
<1> HIDE DEF walk
<1>6. PICK f : f = walk
  OBVIOUS
<1>7. f[0] = d /\ \A k \in 1 .. n : f[k] = Further(f[k - 1], s[k], b)
  BY <1>5, <1>6 DEF IsReader
<1> QED  BY <1>1, <1>3, <1>6, <1>7

LEMMA LineReadIs ==
    ASSUME NEW b \in BOOLEAN, NEW d, NEW f, Reading(d, f, 0), NEW s, Len(s) \in Nat
    PROVE  Reading(LineRead(d, s, b), f, Len(s))
<1>1. PICK n \in Nat : n = Len(s)
  OBVIOUS
<1>2. PICK w : /\ w[0] = d
               /\ \A k \in 1 .. Len(s) : w[k] = Further(w[k - 1], s[k], b)
               /\ LineRead(d, s, b) = w[Len(s)]
  BY ReaderFold
<1> DEFINE K == {j \in Nat : j <= n => Reading(w[j], f, j)}
<1>3. 0 \in K
  BY <1>2
<1>4. ASSUME NEW j \in Nat, j \in K
      PROVE  j + 1 \in K
  <2> SUFFICES ASSUME j + 1 <= n
               PROVE  Reading(w[j + 1], f, j + 1)
    OBVIOUS
  <2>1. j + 1 \in 1 .. n /\ j + 1 - 1 = j /\ Reading(w[j], f, j)
    BY <1>4
  <2>2. w[j + 1] = Further(w[j], s[j + 1], b)
    BY <1>1, <1>2, <2>1
  <2> QED  BY <2>1, <2>2, FurtherIs
<1>5. K \in SUBSET Nat
  OBVIOUS
<1> HIDE DEF K
<1>6. n \in K
  BY <1>3, <1>4, <1>5, AllNumbers
<1> QED  BY <1>1, <1>2, <1>6 DEF K

OpeningFlags(line, isStart) ==
    IF isStart /\ ~IsDelimiter(line[1]) THEN Opening(line[1]) \ {"determined"} ELSE Opening(line[1])

FirstRead(line, isStart) ==
    [flags |-> OpeningFlags(line, isStart), stopped |-> FALSE, length |-> 1,
     item |-> IF IsDelimiter(line[1]) THEN <<>> ELSE <<line[1]>>]

LEMMA OpeningIs ==
    ASSUME NEW c
    PROVE  /\ "determined" \in Opening(c)
           /\ "address" \in Opening(c) => c \in Digit \/ IsDelimiter(c)
  BY DEF Opening, IsDelimiter, LineEnd, Digit, Numeric

LEMMA AddressType ==
    ASSUME NEW f, NEW n, TypeOf(f, n) = "Local_BINX"
    PROVE  "address" \in f /\ "determined" \notin f
  BY DEF TypeOf

LEMMA FirstReadIs ==
    ASSUME NEW line, NEW isStart
    PROVE  Reading(FirstRead(line, isStart), OpeningFlags(line, isStart), 0)
<1>1. PICK i : i = IF IsDelimiter(line[1]) THEN <<>> ELSE <<line[1]>>
  OBVIOUS
<1>2. IsList(i)
  BY <1>1 DEF IsList
<1>3. PICK r : r = FirstRead(line, isStart)
  OBVIOUS
<1>4. /\ DOMAIN r = {"flags", "stopped", "length", "item"} /\ r.flags = OpeningFlags(line, isStart)
      /\ r.length = 1 /\ r.item = i
  BY <1>1, <1>3 DEF FirstRead
<1> QED  BY <1>2, <1>3, <1>4 DEF Reading

\* The text of an item and the rest of the line; an address stands at the start of the line.
ItemOf(i, line, isStart) ==
    IsList(i.item) /\ IsList(i.rest) /\ (i.type = "Local_BINX" => isStart /\ line[1] \in Digit)

ItemCases(i, l, line, rest) ==
    \/ line = <<>> /\ i = NoItem(line)
    \/ line # <<>> /\ i = NoItem(line)
    \/ line # <<>> /\ i = NoItem(rest)
    \/ line # <<>> /\ i.item = <<>> /\ i.type = "IDENTIFIER" /\ i.rest = line
    \/ line # <<>> /\ i.item = l.item /\ i.type = TypeOf(l.flags, Len(l.item)) /\ i.rest = rest

RestBehind(l, line) == SubSeq(line, l.length + 1, Len(line))

LineOf(line, isStart, b) == LineRead(FirstRead(line, isStart), Tail(line), b)

LEMMA NextItemCases ==
    ASSUME NEW line, NEW isStart \in BOOLEAN, NEW b \in BOOLEAN
    PROVE  ItemCases(NextItemX(line, isStart, b), LineOf(line, isStart, b), line,
                     RestBehind(LineOf(line, isStart, b), line))
  BY DEF NextItemX, LineRead, FirstRead, OpeningFlags, NoItem, ItemCases, LineOf, RestBehind

LEMMA NoItemIs ==
    ASSUME NEW rest, IsList(rest), NEW line, NEW isStart \in BOOLEAN
    PROVE  ItemOf(NoItem(rest), line, isStart)
<1>1. PICK e : e = <<>>
  OBVIOUS
<1>2. IsList(e)
  BY <1>1 DEF IsList
<1>3. PICK r : r = NoItem(rest)
  OBVIOUS
<1>4. r.item = e /\ r.type = "TEXT" /\ r.rest = rest
  BY <1>1, <1>3 DEF NoItem
<1> QED  BY <1>2, <1>3, <1>4 DEF ItemOf

LEMMA NextItemIs ==
    ASSUME NEW line, IsList(line), NEW isStart \in BOOLEAN, NEW b \in BOOLEAN
    PROVE  ItemOf(NextItemX(line, isStart, b), line, isStart)
<1>1. PICK i : i = NextItemX(line, isStart, b)
  OBVIOUS
<1>2. PICK l : l = LineOf(line, isStart, b)
  OBVIOUS
<1>3. PICK rest : rest = RestBehind(l, line)
  OBVIOUS
<1>4. ItemCases(i, l, line, rest)
  BY <1>1, <1>2, <1>3, NextItemCases
<1>5. CASE i = NoItem(line)
  BY <1>1, <1>5, NoItemIs
<1>6. CASE line # <<>> /\ i.item = <<>> /\ i.type = "IDENTIFIER" /\ i.rest = line
  <2>1. PICK e : e = <<>>
    OBVIOUS
  <2>2. IsList(e) /\ i.item = e
    BY <1>6, <2>1 DEF IsList
  <2> QED  BY <1>1, <1>6, <2>2 DEF ItemOf
<1>7. line # <<>> => /\ Reading(l, OpeningFlags(line, isStart), Len(line) - 1)
                     /\ Len(line) \in Nat \ {0} /\ IsList(rest)
  <2> SUFFICES ASSUME line # <<>>
               PROVE  /\ Reading(l, OpeningFlags(line, isStart), Len(line) - 1)
                      /\ Len(line) \in Nat \ {0} /\ IsList(rest)
    OBVIOUS
  <2>1. Len(Tail(line)) = Len(line) - 1 /\ Len(line) \in Nat \ {0}
    BY RestOfList
  <2>2. Len(Tail(line)) \in Nat
    BY <2>1
  <2>3. Reading(l, OpeningFlags(line, isStart), Len(Tail(line)))
    BY <1>2, <2>2, FirstReadIs, LineReadIs DEF LineOf
  <2>4. l.length \in 1 .. Len(line)
    BY <2>1, <2>3 DEF Reading
  <2>5. l.length + 1 \in 1 .. Len(line) + 1
    BY <2>1, <2>4
  <2>6. IsList(rest)
    BY <1>3, <2>5, PartOfList DEF RestBehind
  <2> QED  BY <2>1, <2>3, <2>6
<1>8. CASE line # <<>> /\ i = NoItem(rest)
  BY <1>1, <1>7, <1>8, NoItemIs
<1>9. CASE line # <<>> /\ i.item = l.item /\ i.type = TypeOf(l.flags, Len(l.item)) /\ i.rest = rest
  <2>1. IsList(l.item) /\ IsList(rest)
    BY <1>7, <1>9 DEF Reading
  <2>2. ASSUME i.type = "Local_BINX"
        PROVE  isStart /\ line[1] \in Digit
    <3>1. "address" \in l.flags /\ "determined" \notin l.flags
      BY <1>9, <2>2, AddressType
    <3>2. "address" \in OpeningFlags(line, isStart) /\ "determined" \notin OpeningFlags(line, isStart)
      BY <1>7, <1>9, <3>1 DEF Reading
    <3>3. isStart /\ ~ IsDelimiter(line[1]) /\ "address" \in Opening(line[1])
      BY <3>2, OpeningIs DEF OpeningFlags
    <3> QED  BY <3>3, OpeningIs
  <2>3. ItemOf(i, line, isStart)
    BY <1>9, <2>1, <2>2 DEF ItemOf
  <2> QED  BY <1>1, <2>3
<1> QED  BY <1>4, <1>5, <1>6, <1>8, <1>9 DEF ItemCases

\* decodeTextX() of a list is a list.
DecodeStep(d, c) ==
    [prev |-> c,
     out  |-> IF c \in Special /\ d.prev = "\\" THEN Append(Front(d.out), c) ELSE Append(d.out, c)]

\* The characters of a text, one after the other.
IsDecoder(d, s, n, f) ==
    f = [k \in 0 .. n |-> IF k = 0 THEN d ELSE DecodeStep(f[k - 1], s[k])]

LEMMA DecoderExists ==
    ASSUME NEW d, NEW s, NEW n \in Nat
    PROVE  \E f : IsDecoder(d, s, n, f)
<1> DEFINE K == {j \in Nat : \E f : IsDecoder(d, s, j, f)}
<1>1. 0 \in K
  <2>1. PICK f : f = [k \in 0 .. 0 |-> d]
    OBVIOUS
  <2>2. IsDecoder(d, s, 0, f)
    BY <2>1 DEF IsDecoder
  <2> QED  BY <2>2
<1>2. ASSUME NEW j \in Nat, j \in K
      PROVE  j + 1 \in K
  <2>1. PICK f : IsDecoder(d, s, j, f)
    BY <1>2
  <2>2. PICK next : next = DecodeStep(f[j], s[j + 1])
    OBVIOUS
  <2>3. PICK h : h = [k \in 0 .. j + 1 |-> IF k = j + 1 THEN next ELSE f[k]]
    OBVIOUS
  <2>4. ASSUME NEW k \in 0 .. j + 1
        PROVE  h[k] = IF k = 0 THEN d ELSE DecodeStep(h[k - 1], s[k])
    <3>1. CASE k = j + 1
      <4>1. h[k - 1] = f[j] /\ k # 0 /\ h[k] = next
        BY <2>3, <3>1
      <4> QED  BY <2>2, <3>1, <4>1
    <3>2. CASE k = 0
      BY <2>1, <2>3, <3>2 DEF IsDecoder
    <3>3. CASE k # 0 /\ k # j + 1
      <4>1. k \in 0 .. j /\ h[k] = f[k] /\ h[k - 1] = f[k - 1]
        BY <2>3, <3>3
      <4> QED  BY <2>1, <3>3, <4>1 DEF IsDecoder
    <3> QED  BY <3>1, <3>2, <3>3
  <2>5. IsDecoder(d, s, j + 1, h)
    BY <2>3, <2>4 DEF IsDecoder
  <2> QED  BY <2>5
<1>3. K \in SUBSET Nat
  OBVIOUS
<1> HIDE DEF K
<1>4. K = Nat
  BY <1>1, <1>2, <1>3, AllNumbers
<1>5. n \in K
  BY <1>4
<1> QED  BY <1>5 DEF K

LEMMA DecoderFold ==
    ASSUME NEW text, Len(text) \in Nat
    PROVE  \E f : /\ f[0] = [prev |-> "t", out |-> <<>>]
                  /\ \A k \in 1 .. Len(text) : f[k] = DecodeStep(f[k - 1], text[k])
                  /\ DecodeTextX(text) = f[Len(text)].out
<1>1. PICK n \in Nat : n = Len(text)
  OBVIOUS
<1>2. PICK d : d = [prev |-> "t", out |-> <<>>]
  OBVIOUS
<1> DEFINE walk == CHOOSE f : IsDecoder(d, text, n, f)
<1>3. DecodeTextX(text) = walk[n].out
  BY <1>1, <1>2 DEF DecodeTextX, DecodeStep, FoldAlong, IsDecoder
<1>4. \E f : IsDecoder(d, text, n, f)
  BY <1>1, DecoderExists
<1>5. IsDecoder(d, text, n, walk)
  BY <1>4
<1> HIDE DEF walk
<1>6. PICK f : f = walk
  OBVIOUS
<1>7. f[0] = d /\ \A k \in 1 .. n : f[k] = DecodeStep(f[k - 1], text[k])
  BY <1>5, <1>6 DEF IsDecoder
<1> QED  BY <1>1, <1>2, <1>3, <1>6, <1>7

DecodedPart(d) == IsList(d.out) /\ (d.prev = "\\" => d.out # <<>>)

LEMMA FrontOfList ==
    ASSUME NEW t, IsList(t), t # <<>>
    PROVE  IsList(Front(t))
<1>1. PICK S, m : S = ListElements(t) /\ m = Len(t)
  OBVIOUS
<1>2. t \in Seq(S) /\ m \in Nat /\ Len(t) = m
  BY <1>1, ListIsSequence
<1>3. SubSeq(t, 1, m - 1) \in Seq(S)
  BY <1>2
<1> QED  BY <1>1, <1>3, SequenceIsList DEF Front

LEMMA DecodeStepIs ==
    ASSUME NEW d, DecodedPart(d), NEW c
    PROVE  DecodedPart(DecodeStep(d, c))
<1>1. PICK o, e : o = d.out /\ e = IF c \in Special /\ d.prev = "\\" THEN Append(Front(o), c) ELSE Append(o, c)
  OBVIOUS
<1>2. DecodeStep(d, c) = [prev |-> c, out |-> e]
  BY <1>1 DEF DecodeStep
<1>3. PICK h : h = IF c \in Special /\ d.prev = "\\" THEN Front(o) ELSE o
  OBVIOUS
<1>4. IsList(h)
  BY <1>1, <1>3, FrontOfList DEF DecodedPart
<1>5. e = Append(h, c)
  BY <1>1, <1>3
<1>6. Extended(Append(h, c), h, c)
  BY <1>4, ListAppend
<1>7. IsList(e) /\ Len(e) # 0
  BY <1>4, <1>5, <1>6 DEF Extended, IsList
<1>8. e # <<>>
  BY <1>7
<1> QED  BY <1>2, <1>7, <1>8 DEF DecodedPart

LEMMA DecodedIs ==
    ASSUME NEW text, Len(text) \in Nat
    PROVE  IsList(DecodeTextX(text))
<1>1. PICK n \in Nat : n = Len(text)
  OBVIOUS
<1>2. PICK f : /\ f[0] = [prev |-> "t", out |-> <<>>]
               /\ \A k \in 1 .. Len(text) : f[k] = DecodeStep(f[k - 1], text[k])
               /\ DecodeTextX(text) = f[Len(text)].out
  BY DecoderFold
<1> DEFINE K == {j \in Nat : j <= n => DecodedPart(f[j])}
<1>3. 0 \in K
  <2>1. PICK e : e = <<>>
    OBVIOUS
  <2>2. IsList(e)
    BY <2>1 DEF IsList
  <2>3. f[0].prev = "t" /\ f[0].out = e
    BY <1>2, <2>1
  <2>4. DecodedPart(f[0])
    BY <2>2, <2>3 DEF DecodedPart
  <2> QED  BY <2>4
<1>4. ASSUME NEW j \in Nat, j \in K
      PROVE  j + 1 \in K
  <2> SUFFICES ASSUME j + 1 <= n
               PROVE  DecodedPart(f[j + 1])
    OBVIOUS
  <2>1. j + 1 \in 1 .. n /\ j + 1 - 1 = j /\ DecodedPart(f[j])
    BY <1>4
  <2>2. f[j + 1] = DecodeStep(f[j], text[j + 1])
    BY <1>1, <1>2, <2>1
  <2> QED  BY <2>1, <2>2, DecodeStepIs
<1>5. K \in SUBSET Nat
  OBVIOUS
<1> HIDE DEF K
<1>6. n \in K
  BY <1>3, <1>4, <1>5, AllNumbers
<1>7. DecodedPart(f[n])
  BY <1>6 DEF K
<1> QED  BY <1>1, <1>2, <1>7 DEF DecodedPart

-----------------------------------------------------------------------------
(* The navigation *)

NaviFields == {"Root", "PosX", "PathX", "isSynchronousWriting", "isFixedParentCollection", "FirstParentPos",
               "ParentPos", "Levels", "SequenceNumber", "BufferLength", "BufferPos", "flags"}

\* The nodes it refers to exist, and its root is not the top of the hierarchy.
NaviNodes(t, x) ==
    /\ x.Root \in 0 .. Len(t) /\ x.PosX \in 0 .. Len(t) /\ x.PathX \in 0 .. Len(t)
    /\ x.Root # NULL => t[x.Root].Parent # NULL
    /\ x.isSynchronousWriting => x.PathX # NULL

NaviNumbers(x) ==
    /\ x.FirstParentPos \in Int /\ x.ParentPos \in Int /\ x.BufferPos \in Int
    /\ x.Levels \in Nat /\ x.BufferLength \in Nat

IsNavi(t, x) == DOMAIN x = NaviFields /\ NaviNodes(t, x) /\ NaviNumbers(x)

IsPlaced(x) == x.PosX # NULL /\ x.PathX # NULL

\* Only the flags are different.
SameNavi(y, x) ==
    /\ DOMAIN y = NaviFields
    /\ y.Root = x.Root /\ y.PosX = x.PosX /\ y.PathX = x.PathX /\ y.isSynchronousWriting = x.isSynchronousWriting
    /\ y.FirstParentPos = x.FirstParentPos /\ y.ParentPos = x.ParentPos /\ y.BufferPos = x.BufferPos
    /\ y.Levels = x.Levels /\ y.BufferLength = x.BufferLength

LEMMA FlagsOfNavi ==
    ASSUME NEW x, DOMAIN x = NaviFields, NEW f
    PROVE  SameNavi(Without(x, f), x) /\ SameNavi(With(x, f), x)
<1>1. SameNavi(Without(x, f), x)
  BY DEF SameNavi, Without, NaviFields
<1>2. SameNavi(With(x, f), x)
  BY DEF SameNavi, With, NaviFields
<1> QED  BY <1>1, <1>2

LEMMA SameNaviIs ==
    ASSUME NEW t, NEW x, IsNavi(t, x), NEW y, SameNavi(y, x)
    PROVE  IsNavi(t, y) /\ (IsPlaced(x) => IsPlaced(y))
<1>1. DOMAIN y = NaviFields /\ y.Root = x.Root /\ y.PosX = x.PosX /\ y.PathX = x.PathX
  BY DEF SameNavi
<1>2. NaviNodes(t, y)
  BY <1>1 DEF SameNavi, IsNavi, NaviNodes
<1>3. NaviNumbers(y)
  BY DEF SameNavi, IsNavi, NaviNumbers
<1> QED  BY <1>1, <1>2, <1>3 DEF IsNavi, IsPlaced

LEMMA NaviWithout ==
    ASSUME NEW t, NEW x, IsNavi(t, x), NEW f
    PROVE  /\ IsNavi(t, Without(x, f)) /\ (IsPlaced(x) => IsPlaced(Without(x, f)))
           /\ IsNavi(t, With(x, f)) /\ (IsPlaced(x) => IsPlaced(With(x, f)))
<1>1. SameNavi(Without(x, f), x) /\ SameNavi(With(x, f), x)
  BY FlagsOfNavi DEF IsNavi
<1> QED  BY <1>1, SameNaviIs

LEMMA NaviGrown ==
    ASSUME NEW t, IsHierarchy(t), NEW u, Grown(u, t), NEW x, IsNavi(t, x)
    PROVE  IsNavi(u, x)
<1>1. PICK m, n : m = Len(t) /\ n = Len(u)
  OBVIOUS
<1>2. m \in Nat /\ n \in Nat /\ m <= n /\ \A k \in 1 .. m : u[k].Parent = t[k].Parent
  BY <1>1 DEF Grown, IsHierarchy, IsNodes, IsList
<1>3. x.Root \in 0 .. m /\ x.PosX \in 0 .. m /\ x.PathX \in 0 .. m /\ (x.Root # NULL => t[x.Root].Parent # NULL)
  BY <1>1 DEF IsNavi, NaviNodes
<1>4. x.Root # NULL => u[x.Root].Parent # NULL
  BY <1>2, <1>3 DEF NULL
<1>5. x.Root \in 0 .. n /\ x.PosX \in 0 .. n /\ x.PathX \in 0 .. n
  BY <1>2, <1>3
<1>6. x.isSynchronousWriting => x.PathX # NULL
  BY DEF IsNavi, NaviNodes
<1>7. NaviNodes(u, x)
  BY <1>1, <1>4, <1>5, <1>6 DEF NaviNodes
<1> QED  BY <1>7 DEF IsNavi

ItemState == {"node", "X", "line", "ok"}

StateShape(s) == DOMAIN s = ItemState /\ IsHierarchy(s.node) /\ IsNavi(s.node, s.X)

\* Behind its first item a line that goes on has a place.
IsState(s) == StateShape(s) /\ (s.ok => "isFirstItem" \in s.X.flags \/ IsPlaced(s.X))

StatePlaced(s) == StateShape(s) /\ IsPlaced(s.X)

LEMMA PlacedIsState ==
    ASSUME NEW s, StatePlaced(s)
    PROVE  IsState(s)
  BY DEF StatePlaced, IsState

LEMMA StateNavi ==
    ASSUME NEW s, StateShape(s), NEW x, IsNavi(s.node, x)
    PROVE  /\ StateShape([s EXCEPT !.X = x]) /\ [s EXCEPT !.X = x].X = x /\ [s EXCEPT !.X = x].node = s.node
           /\ [s EXCEPT !.X = x].ok = s.ok
<1>1. PICK r : r = [s EXCEPT !.X = x]
  OBVIOUS
<1>2. DOMAIN r = ItemState /\ r.X = x /\ r.node = s.node /\ r.ok = s.ok
  BY <1>1 DEF StateShape, ItemState
<1> QED  BY <1>1, <1>2 DEF StateShape

LEMMA StateNodes ==
    ASSUME NEW s, StateShape(s), NEW u, Grown(u, s.node)
    PROVE  /\ StateShape([s EXCEPT !.node = u]) /\ [s EXCEPT !.node = u].X = s.X /\ [s EXCEPT !.node = u].node = u
           /\ [s EXCEPT !.node = u].ok = s.ok
<1>1. PICK r : r = [s EXCEPT !.node = u]
  OBVIOUS
<1>2. DOMAIN r = ItemState /\ r.X = s.X /\ r.node = u /\ r.ok = s.ok
  BY <1>1 DEF StateShape, ItemState
<1>3. IsHierarchy(u) /\ IsNavi(u, s.X)
  BY NaviGrown DEF StateShape, Grown
<1> QED  BY <1>1, <1>2, <1>3 DEF StateShape

-----------------------------------------------------------------------------
(* checkSyncronousWriting() *)

BeforeIt(t, parent, pos) == SelectInSeq(Children(t, parent), LAMBDA n : n = pos) - 1

SyncBegun(x) ==
    [Without(x, {"isRepeatedPath", "isPath"}) EXCEPT
       !.isSynchronousWriting = TRUE, !.FirstParentPos = -1, !.Levels = 0,
       !.SequenceNumber = 0, !.BufferLength = 0, !.BufferPos = -1]

SyncIdentifier(x) == [x EXCEPT !.isSynchronousWriting = FALSE, !.isFixedParentCollection = FALSE]

SyncBeside(t, x) ==
    [SyncBegun(x) EXCEPT !.PathX = t[x.PosX].Parent, !.FirstParentPos = BeforeIt(t, t[x.PosX].Parent, x.PosX) - 1,
                         !.ParentPos = BeforeIt(t, t[x.PosX].Parent, x.PosX) - 1]

SyncBelow(t, x) ==
    [SyncBegun(x) EXCEPT !.PosX = x.PathX, !.ParentPos = -1, !.Levels = IF t[x.PathX].Child # NULL THEN 1 ELSE 0]

SyncFurther(x) == [x EXCEPT !.ParentPos = x.FirstParentPos, !.Levels = @ + 1]

SyncNumber(x) ==
    [x EXCEPT !.ParentPos = x.FirstParentPos, !.SequenceNumber = @ + 1,
              !.BufferPos = IF x.BufferLength > 0 THEN (@ + 1) % x.BufferLength ELSE @ + 1]

LEMMA CheckCases ==
    ASSUME NEW s, NEW type
    PROVE  IF s.X.PosX = NULL \/ s.X.PathX = NULL
           THEN CheckSynchronousWriting(s, type) = [s EXCEPT !.ok = FALSE]
           ELSE \E next : /\ CheckSynchronousWriting(s, type) = [s EXCEPT !.X = Without(next, {"isFirstItem", "isRestore"})]
                          /\ \/ next = SyncIdentifier(s.X)
                             \/ s.node[s.X.PosX].Parent # NULL /\ next = SyncBeside(s.node, s.X)
                             \/ next = SyncBelow(s.node, s.X)
                             \/ s.X.isSynchronousWriting /\ next = SyncFurther(s.X)
                             \/ s.X.isSynchronousWriting /\ next = SyncNumber(s.X)
<1>1. CASE s.X.PosX = NULL \/ s.X.PathX = NULL
  BY <1>1 DEF CheckSynchronousWriting
<1>2. CASE ~ (s.X.PosX = NULL \/ s.X.PathX = NULL)
  <2> DEFINE x == s.X
             parent == s.node[x.PosX].Parent
             isBeside == parent # NULL /\ ("isRestore" \in x.flags \/ s.node[x.PosX].Child = NULL)
             next ==
               CASE type = "IDENTIFIER" -> SyncIdentifier(x)
                 [] type # "IDENTIFIER" /\ ~x.isSynchronousWriting /\ isBeside -> SyncBeside(s.node, x)
                 [] type # "IDENTIFIER" /\ ~x.isSynchronousWriting /\ ~isBeside -> SyncBelow(s.node, x)
                 [] type # "IDENTIFIER" /\ x.isSynchronousWriting /\ ~x.isFixedParentCollection -> SyncFurther(x)
                 [] type # "IDENTIFIER" /\ x.isSynchronousWriting /\ x.isFixedParentCollection -> SyncNumber(x)
  <2>1. CheckSynchronousWriting(s, type) = [s EXCEPT !.X = Without(next, {"isFirstItem", "isRestore"})]
    BY <1>2 DEF CheckSynchronousWriting, BeforeIt, SyncBegun, SyncIdentifier, SyncBeside, SyncBelow, SyncFurther,
                SyncNumber, SelectInSeq
  <2>2. \/ next = SyncIdentifier(x)
        \/ parent # NULL /\ next = SyncBeside(s.node, x)
        \/ next = SyncBelow(s.node, x)
        \/ x.isSynchronousWriting /\ next = SyncFurther(x)
        \/ x.isSynchronousWriting /\ next = SyncNumber(x)
    OBVIOUS
  <2> HIDE DEF next
  <2> QED  BY <1>2, <2>1, <2>2
<1> QED  BY <1>1, <1>2

LEMMA BeforeIsNumber ==
    ASSUME NEW t, IsHierarchy(t), NEW p \in 1 .. Len(t), NEW pos
    PROVE  BeforeIt(t, p, pos) \in Int
<1>1. PICK c, m : c = Children(t, p) /\ m = Len(c)
  OBVIOUS
<1>2. m \in Nat
  BY <1>1, ChildrenAreList
<1>3. PICK I : I = {i \in 1 .. m : c[i] = pos}
  OBVIOUS
<1>4. BeforeIt(t, p, pos) = (IF I # {} THEN Min(I) ELSE 0) - 1
  BY <1>1, <1>3 DEF BeforeIt, SelectInSeq
<1>5. CASE I = {}
  BY <1>4, <1>5
<1>6. CASE I # {}
  <2>1. I \in SUBSET Nat
    BY <1>2, <1>3
  <2>2. \E i \in I : \A j \in I : i <= j
    BY <1>6, <2>1, FirstOfNumbers
  <2>3. Min(I) \in I
    BY <2>2 DEF Min
  <2>4. Min(I) \in Nat
    BY <2>1, <2>3
  <2> QED  BY <1>4, <1>6, <2>4
<1> QED  BY <1>5, <1>6

LEMMA BegunIs ==
    ASSUME NEW x, DOMAIN x = NaviFields, NEW y, y = SyncBegun(x)
    PROVE  /\ DOMAIN y = NaviFields /\ y.Root = x.Root /\ y.PosX = x.PosX /\ y.PathX = x.PathX
           /\ y.FirstParentPos = -1 /\ y.ParentPos = x.ParentPos /\ y.Levels = 0 /\ y.BufferLength = 0
           /\ y.BufferPos = -1
  BY DEF SyncBegun, Without, NaviFields

LEMMA ParentIs ==
    ASSUME NEW t, IsHierarchy(t), NEW n \in 1 .. Len(t), t[n].Parent # NULL
    PROVE  t[n].Parent \in 1 .. Len(t)
<1>1. PICK m \in Nat : m = Len(t)
  BY DEF IsHierarchy, IsNodes, IsList
<1>2. n = 1 \/ n \in 2 .. m
  BY <1>1
<1> QED  BY <1>1, <1>2 DEF IsHierarchy, IsNodes

\* Where a position is and what it counts.
NaviStands(t, x) ==
    /\ DOMAIN x = NaviFields /\ x.Root \in 0 .. Len(t) /\ x.PosX \in 1 .. Len(t) /\ x.PathX \in 1 .. Len(t)
    /\ x.Root # NULL => t[x.Root].Parent # NULL

NaviCounts(x) ==
    /\ x.FirstParentPos \in Int /\ x.ParentPos \in Int /\ x.BufferPos \in Int
    /\ x.Levels \in Nat /\ x.BufferLength \in Nat

LEMMA NaviLocated ==
    ASSUME NEW t, IsHierarchy(t), NEW x, NaviStands(t, x), NaviCounts(x)
    PROVE  IsNavi(t, x) /\ IsPlaced(x)
<1>1. PICK m \in Nat : m = Len(t)
  BY DEF IsHierarchy, IsNodes, IsList
<1>2. x.PosX # NULL /\ x.PathX # NULL /\ x.PosX \in 0 .. m /\ x.PathX \in 0 .. m
  BY <1>1 DEF NaviStands, NULL
<1>3. NaviNodes(t, x)
  BY <1>1, <1>2 DEF NaviStands, NaviNodes
<1>4. NaviNumbers(x)
  BY DEF NaviCounts, NaviNumbers
<1>5. DOMAIN x = NaviFields
  BY DEF NaviStands
<1> QED  BY <1>2, <1>3, <1>4, <1>5 DEF IsNavi, IsPlaced

LEMMA CheckedIs ==
    ASSUME NEW t, IsHierarchy(t), NEW x, IsNavi(t, x), IsPlaced(x), NEW next,
           \/ next = SyncIdentifier(x)
           \/ t[x.PosX].Parent # NULL /\ next = SyncBeside(t, x)
           \/ next = SyncBelow(t, x)
           \/ x.isSynchronousWriting /\ next = SyncFurther(x)
           \/ x.isSynchronousWriting /\ next = SyncNumber(x)
    PROVE  IsNavi(t, next) /\ IsPlaced(next)
<1>1. /\ DOMAIN x = NaviFields /\ x.Root \in 0 .. Len(t) /\ x.PosX \in 1 .. Len(t) /\ x.PathX \in 1 .. Len(t)
      /\ x.Root # NULL => t[x.Root].Parent # NULL
  BY DEF IsNavi, NaviNodes, IsPlaced, NULL
<1>2. x.FirstParentPos \in Int /\ x.ParentPos \in Int /\ x.BufferPos \in Int /\ x.Levels \in Nat /\ x.BufferLength \in Nat
  BY DEF IsNavi, NaviNumbers
<1>3. CASE next = SyncIdentifier(x)
  <2>1. /\ DOMAIN next = NaviFields /\ next.Root = x.Root /\ next.PosX = x.PosX /\ next.PathX = x.PathX
        /\ next.FirstParentPos = x.FirstParentPos /\ next.ParentPos = x.ParentPos /\ next.Levels = x.Levels
        /\ next.BufferLength = x.BufferLength /\ next.BufferPos = x.BufferPos
    BY <1>1, <1>3 DEF SyncIdentifier, NaviFields
  <2>2. NaviStands(t, next)
    BY <1>1, <2>1 DEF NaviStands
  <2>3. NaviCounts(next)
    BY <1>2, <2>1 DEF NaviCounts
  <2> QED  BY <2>2, <2>3, NaviLocated
<1>4. CASE t[x.PosX].Parent # NULL /\ next = SyncBeside(t, x)
  <2>1. PICK y : y = SyncBegun(x)
    OBVIOUS
  <2>2. PICK p, b : p = t[x.PosX].Parent /\ b = BeforeIt(t, t[x.PosX].Parent, x.PosX)
    OBVIOUS
  <2>3. p \in 1 .. Len(t) /\ b \in Int
    BY <1>1, <1>4, <2>2, ParentIs, BeforeIsNumber
  <2>4. next = [y EXCEPT !.PathX = p, !.FirstParentPos = b - 1, !.ParentPos = b - 1]
    BY <1>4, <2>1, <2>2 DEF SyncBeside
  <2>5. /\ DOMAIN y = NaviFields /\ y.Root = x.Root /\ y.PosX = x.PosX
        /\ y.Levels = 0 /\ y.BufferLength = 0 /\ y.BufferPos = -1
    BY <1>1, <2>1, BegunIs
  <2>6. /\ DOMAIN next = NaviFields /\ next.Root = x.Root /\ next.PosX = x.PosX /\ next.PathX = p
        /\ next.FirstParentPos = b - 1 /\ next.ParentPos = b - 1 /\ next.Levels = 0
        /\ next.BufferLength = 0 /\ next.BufferPos = -1
    BY <2>4, <2>5 DEF NaviFields
  <2>7. NaviStands(t, next)
    BY <1>1, <2>3, <2>6 DEF NaviStands
  <2>8. NaviCounts(next)
    BY <2>3, <2>6 DEF NaviCounts
  <2> QED  BY <2>7, <2>8, NaviLocated
<1>5. CASE next = SyncBelow(t, x)
  <2>1. PICK y, l : y = SyncBegun(x) /\ l = IF t[x.PathX].Child # NULL THEN 1 ELSE 0
    OBVIOUS
  <2>2. next = [y EXCEPT !.PosX = x.PathX, !.ParentPos = -1, !.Levels = l] /\ l \in Nat
    BY <1>5, <2>1 DEF SyncBelow
  <2>3. /\ DOMAIN y = NaviFields /\ y.Root = x.Root /\ y.PathX = x.PathX /\ y.FirstParentPos = -1
        /\ y.BufferLength = 0 /\ y.BufferPos = -1
    BY <1>1, <2>1, BegunIs
  <2>4. /\ DOMAIN next = NaviFields /\ next.Root = x.Root /\ next.PosX = x.PathX /\ next.PathX = x.PathX
        /\ next.FirstParentPos = -1 /\ next.ParentPos = -1 /\ next.Levels = l
        /\ next.BufferLength = 0 /\ next.BufferPos = -1
    BY <2>2, <2>3 DEF NaviFields
  <2>5. NaviStands(t, next)
    BY <1>1, <2>4 DEF NaviStands
  <2>6. NaviCounts(next)
    BY <2>2, <2>4 DEF NaviCounts
  <2> QED  BY <2>5, <2>6, NaviLocated
<1>6. CASE next = SyncFurther(x)
  <2>1. /\ DOMAIN next = NaviFields /\ next.Root = x.Root /\ next.PosX = x.PosX /\ next.PathX = x.PathX
        /\ next.FirstParentPos = x.FirstParentPos /\ next.ParentPos = x.FirstParentPos /\ next.Levels = x.Levels + 1
        /\ next.BufferLength = x.BufferLength /\ next.BufferPos = x.BufferPos
    BY <1>1, <1>6 DEF SyncFurther, NaviFields
  <2>2. NaviStands(t, next)
    BY <1>1, <2>1 DEF NaviStands
  <2>3. NaviCounts(next)
    BY <1>2, <2>1 DEF NaviCounts
  <2> QED  BY <2>2, <2>3, NaviLocated
<1>7. CASE next = SyncNumber(x)
  <2>1. PICK b : b = IF x.BufferLength > 0 THEN (x.BufferPos + 1) % x.BufferLength ELSE x.BufferPos + 1
    OBVIOUS
  <2>2. b \in Int
    BY <1>2, <2>1
  <2>3. next = [x EXCEPT !.ParentPos = x.FirstParentPos, !.SequenceNumber = @ + 1, !.BufferPos = b]
    BY <1>7, <2>1 DEF SyncNumber
  <2>4. /\ DOMAIN next = NaviFields /\ next.Root = x.Root /\ next.PosX = x.PosX /\ next.PathX = x.PathX
        /\ next.FirstParentPos = x.FirstParentPos /\ next.ParentPos = x.FirstParentPos /\ next.Levels = x.Levels
        /\ next.BufferLength = x.BufferLength /\ next.BufferPos = b
    BY <1>1, <2>3 DEF NaviFields
  <2>5. NaviStands(t, next)
    BY <1>1, <2>4 DEF NaviStands
  <2>6. NaviCounts(next)
    BY <1>2, <2>2, <2>4 DEF NaviCounts
  <2> QED  BY <2>5, <2>6, NaviLocated
<1> QED  BY <1>3, <1>4, <1>5, <1>6, <1>7

LEMMA CheckIs ==
    ASSUME NEW s, StateShape(s), NEW type, NEW r, r = CheckSynchronousWriting(s, type)
    PROVE  StateShape(r) /\ (r.ok => StatePlaced(r))
<1>1. CASE s.X.PosX = NULL \/ s.X.PathX = NULL
  <2>1. r = [s EXCEPT !.ok = FALSE]
    BY <1>1, CheckCases
  <2>2. DOMAIN r = ItemState /\ r.X = s.X /\ r.node = s.node /\ ~ r.ok
    BY <2>1 DEF StateShape, ItemState
  <2> QED  BY <2>2 DEF StateShape
<1>2. CASE ~ (s.X.PosX = NULL \/ s.X.PathX = NULL)
  <2>1. PICK next : /\ r = [s EXCEPT !.X = Without(next, {"isFirstItem", "isRestore"})]
                    /\ \/ next = SyncIdentifier(s.X)
                       \/ s.node[s.X.PosX].Parent # NULL /\ next = SyncBeside(s.node, s.X)
                       \/ next = SyncBelow(s.node, s.X)
                       \/ s.X.isSynchronousWriting /\ next = SyncFurther(s.X)
                       \/ s.X.isSynchronousWriting /\ next = SyncNumber(s.X)
    BY <1>2, CheckCases
  <2>2. IsNavi(s.node, next) /\ IsPlaced(next)
    BY <1>2, <2>1, CheckedIs DEF StateShape, IsPlaced
  <2>3. PICK y : y = Without(next, {"isFirstItem", "isRestore"})
    OBVIOUS
  <2>4. IsNavi(s.node, y) /\ IsPlaced(y)
    BY <2>2, <2>3, NaviWithout
  <2>5. r = [s EXCEPT !.X = y]
    BY <2>1, <2>3
  <2>6. StateShape(r) /\ r.X = y
    BY <2>4, <2>5, StateNavi
  <2> QED  BY <2>4, <2>6 DEF StatePlaced
<1> QED  BY <1>1, <1>2

-----------------------------------------------------------------------------
(* runSynchronousWriting() *)

LEMMA NumberIs ==
    ASSUME NEW text, Len(text) \in Nat
    PROVE  NumberOf(text) \in Nat
<1>1. PICK s, n : s = AddressNumbers(text) /\ n = Len(s)
  OBVIOUS
<1>2. n \in Nat /\ n # 0 /\ \A i \in 1 .. n : s[i] \in Nat
  BY <1>1, AddressIs DEF ArePositions, IsList
<1>3. Last(s) \in Nat
  BY <1>1, <1>2 DEF Last
<1> QED  BY <1>1, <1>3 DEF NumberOf

LEMMA NumbersAre ==
    ASSUME NEW s \in Seq(Int)
    PROVE  AreNumbers(s)
<1>1. IsList(s)
  BY SequenceIsList
<1>2. \A i \in 1 .. Len(s) : s[i] \in Int
  OBVIOUS
<1> QED  BY <1>1, <1>2 DEF AreNumbers

LEMMA SyncAddressIs ==
    ASSUME NEW x, NaviNumbers(x)
    PROVE  AreNumbers(SyncAddress(x))
<1>1. x.ParentPos \in Int /\ x.Levels \in Nat /\ x.BufferPos \in Int
  BY DEF NaviNumbers
<1>2. PICK a, b, c : /\ a = <<x.ParentPos>> /\ b = [k \in 1 .. x.Levels |-> 0]
                     /\ c = IF ~x.isFixedParentCollection THEN <<>>
                            ELSE IF x.BufferPos < 0 THEN <<0, -x.BufferPos>> ELSE <<x.BufferPos>>
  OBVIOUS
<1>3. a \in Seq(Int)
  BY <1>1, <1>2
<1>4. b \in Seq(Int)
  BY <1>1, <1>2
<1>5. c \in Seq(Int)
  <2>1. -x.BufferPos \in Int
    BY <1>1
  <2>2. <<>> \in Seq(Int) /\ <<0, -x.BufferPos>> \in Seq(Int) /\ <<x.BufferPos>> \in Seq(Int)
    BY <1>1, <2>1
  <2> QED  BY <1>2, <2>2
<1>6. a \o b \o c \in Seq(Int)
  BY <1>3, <1>4, <1>5
<1>7. SyncAddress(x) = a \o b \o c
  BY <1>2 DEF SyncAddress
<1> QED  BY <1>6, <1>7, NumbersAre

NextParent(x) == [x EXCEPT !.ParentPos = @ + 1]

LEMMA NextParentIs ==
    ASSUME NEW t, NEW x, IsNavi(t, x), NEW y, y = NextParent(x)
    PROVE  /\ IsNavi(t, y) /\ y.Root = x.Root /\ y.PosX = x.PosX /\ y.PathX = x.PathX
           /\ y.isSynchronousWriting = x.isSynchronousWriting
<1>1. /\ DOMAIN y = NaviFields /\ y.Root = x.Root /\ y.PosX = x.PosX /\ y.PathX = x.PathX
      /\ y.isSynchronousWriting = x.isSynchronousWriting
      /\ y.FirstParentPos = x.FirstParentPos /\ y.ParentPos = x.ParentPos + 1 /\ y.Levels = x.Levels
      /\ y.BufferLength = x.BufferLength /\ y.BufferPos = x.BufferPos
  BY DEF NextParent, IsNavi, NaviFields
<1>2. NaviNodes(t, y)
  BY <1>1 DEF IsNavi, NaviNodes
<1>3. NaviNumbers(y)
  BY <1>1 DEF IsNavi, NaviNumbers
<1> QED  BY <1>1, <1>2, <1>3 DEF IsNavi

RunFixed(x)        == Without(With([x EXCEPT !.isFixedParentCollection = TRUE], {"isWaitForLength"}), {"isWaitForStart"})
RunLength(x, item) == Without(With([x EXCEPT !.BufferLength = NumberOf(item)], {"isWaitForStart"}), {"isWaitForLength"})
RunStart(x, item)  == Without([x EXCEPT !.BufferPos = NumberOf(item) - 1], {"isWaitForStart"})
RunStored(x, p)    == IF x.PathX = 1 THEN [x EXCEPT !.Root = NULL, !.PosX = p.at] ELSE x

RunPlace(s, x) == GetPosition(s.node, x.PathX, SyncAddress(x))

RunForms(r, s, item, type, x, p) ==
    \/ r = [s EXCEPT !.X = RunFixed(x)]
    \/ r = [s EXCEPT !.X = RunLength(x, item)]
    \/ r = [s EXCEPT !.X = RunStart(x, item)]
    \/ r = [s EXCEPT !.X = RunStored(x, p), !.node = Set(p.t, p.at, type, item)]

LEMMA RunCases ==
    ASSUME NEW s, NEW item, NEW type
    PROVE  RunForms(RunSynchronousWriting(s, item, type), s, item, type, NextParent(s.X), RunPlace(s, NextParent(s.X)))
  BY DEF RunSynchronousWriting, RunFixed, RunLength, RunStart, RunStored, NextParent, RunForms, RunPlace

LEMMA FixedNavi ==
    ASSUME NEW t, NEW x, IsNavi(t, x), IsPlaced(x), NEW item, Len(item) \in Nat
    PROVE  /\ IsNavi(t, RunFixed(x)) /\ IsPlaced(RunFixed(x))
           /\ IsNavi(t, RunLength(x, item)) /\ IsPlaced(RunLength(x, item))
           /\ IsNavi(t, RunStart(x, item)) /\ IsPlaced(RunStart(x, item))
<1>1. DOMAIN x = NaviFields /\ NaviNodes(t, x) /\ NaviNumbers(x)
  BY DEF IsNavi
<1>2. PICK n \in Nat : n = NumberOf(item)
  BY NumberIs
<1>3. PICK a, b, c : /\ a = [x EXCEPT !.isFixedParentCollection = TRUE] /\ b = [x EXCEPT !.BufferLength = n]
                     /\ c = [x EXCEPT !.BufferPos = n - 1]
  OBVIOUS
<1>4. IsNavi(t, a) /\ IsPlaced(a)
  <2>1. SameNavi(a, x)
    BY <1>1, <1>3 DEF SameNavi, NaviFields
  <2> QED  BY <2>1, SameNaviIs
<1>5. IsNavi(t, b) /\ IsPlaced(b)
  <2>1. /\ DOMAIN b = NaviFields /\ b.Root = x.Root /\ b.PosX = x.PosX /\ b.PathX = x.PathX
        /\ b.isSynchronousWriting = x.isSynchronousWriting
        /\ b.FirstParentPos = x.FirstParentPos /\ b.ParentPos = x.ParentPos /\ b.Levels = x.Levels
        /\ b.BufferLength = n /\ b.BufferPos = x.BufferPos
    BY <1>1, <1>3 DEF NaviFields
  <2>2. NaviNodes(t, b) /\ IsPlaced(b)
    BY <1>1, <2>1 DEF NaviNodes, IsPlaced
  <2>3. NaviNumbers(b)
    BY <1>1, <2>1 DEF NaviNumbers
  <2> QED  BY <2>1, <2>2, <2>3 DEF IsNavi
<1>6. IsNavi(t, c) /\ IsPlaced(c)
  <2>1. /\ DOMAIN c = NaviFields /\ c.Root = x.Root /\ c.PosX = x.PosX /\ c.PathX = x.PathX
        /\ c.isSynchronousWriting = x.isSynchronousWriting
        /\ c.FirstParentPos = x.FirstParentPos /\ c.ParentPos = x.ParentPos /\ c.Levels = x.Levels
        /\ c.BufferLength = x.BufferLength /\ c.BufferPos = n - 1
    BY <1>1, <1>3 DEF NaviFields
  <2>2. NaviNodes(t, c) /\ IsPlaced(c)
    BY <1>1, <2>1 DEF NaviNodes, IsPlaced
  <2>3. NaviNumbers(c)
    BY <1>1, <2>1 DEF NaviNumbers
  <2> QED  BY <2>1, <2>2, <2>3 DEF IsNavi
<1>7. /\ RunFixed(x) = Without(With(a, {"isWaitForLength"}), {"isWaitForStart"})
      /\ RunLength(x, item) = Without(With(b, {"isWaitForStart"}), {"isWaitForLength"})
      /\ RunStart(x, item) = Without(c, {"isWaitForStart"})
  BY <1>2, <1>3 DEF RunFixed, RunLength, RunStart
<1>8. PICK a2, b2 : a2 = With(a, {"isWaitForLength"}) /\ b2 = With(b, {"isWaitForStart"})
  OBVIOUS
<1>9. IsNavi(t, a2) /\ IsPlaced(a2) /\ IsNavi(t, b2) /\ IsPlaced(b2)
  BY <1>4, <1>5, <1>8, NaviWithout
<1> QED  BY <1>6, <1>7, <1>8, <1>9, NaviWithout

LEMMA RunStoredIs ==
    ASSUME NEW t, NEW x, IsNavi(t, x), IsPlaced(x), NEW p, p.at \in 1 .. Len(t)
    PROVE  IsNavi(t, RunStored(x, p)) /\ IsPlaced(RunStored(x, p))
<1>1. CASE x.PathX = 1
  <2>1. PICK y : y = [x EXCEPT !.Root = NULL, !.PosX = p.at]
    OBVIOUS
  <2>2. /\ DOMAIN y = NaviFields /\ y.Root = NULL /\ y.PosX = p.at /\ y.PathX = x.PathX
        /\ y.isSynchronousWriting = x.isSynchronousWriting
        /\ y.FirstParentPos = x.FirstParentPos /\ y.ParentPos = x.ParentPos /\ y.Levels = x.Levels
        /\ y.BufferLength = x.BufferLength /\ y.BufferPos = x.BufferPos
    BY <2>1 DEF IsNavi, NaviFields
  <2>3. NULL \in 0 .. Len(t) /\ p.at \in 0 .. Len(t) /\ p.at # NULL
    BY DEF NULL
  <2>4. NaviNodes(t, y) /\ IsPlaced(y)
    BY <2>2, <2>3 DEF IsNavi, NaviNodes, IsPlaced
  <2>5. NaviNumbers(y)
    BY <2>2 DEF IsNavi, NaviNumbers
  <2>6. RunStored(x, p) = y
    BY <1>1, <2>1 DEF RunStored
  <2> QED  BY <2>2, <2>4, <2>5, <2>6 DEF IsNavi
<1>2. CASE x.PathX # 1
  <2>1. RunStored(x, p) = x
    BY <1>2 DEF RunStored
  <2> QED  BY <2>1
<1> QED  BY <1>1, <1>2

LEMMA SetGrown ==
    ASSUME NEW t, IsHierarchy(t), NEW n \in 1 .. Len(t), NEW type, NEW text
    PROVE  Grown(Set(t, n, type, text), t) /\ Len(Set(t, n, type, text)) = Len(t)
<1>1. SameLinks(Set(t, n, type, text), t)
  BY SetIsSame
<1>2. SameHierarchy(Set(t, n, type, text), t)
  BY <1>1, LinksHierarchy
<1> QED  BY <1>2, GrownSame DEF SameHierarchy

LEMMA RunIs ==
    ASSUME NEW s, StatePlaced(s), NEW item, Len(item) \in Nat, NEW type, NEW r, r = RunSynchronousWriting(s, item, type)
    PROVE  StatePlaced(r)
<1>1. PICK x : x = NextParent(s.X)
  OBVIOUS
<1>2. PICK p : p = RunPlace(s, x)
  OBVIOUS
<1>3. StateShape(s) /\ IsHierarchy(s.node) /\ IsNavi(s.node, s.X) /\ IsPlaced(s.X)
  BY DEF StatePlaced, StateShape
<1>4. IsNavi(s.node, x) /\ IsPlaced(x)
  BY <1>1, <1>3, NextParentIs DEF IsPlaced
<1>5. IsPlace(p) /\ Grown(p.t, s.node)
  <2>1. x.PathX \in 1 .. Len(s.node)
    BY <1>4 DEF IsNavi, NaviNodes, IsPlaced, NULL
  <2>2. AreNumbers(SyncAddress(x))
    BY <1>4, SyncAddressIs DEF IsNavi
  <2> QED  BY <1>2, <1>3, <2>1, <2>2, GetPositionIs DEF RunPlace
<1>6. RunForms(r, s, item, type, x, p)
  BY <1>1, <1>2, RunCases
<1>7. ASSUME NEW y, IsNavi(s.node, y), IsPlaced(y), r = [s EXCEPT !.X = y]
      PROVE  StatePlaced(r)
  BY <1>3, <1>7, StateNavi DEF StatePlaced
<1>8. CASE r = [s EXCEPT !.X = RunStored(x, p), !.node = Set(p.t, p.at, type, item)]
  <2>1. PICK u, y : u = Set(p.t, p.at, type, item) /\ y = RunStored(x, p)
    OBVIOUS
  <2>2. IsHierarchy(p.t) /\ p.at \in 1 .. Len(p.t)
    BY <1>5 DEF IsPlace
  <2>3. Grown(u, p.t) /\ Len(u) = Len(p.t)
    BY <2>1, <2>2, SetGrown
  <2>4. Grown(u, s.node)
    BY <1>3, <1>5, <2>3, GrownTwice
  <2>5. IsNavi(u, x)
    BY <1>3, <1>4, <2>4, NaviGrown
  <2>6. IsNavi(u, y) /\ IsPlaced(y)
    BY <1>4, <2>1, <2>2, <2>3, <2>5, RunStoredIs
  <2>7. r = [s EXCEPT !.X = y, !.node = u]
    BY <1>8, <2>1
  <2>8. DOMAIN r = ItemState /\ r.X = y /\ r.node = u
    BY <1>3, <2>7 DEF StateShape, ItemState
  <2> QED  BY <2>3, <2>6, <2>8 DEF StatePlaced, StateShape, Grown
<1>9. /\ IsNavi(s.node, RunFixed(x)) /\ IsPlaced(RunFixed(x))
      /\ IsNavi(s.node, RunLength(x, item)) /\ IsPlaced(RunLength(x, item))
      /\ IsNavi(s.node, RunStart(x, item)) /\ IsPlaced(RunStart(x, item))
  BY <1>4, FixedNavi
<1>10. CASE r = [s EXCEPT !.X = RunFixed(x)]
  BY <1>7, <1>9, <1>10
<1>11. CASE r = [s EXCEPT !.X = RunLength(x, item)]
  BY <1>7, <1>9, <1>11
<1>12. CASE r = [s EXCEPT !.X = RunStart(x, item)]
  BY <1>7, <1>9, <1>12
<1> QED  BY <1>6, <1>8, <1>10, <1>11, <1>12 DEF RunForms

-----------------------------------------------------------------------------
(* putChildOnPath() and evaluateRepeatedPath() *)

UpPath(t, x, n) == IF t[n].Parent # NULL /\ t[n].Parent # x.PosX /\ n # x.PosX THEN t[n].Parent ELSE n

PathStart(t, x) == IF x.PosX = x.PathX /\ t[x.PathX].Child # NULL THEN t[x.PathX].Child ELSE x.PathX

\* The way up to the path, node by node.
IsAscent(t, x, d, n, f) ==
    f = [k \in 0 .. n |-> IF k = 0 THEN d ELSE UpPath(t, x, f[k - 1])]

LEMMA AscentExists ==
    ASSUME NEW t, NEW x, NEW d, NEW n \in Nat
    PROVE  \E f : IsAscent(t, x, d, n, f)
<1> DEFINE K == {j \in Nat : \E f : IsAscent(t, x, d, j, f)}
<1>1. 0 \in K
  <2>1. PICK f : f = [k \in 0 .. 0 |-> d]
    OBVIOUS
  <2>2. IsAscent(t, x, d, 0, f)
    BY <2>1 DEF IsAscent
  <2> QED  BY <2>2
<1>2. ASSUME NEW j \in Nat, j \in K
      PROVE  j + 1 \in K
  <2>1. PICK f : IsAscent(t, x, d, j, f)
    BY <1>2
  <2>2. PICK next : next = UpPath(t, x, f[j])
    OBVIOUS
  <2>3. PICK h : h = [k \in 0 .. j + 1 |-> IF k = j + 1 THEN next ELSE f[k]]
    OBVIOUS
  <2>4. ASSUME NEW k \in 0 .. j + 1
        PROVE  h[k] = IF k = 0 THEN d ELSE UpPath(t, x, h[k - 1])
    <3>1. CASE k = j + 1
      <4>1. h[k - 1] = f[j] /\ k # 0 /\ h[k] = next
        BY <2>3, <3>1
      <4> QED  BY <2>2, <3>1, <4>1
    <3>2. CASE k = 0
      BY <2>1, <2>3, <3>2 DEF IsAscent
    <3>3. CASE k # 0 /\ k # j + 1
      <4>1. k \in 0 .. j /\ h[k] = f[k] /\ h[k - 1] = f[k - 1]
        BY <2>3, <3>3
      <4> QED  BY <2>1, <3>3, <4>1 DEF IsAscent
    <3> QED  BY <3>1, <3>2, <3>3
  <2>5. IsAscent(t, x, d, j + 1, h)
    BY <2>3, <2>4 DEF IsAscent
  <2> QED  BY <2>5
<1>3. K \in SUBSET Nat
  OBVIOUS
<1> HIDE DEF K
<1>4. K = Nat
  BY <1>1, <1>2, <1>3, AllNumbers
<1>5. n \in K
  BY <1>4
<1> QED  BY <1>5 DEF K

LEMMA AscentFold ==
    ASSUME NEW t, NEW x, Len(t) \in Nat
    PROVE  \E f : /\ f[0] = PathStart(t, x)
                  /\ \A k \in 1 .. Len(t) : f[k] = UpPath(t, x, f[k - 1])
                  /\ OnPath(t, x) = f[Len(t)]
<1>1. PICK n \in Nat : n = Len(t)
  OBVIOUS
<1>2. PICK d : d = PathStart(t, x)
  OBVIOUS
<1> DEFINE walk == CHOOSE f : IsAscent(t, x, d, n, f)
<1>3. OnPath(t, x) = walk[n]
  BY <1>1, <1>2 DEF OnPath, UpPath, PathStart, FoldAlong, IsAscent
<1>4. \E f : IsAscent(t, x, d, n, f)
  BY <1>1, AscentExists
<1>5. IsAscent(t, x, d, n, walk)
  BY <1>4
<1> HIDE DEF walk
<1>6. PICK f : f = walk
  OBVIOUS
<1>7. f[0] = d /\ \A k \in 1 .. n : f[k] = UpPath(t, x, f[k - 1])
  BY <1>5, <1>6 DEF IsAscent
<1> QED  BY <1>1, <1>2, <1>3, <1>6, <1>7

LEMMA OnPathIs ==
    ASSUME NEW t, IsHierarchy(t), NEW x, IsNavi(t, x), IsPlaced(x)
    PROVE  OnPath(t, x) \in 1 .. Len(t)
<1>1. PICK n \in Nat : n = Len(t)
  BY DEF IsHierarchy, IsNodes, IsList
<1>2. PICK f : /\ f[0] = PathStart(t, x)
               /\ \A k \in 1 .. Len(t) : f[k] = UpPath(t, x, f[k - 1])
               /\ OnPath(t, x) = f[Len(t)]
  BY <1>1, AscentFold
<1> DEFINE K == {j \in Nat : j <= n => f[j] \in 1 .. n}
<1>3. 0 \in K
  <2>1. x.PathX \in 1 .. n
    BY <1>1 DEF IsNavi, NaviNodes, IsPlaced, NULL
  <2>2. t[x.PathX].Child # NULL => t[x.PathX].Child \in 1 .. n
    <3>1. PICK c : c = Children(t, x.PathX)
      OBVIOUS
    <3>2. Ring(t, x.PathX, c) /\ Len(c) \in Nat
      BY <1>1, <2>1, <3>1, HierarchyChildren, ChildrenAreList
    <3> QED  BY <1>1, <3>2 DEF Ring
  <2> QED  BY <1>2, <2>1, <2>2 DEF PathStart
<1>4. ASSUME NEW j \in Nat, j \in K
      PROVE  j + 1 \in K
  <2> SUFFICES ASSUME j + 1 <= n
               PROVE  f[j + 1] \in 1 .. n
    OBVIOUS
  <2>1. j + 1 \in 1 .. n /\ j + 1 - 1 = j /\ f[j] \in 1 .. n
    BY <1>4
  <2>2. f[j + 1] = UpPath(t, x, f[j])
    BY <1>1, <1>2, <2>1
  <2>3. t[f[j]].Parent # NULL => t[f[j]].Parent \in 1 .. n
    BY <1>1, <2>1, ParentIs
  <2> QED  BY <2>1, <2>2, <2>3 DEF UpPath
<1>5. K \in SUBSET Nat
  OBVIOUS
<1> HIDE DEF K
<1>6. n \in K
  BY <1>3, <1>4, <1>5, AllNumbers
<1> QED  BY <1>1, <1>2, <1>6 DEF K

\* The new child of path, and the navigation that goes there.
Put(s, path, y, type, text, ref) ==
    LET t == AddChild(s.node, path)
    IN  [s EXCEPT !.node = [Set(t, Len(t), type, text) EXCEPT ![Len(t)].ref = ref],
                  !.X = [y EXCEPT !.PathX = path, !.PosX = Len(t)]]

PutForms(r, s, path, y, type, text, ref) ==
    /\ path = s.X.PosX \/ (s.node[s.X.PosX].Parent # NULL /\ path = s.node[s.X.PosX].Parent)
    /\ y = With(s.X, {"isOption"}) \/ y = Without(s.X, {"isOption"})
    /\ r = Put(s, path, y, type, text, ref)

LEMMA PutCases ==
    ASSUME NEW s, NEW item, NEW type, NEW local
    PROVE  \E path, y, type2, text, ref :
             PutForms(PutChildOnPath(s, item, type, local), s, path, y, type2, text, ref)
<1> DEFINE x == s.X
           isNext == /\ "isPath" \notin x.flags /\ s.node[x.PosX].Parent # NULL
                     /\ ~x.isSynchronousWriting /\ "isStartOfCollection" \notin x.flags
           isOption == type = "OPTION" \/ ("isOption" \in x.flags /\ "isStartOfCollection" \notin x.flags)
           path == IF isNext THEN s.node[x.PosX].Parent ELSE x.PosX
           y == IF isOption THEN With(x, {"isOption"}) ELSE Without(x, {"isOption"})
           type2 == IF isOption THEN "OPTION" ELSE type
           text == IF type2 = "Local" THEN <<>> ELSE item
           ref == IF type2 = "Local" THEN local ELSE NULL
<1>1. PutChildOnPath(s, item, type, local) = Put(s, path, y, type2, text, ref)
  BY DEF PutChildOnPath, Put
<1>2. path = s.X.PosX \/ (s.node[s.X.PosX].Parent # NULL /\ path = s.node[s.X.PosX].Parent)
  OBVIOUS
<1>3. y = With(s.X, {"isOption"}) \/ y = Without(s.X, {"isOption"})
  OBVIOUS
<1> HIDE DEF path, y, type2, text, ref
<1> QED  BY <1>1, <1>2, <1>3 DEF PutForms

LEMMA PutIs ==
    ASSUME NEW s, StatePlaced(s), NEW path \in 1 .. Len(s.node), NEW y, IsNavi(s.node, y), NEW type, NEW text, NEW ref
    PROVE  StatePlaced(Put(s, path, y, type, text, ref))
<1>1. PICK t, n : t = AddChild(s.node, path) /\ n = Len(t)
  OBVIOUS
<1>2. PICK u : u = Set(t, n, type, text)
  OBVIOUS
<1>3. PICK v : v = [u EXCEPT ![n].ref = ref]
  OBVIOUS
<1>4. PICK x : x = [y EXCEPT !.PathX = path, !.PosX = n]
  OBVIOUS
<1>5. PICK r : r = Put(s, path, y, type, text, ref)
  OBVIOUS
<1>6. r = [s EXCEPT !.node = v, !.X = x]
  BY <1>1, <1>2, <1>3, <1>4, <1>5 DEF Put
<1>7. DOMAIN s = ItemState /\ IsHierarchy(s.node)
  BY DEF StatePlaced, StateShape
<1>8. OneMore(t, s.node, path)
  BY <1>1, <1>7, AddChildOneMore
<1>9. IsHierarchy(t) /\ Grown(t, s.node) /\ n \in 1 .. Len(t)
  <2>1. IsHierarchy(t)
    BY <1>8 DEF OneMore
  <2>2. n \in Nat /\ n # 0
    BY <1>1, <2>1 DEF IsHierarchy, IsNodes, IsList
  <2>3. Grown(t, s.node)
    BY <1>7, <1>8, GrownOneMore
  <2> QED  BY <1>1, <2>1, <2>2, <2>3
<1>10. Grown(u, t) /\ Len(u) = n /\ IsHierarchy(u)
  BY <1>1, <1>2, <1>9, SetGrown DEF Grown
<1>11. Grown(v, u) /\ Len(v) = n
  <2>1. PICK q : q = [u[n] EXCEPT !.ref = ref]
    OBVIOUS
  <2>2. DOMAIN u[n] = NodeFields /\ n \in 1 .. Len(u)
    BY <1>1, <1>9, <1>10 DEF IsHierarchy, IsNodes
  <2>3. SameLinkFields(q, u[n])
    BY <2>1, <2>2 DEF SameLinkFields, NodeFields
  <2>4. v = [u EXCEPT ![n] = q]
    BY <1>3, <2>1
  <2>5. SameHierarchy(v, u)
    BY <1>10, <2>2, <2>3, <2>4, SetLinks, LinksHierarchy
  <2> QED  BY <1>10, <2>5, GrownSame DEF SameHierarchy
<1>12. Grown(v, s.node)
  <2>1. Grown(u, s.node)
    BY <1>7, <1>9, <1>10, GrownTwice
  <2> QED  BY <1>7, <1>11, <2>1, GrownTwice
<1>13. IsNavi(v, y)
  BY <1>7, <1>12, NaviGrown
<1>14. path \in 1 .. n /\ n \in 1 .. n
  BY <1>1, <1>7, <1>8 DEF OneMore, IsHierarchy, IsNodes, IsList
<1>15. IsNavi(v, x) /\ IsPlaced(x)
  <2>1. /\ DOMAIN x = NaviFields /\ x.Root = y.Root /\ x.PosX = n /\ x.PathX = path
        /\ x.FirstParentPos = y.FirstParentPos /\ x.ParentPos = y.ParentPos /\ x.Levels = y.Levels
        /\ x.BufferLength = y.BufferLength /\ x.BufferPos = y.BufferPos
    BY <1>4, <1>13 DEF IsNavi, NaviFields
  <2>2. x.PathX # NULL /\ x.PosX # NULL /\ x.PosX \in 0 .. n /\ x.PathX \in 0 .. n
    BY <1>14, <2>1 DEF NULL
  <2>3. NaviNodes(v, x)
    BY <1>11, <1>13, <2>1, <2>2 DEF IsNavi, NaviNodes
  <2>4. NaviNumbers(x)
    BY <1>13, <2>1 DEF IsNavi, NaviNumbers
  <2> QED  BY <2>1, <2>2, <2>3, <2>4 DEF IsNavi, IsPlaced
<1>16. DOMAIN r = ItemState /\ r.X = x /\ r.node = v
  BY <1>6, <1>7 DEF ItemState
<1>17. IsHierarchy(v)
  BY <1>12 DEF Grown
<1> QED  BY <1>5, <1>15, <1>16, <1>17 DEF StatePlaced, StateShape

LEMMA PutChildIs ==
    ASSUME NEW s, StatePlaced(s), NEW item, NEW type, NEW local
    PROVE  StatePlaced(PutChildOnPath(s, item, type, local))
<1>1. PICK path, y, type2, text, ref : PutForms(PutChildOnPath(s, item, type, local), s, path, y, type2, text, ref)
  BY PutCases
<1>2. IsHierarchy(s.node) /\ IsNavi(s.node, s.X) /\ s.X.PosX \in 1 .. Len(s.node)
  BY DEF StatePlaced, StateShape, IsNavi, NaviNodes, IsPlaced, NULL
<1>3. path \in 1 .. Len(s.node)
  BY <1>1, <1>2, ParentIs DEF PutForms
<1>4. IsNavi(s.node, y)
  BY <1>1, <1>2, NaviWithout DEF PutForms
<1> QED  BY <1>1, <1>3, <1>4, PutIs DEF PutForms

-----------------------------------------------------------------------------
(* An item is stored *)

LEMMA PlacedNavi ==
    ASSUME NEW s, StatePlaced(s), NEW x, IsNavi(s.node, x), IsPlaced(x)
    PROVE  StatePlaced([s EXCEPT !.X = x])
<1>1. PICK r : r = [s EXCEPT !.X = x]
  OBVIOUS
<1>2. StateShape(r) /\ r.X = x
  BY <1>1, StateNavi DEF StatePlaced
<1> QED  BY <1>1, <1>2 DEF StatePlaced

LEMMA MovedNavi ==
    ASSUME NEW t, NEW x, IsNavi(t, x), IsPlaced(x), NEW n \in 1 .. Len(t)
    PROVE  /\ IsNavi(t, [x EXCEPT !.PosX = n]) /\ IsPlaced([x EXCEPT !.PosX = n])
           /\ IsNavi(t, [x EXCEPT !.PathX = n]) /\ IsPlaced([x EXCEPT !.PathX = n])
<1>1. n # NULL /\ n \in 0 .. Len(t)
  BY DEF NULL
<1>2. PICK y, z : y = [x EXCEPT !.PosX = n] /\ z = [x EXCEPT !.PathX = n]
  OBVIOUS
<1>3. /\ DOMAIN y = NaviFields /\ y.Root = x.Root /\ y.PosX = n /\ y.PathX = x.PathX
      /\ y.isSynchronousWriting = x.isSynchronousWriting
      /\ y.FirstParentPos = x.FirstParentPos /\ y.ParentPos = x.ParentPos /\ y.Levels = x.Levels
      /\ y.BufferLength = x.BufferLength /\ y.BufferPos = x.BufferPos
  BY <1>2 DEF IsNavi, NaviFields
<1>4. /\ DOMAIN z = NaviFields /\ z.Root = x.Root /\ z.PosX = x.PosX /\ z.PathX = n
      /\ z.isSynchronousWriting = x.isSynchronousWriting
      /\ z.FirstParentPos = x.FirstParentPos /\ z.ParentPos = x.ParentPos /\ z.Levels = x.Levels
      /\ z.BufferLength = x.BufferLength /\ z.BufferPos = x.BufferPos
  BY <1>2 DEF IsNavi, NaviFields
<1>5. NaviNodes(t, y) /\ IsPlaced(y) /\ NaviNodes(t, z) /\ IsPlaced(z)
  BY <1>1, <1>3, <1>4 DEF IsNavi, NaviNodes, IsPlaced
<1>6. NaviNumbers(y) /\ NaviNumbers(z)
  BY <1>3, <1>4 DEF IsNavi, NaviNumbers
<1> QED  BY <1>2, <1>3, <1>4, <1>5, <1>6 DEF IsNavi

LEMMA EndPathIs ==
    ASSUME NEW s, StatePlaced(s)
    PROVE  StatePlaced(EndPath(s))
<1>1. IsNavi(s.node, s.X) /\ IsPlaced(s.X)
  BY DEF StatePlaced, StateShape
<1>2. PICK y, z : y = Without(s.X, {"isPath"}) /\ z = [s.X EXCEPT !.PathX = s.X.PosX]
  OBVIOUS
<1>3. IsNavi(s.node, y) /\ IsPlaced(y)
  BY <1>1, <1>2, NaviWithout
<1>4. IsNavi(s.node, z) /\ IsPlaced(z)
  <2>1. s.X.PosX \in 1 .. Len(s.node)
    BY <1>1 DEF IsNavi, NaviNodes, IsPlaced, NULL
  <2> QED  BY <1>1, <1>2, <2>1, MovedNavi
<1>5. StatePlaced([s EXCEPT !.X = y]) /\ StatePlaced([s EXCEPT !.X = z])
  BY <1>3, <1>4, PlacedNavi
<1>6. EndPath(s) = [s EXCEPT !.X = y] \/ EndPath(s) = [s EXCEPT !.X = z] \/ EndPath(s) = s
  BY <1>2 DEF EndPath
<1> QED  BY <1>5, <1>6

\* What StoreChecked() makes of a state that goes on.
StoreForms(r, s, i, item, local) ==
    \/ s.X.isSynchronousWriting /\ r = RunSynchronousWriting(s, item, i.type)
    \/ r = [s EXCEPT !.X = [s.X EXCEPT !.PosX = OnPath(s.node, s.X)]]
    \/ \E ended : r = EndPath(PutChildOnPath([s EXCEPT !.X = Without(s.X, ended)], item, i.type, local))

LEMMA StoreCases ==
    ASSUME NEW s, NEW i, NEW item, NEW local
    PROVE  IF s.ok THEN StoreForms(StoreChecked(s, i, item, local), s, i, item, local)
           ELSE StoreChecked(s, i, item, local) = s
<1> DEFINE ended == IF i.item = <<>> /\ "isStartOfCollection" \in s.X.flags THEN {"isRepeatedPath"} ELSE {}
           a == RunSynchronousWriting(s, item, i.type)
           b == [s EXCEPT !.X.PosX = OnPath(s.node, s.X)]
           c == EndPath(PutChildOnPath([s EXCEPT !.X = Without(@, ended)], item, i.type, local))
<1>1. StoreChecked(s, i, item, local) =
        CASE ~s.ok -> s
          [] s.ok /\ s.X.isSynchronousWriting -> a
          [] s.ok /\ ~s.X.isSynchronousWriting
             /\ i.item = <<>> /\ ~("isStartOfCollection" \in s.X.flags) /\ "isRepeatedPath" \in s.X.flags -> b
          [] OTHER -> c
  BY DEF StoreChecked
<1>2. c = EndPath(PutChildOnPath([s EXCEPT !.X = Without(s.X, ended)], item, i.type, local))
  OBVIOUS
<1>3. b = [s EXCEPT !.X = [s.X EXCEPT !.PosX = OnPath(s.node, s.X)]]
  OBVIOUS
<1> HIDE DEF a, b, c, ended
<1>4. CASE ~s.ok
  BY <1>1, <1>4
<1>5. CASE s.ok
  <2>1. \/ s.X.isSynchronousWriting /\ StoreChecked(s, i, item, local) = a
        \/ StoreChecked(s, i, item, local) = b
        \/ StoreChecked(s, i, item, local) = c
    BY <1>1, <1>5
  <2> QED  BY <1>2, <1>3, <1>5, <2>1 DEF StoreForms, a
<1> QED  BY <1>4, <1>5

LEMMA StoreCheckedIs ==
    ASSUME NEW s, StateShape(s), s.ok => StatePlaced(s), NEW i, NEW item, Len(item) \in Nat, NEW local
    PROVE  IsState(StoreChecked(s, i, item, local))
<1>1. PICK r : r = StoreChecked(s, i, item, local)
  OBVIOUS
<1>2. CASE ~s.ok
  <2>1. r = s
    BY <1>1, <1>2, StoreCases
  <2> QED  BY <1>1, <1>2, <2>1 DEF IsState
<1>3. CASE s.ok
  <2>1. StoreForms(r, s, i, item, local) /\ StatePlaced(s)
    BY <1>1, <1>3, StoreCases
  <2>2. IsHierarchy(s.node) /\ IsNavi(s.node, s.X) /\ IsPlaced(s.X)
    BY <2>1 DEF StatePlaced, StateShape
  <2>3. CASE r = RunSynchronousWriting(s, item, i.type)
    BY <1>1, <2>1, <2>3, RunIs, PlacedIsState
  <2>4. CASE r = [s EXCEPT !.X = [s.X EXCEPT !.PosX = OnPath(s.node, s.X)]]
    <3>1. PICK n, y : n = OnPath(s.node, s.X) /\ y = [s.X EXCEPT !.PosX = n]
      OBVIOUS
    <3>2. n \in 1 .. Len(s.node)
      BY <2>2, <3>1, OnPathIs
    <3>3. IsNavi(s.node, y) /\ IsPlaced(y)
      BY <2>2, <3>1, <3>2, MovedNavi
    <3>4. StatePlaced([s EXCEPT !.X = y])
      BY <2>1, <3>3, PlacedNavi
    <3> QED  BY <1>1, <2>4, <3>1, <3>4, PlacedIsState
  <2>5. ASSUME NEW ended, r = EndPath(PutChildOnPath([s EXCEPT !.X = Without(s.X, ended)], item, i.type, local))
        PROVE  IsState(r)
    <3>1. PICK y : y = Without(s.X, ended)
      OBVIOUS
    <3>2. IsNavi(s.node, y) /\ IsPlaced(y)
      BY <2>2, <3>1, NaviWithout
    <3>3. PICK q : q = [s EXCEPT !.X = y]
      OBVIOUS
    <3>4. StatePlaced(q)
      BY <2>1, <3>2, <3>3, PlacedNavi
    <3>5. PICK u : u = PutChildOnPath(q, item, i.type, local)
      OBVIOUS
    <3>6. StatePlaced(u)
      BY <3>4, <3>5, PutChildIs
    <3>7. r = EndPath(u)
      BY <2>5, <3>1, <3>3, <3>5
    <3> QED  BY <3>6, <3>7, EndPathIs, PlacedIsState
  <2> QED  BY <1>1, <2>1, <2>3, <2>4, <2>5 DEF StoreForms
<1> QED  BY <1>2, <1>3

LEMMA StoreItemIs ==
    ASSUME NEW s, IsState(s), NEW i, NEW item, Len(item) \in Nat, NEW local
    PROVE  IsState(StoreItem(s, i, item, local))
<1>1. CASE s.X.flags \cap {"isFirstItem", "isRestore"} # {}
  <2>1. PICK r : r = CheckSynchronousWriting(s, i.type)
    OBVIOUS
  <2>2. StateShape(r) /\ (r.ok => StatePlaced(r))
    BY <2>1, CheckIs DEF IsState
  <2>3. StoreItem(s, i, item, local) = StoreChecked(r, i, item, local)
    BY <1>1, <2>1 DEF StoreItem
  <2> QED  BY <2>2, <2>3, StoreCheckedIs
<1>2. CASE s.X.flags \cap {"isFirstItem", "isRestore"} = {}
  <2>1. StoreItem(s, i, item, local) = StoreChecked(s, i, item, local)
    BY <1>2 DEF StoreItem
  <2>2. "isFirstItem" \notin s.X.flags
    BY <1>2
  <2>3. StateShape(s) /\ (s.ok => StatePlaced(s))
    BY <2>2 DEF IsState, StatePlaced
  <2> QED  BY <2>1, <2>3, StoreCheckedIs
<1> QED  BY <1>1, <1>2

-----------------------------------------------------------------------------
(* createRoot() *)

LEMMA FindChildIs ==
    ASSUME NEW t, IsHierarchy(t), NEW p \in 1 .. Len(t), NEW content, NEW type,
           FindChild(t, p, content, type) # NULL
    PROVE  FindChild(t, p, content, type) \in 1 .. Len(t) /\ t[FindChild(t, p, content, type)].Parent = p
<1>1. PICK c, n : c = Children(t, p) /\ n = FindChild(t, p, content, type)
  OBVIOUS
<1>2. Ring(t, p, c)
  BY <1>1, HierarchyChildren
<1>3. PICK m \in Nat : m = Len(c) /\ DOMAIN c = 1 .. m
  BY <1>2 DEF Ring, IsList
<1>4. PICK same : same = {k \in 1 .. m : t[c[k]].TypeX = type /\ t[c[k]].text = content}
  OBVIOUS
<1>5. n = IF same = {} THEN NULL ELSE c[Min(same)]
  BY <1>1, <1>3, <1>4 DEF FindChild
<1>6. same # {}
  BY <1>1, <1>5
<1>7. Min(same) \in 1 .. m
  <2>1. same \in SUBSET Nat
    BY <1>4
  <2>2. \E i \in same : \A j \in same : i <= j
    BY <1>6, <2>1, FirstOfNumbers
  <2>3. Min(same) \in same
    BY <2>2 DEF Min
  <2> QED  BY <1>4, <2>3
<1>8. n = c[Min(same)]
  BY <1>5, <1>6
<1>9. \A k \in 1 .. m : c[k] \in 1 .. Len(t) /\ t[c[k]].Parent = p
  BY <1>2, <1>3 DEF Ring
<1> QED  BY <1>1, <1>7, <1>8, <1>9

\* A place below p, of a hierarchy that has grown.
Below(q, p) == IsPlace(q) /\ Grown(q.t, p.t) /\ q.t[q.at].Parent = p.at

LEMMA DescendIs ==
    ASSUME NEW p, IsPlace(p), NEW type, NEW content
    PROVE  Below(Descend(p, type, content), p)
<1>1. PICK u, a : u = p.t /\ a = p.at
  OBVIOUS
<1>2. IsHierarchy(u) /\ a \in 1 .. Len(u) /\ p = [t |-> u, at |-> a]
  BY <1>1 DEF IsPlace
<1>3. PICK found : found = FindChild(u, a, content, "TEXT")
  OBVIOUS
<1>4. CASE found # NULL
  <2>1. found \in 1 .. Len(u) /\ u[found].Parent = a
    BY <1>2, <1>3, <1>4, FindChildIs
  <2>2. PICK q : q = [t |-> u, at |-> found]
    OBVIOUS
  <2>3. Descend(p, type, content) = q
    BY <1>2, <1>3, <1>4, <2>2 DEF Descend
  <2>4. IsPlace(q) /\ q.t = u /\ q.at = found
    BY <1>2, <2>1, <2>2, PlaceIs
  <2>5. Grown(u, u)
    BY <1>2, SameAsItself
  <2> QED  BY <1>1, <2>1, <2>3, <2>4, <2>5 DEF Below
<1>5. CASE found = NULL
  <2>1. PICK t, n : t = AddChild(u, a) /\ n = Len(t)
    OBVIOUS
  <2>2. OneMore(t, u, a)
    BY <1>2, <2>1, AddChildOneMore
  <2>3. IsHierarchy(t) /\ t[n].Parent = a
    BY <2>1, <2>2 DEF OneMore
  <2>4. Grown(t, u)
    BY <1>2, <2>2, GrownOneMore
  <2>5. n \in 1 .. Len(t)
    BY <2>1, <2>3 DEF IsHierarchy, IsNodes, IsList
  <2>6. PICK v : v = Set(t, n, type, content)
    OBVIOUS
  <2>7. Grown(v, t) /\ Len(v) = n
    BY <2>1, <2>3, <2>5, <2>6, SetGrown
  <2>8. IsHierarchy(v) /\ Grown(v, u) /\ v[n].Parent = a
    BY <1>2, <2>3, <2>4, <2>5, <2>7, GrownTwice DEF Grown
  <2>9. PICK q : q = [t |-> v, at |-> n]
    OBVIOUS
  <2>10. Descend(p, type, content) = q
    BY <1>2, <1>3, <1>5, <2>1, <2>6, <2>9 DEF Descend
  <2>11. IsPlace(q) /\ q.t = v /\ q.at = n
    BY <2>1, <2>5, <2>7, <2>8, <2>9, PlaceIs
  <2> QED  BY <1>1, <2>8, <2>10, <2>11 DEF Below
<1> QED  BY <1>4, <1>5

\* A place with a parent.
Rooted(q, t) == IsPlace(q) /\ Grown(q.t, t) /\ q.t[q.at].Parent # NULL

LEMMA BelowOperatorIs ==
    ASSUME NEW t, IsHierarchy(t), NEW o \in 1 .. Len(t), NEW identifier
    PROVE  Rooted(BelowOperator(t, o, identifier), t)
<1>1. PICK u : u = IF t[o].text # <<>> THEN t
                   ELSE [t EXCEPT ![o].text = Operator(identifier), ![o].DataFormat = "FTLight"]
  OBVIOUS
<1>2. Grown(u, t) /\ IsHierarchy(u) /\ o \in 1 .. Len(u)
  <2>1. CASE t[o].text # <<>>
    BY <1>1, <2>1, SameAsItself
  <2>2. CASE t[o].text = <<>>
    <3>1. PICK x, q : x = Operator(identifier) /\ q = [[t[o] EXCEPT !.text = x] EXCEPT !.DataFormat = "FTLight"]
      OBVIOUS
    <3>2. DOMAIN t[o] = NodeFields /\ o \in DOMAIN t
      BY DEF IsHierarchy, IsNodes, IsList
    <3>3. SameLinkFields(q, t[o])
      BY <3>1, <3>2 DEF SameLinkFields, NodeFields
    <3>4. u = [t EXCEPT ![o] = q]
      BY <1>1, <2>2, <3>1, <3>2
    <3>5. SameHierarchy(u, t)
      BY <3>3, <3>4, SetLinks, LinksHierarchy
    <3> QED  BY <3>5, GrownSame DEF SameHierarchy
  <2> QED  BY <2>1, <2>2
<1>3. PICK p : p = [t |-> u, at |-> o]
  OBVIOUS
<1>4. IsPlace(p) /\ p.t = u
  BY <1>2, <1>3, PlaceIs
<1>5. PICK l : l = Location(identifier)
  OBVIOUS
<1>6. PICK q : q = Descend(p, "LOCATION", l)
  OBVIOUS
<1>7. Below(q, p)
  BY <1>4, <1>6, DescendIs
<1>8. PICK r : r = Descend(q, "IDENTIFIER", identifier)
  OBVIOUS
<1>9. Below(r, q)
  BY <1>7, <1>8, DescendIs DEF Below
<1>10. BelowOperator(t, o, identifier) = r
  BY <1>1, <1>3, <1>5, <1>6, <1>8 DEF BelowOperator
<1>11. Grown(q.t, t)
  BY <1>2, <1>4, <1>7, GrownTwice DEF Below
<1>12. Grown(r.t, t)
  BY <1>9, <1>11, GrownTwice DEF Below
<1>13. r.t[r.at].Parent # NULL
  BY <1>7, <1>9 DEF Below, IsPlace, NULL
<1> QED  BY <1>9, <1>10, <1>12, <1>13 DEF Rooted, Below

LEMMA RootAtIs ==
    ASSUME NEW s, IsState(s), NEW p, Rooted(p, s.node), NEW identifier
    PROVE  StatePlaced(RootAt(s, p, identifier))
<1>1. PICK u, a : u = p.t /\ a = p.at
  OBVIOUS
<1>2. IsHierarchy(u) /\ a \in 1 .. Len(u) /\ Grown(u, s.node) /\ u[a].Parent # NULL /\ a # NULL /\ a \in 0 .. Len(u)
  BY <1>1 DEF Rooted, IsPlace, NULL
<1>3. IsHierarchy(s.node) /\ DOMAIN s = ItemState /\ IsNavi(s.node, s.X)
  BY DEF IsState, StateShape
<1>4. IsNavi(u, s.X)
  BY <1>2, <1>3, NaviGrown
<1>5. PICK x, y : x = [s.X EXCEPT !.PathX = a, !.PosX = a] /\ y = [x EXCEPT !.Root = a]
  OBVIOUS
<1>6. /\ DOMAIN x = NaviFields /\ x.Root = s.X.Root /\ x.PosX = a /\ x.PathX = a
      /\ x.FirstParentPos = s.X.FirstParentPos /\ x.ParentPos = s.X.ParentPos /\ x.Levels = s.X.Levels
      /\ x.BufferLength = s.X.BufferLength /\ x.BufferPos = s.X.BufferPos
  BY <1>4, <1>5 DEF IsNavi, NaviFields
<1>7. /\ DOMAIN y = NaviFields /\ y.Root = a /\ y.PosX = a /\ y.PathX = a
      /\ y.FirstParentPos = s.X.FirstParentPos /\ y.ParentPos = s.X.ParentPos /\ y.Levels = s.X.Levels
      /\ y.BufferLength = s.X.BufferLength /\ y.BufferPos = s.X.BufferPos
  BY <1>5, <1>6 DEF NaviFields
<1>8. NaviNodes(u, x) /\ IsPlaced(x) /\ NaviNodes(u, y) /\ IsPlaced(y)
  BY <1>2, <1>4, <1>6, <1>7 DEF IsNavi, NaviNodes, IsPlaced
<1>9. NaviNumbers(x) /\ NaviNumbers(y)
  BY <1>4, <1>6, <1>7 DEF IsNavi, NaviNumbers
<1>10. PICK r : r = RootAt(s, p, identifier)
  OBVIOUS
<1>11. DOMAIN r = ItemState /\ r.node = u /\ (r.X = x \/ r.X = y)
  <2>1. PICK z : z = IF s.X.Root = NULL \/ u[s.X.Root].text = identifier THEN y ELSE x
    OBVIOUS
  <2>2. PICK b : b = (s.X.Root = NULL \/ u[s.X.Root].text = identifier)
    OBVIOUS
  <2>3. r = [s EXCEPT !.node = u, !.ok = b, !.X = z]
    BY <1>1, <1>5, <1>10, <2>1, <2>2 DEF RootAt
  <2> QED  BY <1>3, <2>1, <2>3 DEF ItemState
<1>12. IsNavi(u, r.X) /\ IsPlaced(r.X)
  BY <1>6, <1>7, <1>8, <1>9, <1>11 DEF IsNavi
<1> QED  BY <1>2, <1>10, <1>11, <1>12 DEF StatePlaced, StateShape

LEMMA CreateRootIs ==
    ASSUME NEW s, IsState(s), NEW identifier
    PROVE  StatePlaced(CreateRoot(s, identifier))
<1>1. PICK t : t = s.node
  OBVIOUS
<1>2. IsHierarchy(t) /\ 1 \in 1 .. Len(t)
  BY <1>1 DEF IsState, StateShape, IsHierarchy, IsNodes, IsList
<1>3. PICK u, n, v : u = AddChild(t, 1) /\ n = Len(u) /\ v = Set(u, n, "OPERATOR", <<>>)
  OBVIOUS
<1>4. OneMore(u, t, 1)
  BY <1>2, <1>3, AddChildOneMore
<1>5. IsHierarchy(u) /\ Grown(u, t)
  BY <1>2, <1>4, GrownOneMore DEF OneMore
<1>6. n \in 1 .. Len(u)
  BY <1>3, <1>5 DEF IsHierarchy, IsNodes, IsList
<1>7. Grown(v, u) /\ Len(v) = n
  BY <1>3, <1>5, <1>6, SetGrown
<1>8. Grown(v, t) /\ IsHierarchy(v) /\ n \in 1 .. Len(v)
  BY <1>2, <1>3, <1>5, <1>6, <1>7, GrownTwice DEF Grown
<1>9. PICK p, q : p = BelowOperator(v, n, identifier) /\ q = BelowOperator(t, 1, identifier)
  OBVIOUS
<1>10. Rooted(p, t)
  <2>1. Rooted(p, v)
    BY <1>8, <1>9, BelowOperatorIs
  <2> QED  BY <1>2, <1>8, <2>1, GrownTwice DEF Rooted
<1>11. Rooted(q, t)
  BY <1>2, <1>9, BelowOperatorIs
<1>12. CreateRoot(s, identifier) = RootAt(s, p, identifier) \/ CreateRoot(s, identifier) = RootAt(s, q, identifier)
  BY <1>1, <1>3, <1>9 DEF CreateRoot
<1> QED  BY <1>1, <1>10, <1>11, <1>12, RootAtIs

LEMMA AfterRootIs ==
    ASSUME NEW s, StatePlaced(s)
    PROVE  StatePlaced(AfterRoot(s))
<1>1. PICK x : x = Without(s.X, {"isRepeatedPath", "isFirstItem"})
  OBVIOUS
<1>2. IsNavi(s.node, x) /\ IsPlaced(x)
  BY <1>1, NaviWithout DEF StatePlaced, StateShape
<1>3. AfterRoot(s) = [s EXCEPT !.X = x] \/ AfterRoot(s) = s
  BY <1>1 DEF AfterRoot
<1> QED  BY <1>2, <1>3, PlacedNavi

-----------------------------------------------------------------------------
(* One turn of the loop of receiveLineX() *)

LEMMA StateFlags ==
    ASSUME NEW s, IsState(s), NEW x, SameNavi(x, s.X), "isFirstItem" \in s.X.flags => "isFirstItem" \in x.flags
    PROVE  IsState([s EXCEPT !.X = x])
<1>1. StateShape(s) /\ IsNavi(s.node, s.X)
  BY DEF IsState, StateShape
<1>2. IsNavi(s.node, x) /\ (IsPlaced(s.X) => IsPlaced(x))
  BY <1>1, SameNaviIs
<1>3. PICK r : r = [s EXCEPT !.X = x]
  OBVIOUS
<1>4. StateShape(r) /\ r.X = x /\ r.ok = s.ok
  BY <1>1, <1>2, <1>3, StateNavi
<1>5. r.ok => "isFirstItem" \in x.flags \/ IsPlaced(x)
  BY <1>2, <1>4 DEF IsState
<1> QED  BY <1>3, <1>4, <1>5 DEF IsState

ItemNavi(x, start) == With(Without(x, {"isStartOfCollection", "isSingle"}), start)

LEMMA ItemNaviIs ==
    ASSUME NEW t, NEW x, IsNavi(t, x), NEW start, NEW y, y = ItemNavi(x, start)
    PROVE  SameNavi(y, x) /\ ("isFirstItem" \in x.flags => "isFirstItem" \in y.flags)
<1>1. PICK z : z = Without(x, {"isStartOfCollection", "isSingle"})
  OBVIOUS
<1>2. SameNavi(z, x) /\ z.flags = x.flags \ {"isStartOfCollection", "isSingle"}
  <2>1. z.flags = x.flags \ {"isStartOfCollection", "isSingle"}
    BY <1>1 DEF Without, IsNavi, NaviFields
  <2> QED  BY <1>1, <2>1, FlagsOfNavi DEF IsNavi
<1>3. y = With(z, start)
  BY <1>1 DEF ItemNavi
<1>4. SameNavi(y, z) /\ y.flags = z.flags \cup start
  <2>1. DOMAIN z = NaviFields
    BY <1>2 DEF SameNavi
  <2>2. y.flags = z.flags \cup start
    BY <1>3, <2>1 DEF With, NaviFields
  <2> QED  BY <1>3, <2>1, <2>2, FlagsOfNavi
<1>5. SameNavi(y, x)
  BY <1>2, <1>4 DEF SameNavi
<1>6. "isFirstItem" \in x.flags => "isFirstItem" \in y.flags
  <2>1. "isFirstItem" \notin {"isStartOfCollection", "isSingle"}
    OBVIOUS
  <2> QED  BY <1>2, <1>4, <2>1
<1> QED  BY <1>5, <1>6

LEMMA StateTyped ==
    ASSUME NEW s, IsState(s)
    PROVE  IsState([s EXCEPT !.node[1].TypeX = "Local_BINX"])
<1>1. DOMAIN s = ItemState /\ IsHierarchy(s.node) /\ StateShape(s)
  BY DEF IsState, StateShape
<1>2. DOMAIN s.node[1] = NodeFields /\ 1 \in 1 .. Len(s.node) /\ 1 \in DOMAIN s.node
  BY <1>1 DEF IsHierarchy, IsNodes, IsList
<1>3. PICK q, u : q = [s.node[1] EXCEPT !.TypeX = "Local_BINX"] /\ u = [s.node EXCEPT ![1] = q]
  OBVIOUS
<1>4. SameLinkFields(q, s.node[1])
  BY <1>2, <1>3 DEF SameLinkFields, NodeFields
<1>5. Grown(u, s.node)
  <2>1. SameLinks([s.node EXCEPT ![1] = q], s.node)
    BY <1>1, <1>2, <1>4, SetLinks
  <2>2. SameHierarchy(u, s.node)
    BY <1>1, <1>3, <2>1, LinksHierarchy
  <2> QED  BY <1>1, <2>2, GrownSame
<1>6. PICK r : r = [s EXCEPT !.node = u]
  OBVIOUS
<1>7. StateShape(r) /\ r.X = s.X /\ r.ok = s.ok
  BY <1>1, <1>5, <1>6, StateNodes
<1>8. [s EXCEPT !.node[1].TypeX = "Local_BINX"] = r
  BY <1>3, <1>6
<1>9. r.ok => "isFirstItem" \in r.X.flags \/ IsPlaced(r.X)
  BY <1>7 DEF IsState
<1> QED  BY <1>7, <1>8, <1>9 DEF IsState

AtNavi(x, n, start) == With(Without([x EXCEPT !.PosX = n, !.PathX = n], {"isFirstItem"}), start)

\* What ReceiveItem() does to the state s whose flags have been prepared.
ReceiveForms(r, s, i, isStart) ==
    \/ \E identifier : r = AfterRoot(CreateRoot(s, identifier))
    \/ i.type = "Local_BINX" /\ \E start, p :
         /\ p = GetPosition(s.node, Start(s.node, s.X), AddressNumbers(i.item))
         /\ r = [s EXCEPT !.node = p.t, !.X = AtNavi(s.X, p.at, start)]
    \/ r = s
    \/ \E item, local, q :
         /\ item = i.item \/ item = DecodeTextX(i.item)
         /\ q = s \/ q = [s EXCEPT !.X = With(s.X, {"isRestore"})] \/ q = [s EXCEPT !.node[1].TypeX = "Local_BINX"]
         /\ r = StoreItem(q, i, item, local)

Prepared(s, start) == [s EXCEPT !.X = ItemNavi(s.X, start)]

LEMMA PreparedNavi ==
    ASSUME NEW s, StateShape(s), NEW start
    PROVE  Prepared(s, start).X = ItemNavi(s.X, start) /\ Prepared(s, start).node = s.node
           /\ Prepared(s, start).line = s.line
  BY DEF Prepared, StateShape, ItemState

LEMMA ReceiveCases ==
    ASSUME NEW s0, NEW i, NEW isStart \in BOOLEAN, NEW s,
           s = Prepared(s0, IF i.isStartOfCollection THEN {"isStartOfCollection"} ELSE {}),
           s.X = ItemNavi(s0.X, IF i.isStartOfCollection THEN {"isStartOfCollection"} ELSE {})
    PROVE  ReceiveForms(ReceiveItem(s0, i, isStart), s, i, isStart)
<1> DEFINE x == s.X
           isDecoded == i.type \in {"TEXT", "NUMBER"}
                        \/ (i.type \in {"TEXT_BINX", "NUMBER_BINX"} /\ "isFirstItem" \in x.flags /\ ~x.isSynchronousWriting)
           item == IF isDecoded THEN DecodeTextX(i.item) ELSE i.item
           p == GetPosition(s.node, Start(s.node, x), AddressNumbers(i.item))
           local == FindPosition(s.node, Start(s.node, x), AddressNumbers(i.item))
           a == AfterRoot(CreateRoot(s, item))
           single == IF isStart THEN {"isSingle"} ELSE {}
           b == [s EXCEPT !.node = p.t, !.X = AtNavi(s.X, p.at, single)]
           q == CASE i.type = "Local" /\ ~local.found -> [s EXCEPT !.node[1].TypeX = "Local_BINX"]
                  [] i.type = "FIXED_PARENTS" /\ "isSingle" \in s0.X.flags -> [s EXCEPT !.X = With(s.X, {"isRestore"})]
                  [] OTHER -> s
           ref == IF i.type = "Local" /\ local.found THEN local.at ELSE NULL
           d == StoreItem(q, i, item, ref)
<1>1. ReceiveItem(s0, i, isStart) =
        CASE i.type = "IDENTIFIER" /\ s.line = 1 /\ isStart -> a
          [] i.type = "Local_BINX" -> b
          [] i.type = "CHECKSUM" -> s
          [] OTHER -> d
  BY DEF ReceiveItem, Prepared, ItemNavi, AtNavi
<1>2. \E identifier : a = AfterRoot(CreateRoot(s, identifier))
  OBVIOUS
<1>3. \E start, p2 : /\ p2 = GetPosition(s.node, Start(s.node, s.X), AddressNumbers(i.item))
                     /\ b = [s EXCEPT !.node = p2.t, !.X = AtNavi(s.X, p2.at, start)]
  OBVIOUS
<1>4. item = i.item \/ item = DecodeTextX(i.item)
  OBVIOUS
<1>5. q = s \/ q = [s EXCEPT !.X = With(s.X, {"isRestore"})] \/ q = [s EXCEPT !.node[1].TypeX = "Local_BINX"]
  OBVIOUS
<1>6. \E item2, local2, q2 :
         /\ item2 = i.item \/ item2 = DecodeTextX(i.item)
         /\ q2 = s \/ q2 = [s EXCEPT !.X = With(s.X, {"isRestore"})] \/ q2 = [s EXCEPT !.node[1].TypeX = "Local_BINX"]
         /\ d = StoreItem(q2, i, item2, local2)
  <2> HIDE DEF item, q, ref
  <2> QED  BY <1>4, <1>5
<1> HIDE DEF a, b, d
<1>7. \/ ReceiveItem(s0, i, isStart) = a
      \/ i.type = "Local_BINX" /\ ReceiveItem(s0, i, isStart) = b
      \/ ReceiveItem(s0, i, isStart) = s
      \/ ReceiveItem(s0, i, isStart) = d
  BY <1>1
<1> HIDE DEF p, local, single, q, ref
<1>8. CASE ReceiveItem(s0, i, isStart) = a
  <2>1. \E identifier : ReceiveItem(s0, i, isStart) = AfterRoot(CreateRoot(s, identifier))
    BY <1>2, <1>8
  <2> QED  BY <2>1 DEF ReceiveForms
<1>9. CASE i.type = "Local_BINX" /\ ReceiveItem(s0, i, isStart) = b
  <2>1. \E start, p2 : /\ p2 = GetPosition(s.node, Start(s.node, s.X), AddressNumbers(i.item))
                       /\ ReceiveItem(s0, i, isStart) = [s EXCEPT !.node = p2.t, !.X = AtNavi(s.X, p2.at, start)]
    BY <1>3, <1>9
  <2> QED  BY <1>9, <2>1 DEF ReceiveForms
<1>10. CASE ReceiveItem(s0, i, isStart) = s
  BY <1>10 DEF ReceiveForms
<1>11. CASE ReceiveItem(s0, i, isStart) = d
  <2>1. \E item2, local2, q2 :
           /\ item2 = i.item \/ item2 = DecodeTextX(i.item)
           /\ q2 = s \/ q2 = [s EXCEPT !.X = With(s.X, {"isRestore"})] \/ q2 = [s EXCEPT !.node[1].TypeX = "Local_BINX"]
           /\ ReceiveItem(s0, i, isStart) = StoreItem(q2, i, item2, local2)
    BY <1>6, <1>11
  <2> QED  BY <2>1 DEF ReceiveForms
<1> QED  BY <1>7, <1>8, <1>9, <1>10, <1>11

LEMMA StartIs ==
    ASSUME NEW t, IsHierarchy(t), NEW x, IsNavi(t, x), x.Root # NULL
    PROVE  Start(t, x) \in 1 .. Len(t) /\ Start(t, x) = t[x.Root].Parent
<1>1. x.Root \in 1 .. Len(t) /\ t[x.Root].Parent # NULL
  BY DEF IsNavi, NaviNodes, NULL
<1>2. Start(t, x) = t[x.Root].Parent
  BY <1>1 DEF Start
<1> QED  BY <1>1, <1>2, ParentIs

LEMMA PositionsAreNumbers ==
    ASSUME NEW s, ArePositions(s)
    PROVE  AreNumbers(s)
  BY DEF ArePositions, AreNumbers

\* The node at an address, and the hierarchy that has it.
LEMMA AtAddressIs ==
    ASSUME NEW t, IsHierarchy(t), NEW x, IsNavi(t, x), x.Root # NULL, NEW text, Len(text) \in Nat,
           NEW p, p = GetPosition(t, Start(t, x), AddressNumbers(text))
    PROVE  IsPlace(p) /\ Grown(p.t, t)
<1>1. PICK start, s : start = Start(t, x) /\ s = AddressNumbers(text)
  OBVIOUS
<1>2. start \in 1 .. Len(t)
  BY <1>1, StartIs
<1>3. AreNumbers(s)
  BY <1>1, AddressIs, PositionsAreNumbers
<1> QED  BY <1>1, <1>2, <1>3, GetPositionIs

LEMMA AtNaviIs ==
    ASSUME NEW t, NEW x, IsNavi(t, x), NEW n \in 1 .. Len(t), NEW start
    PROVE  IsNavi(t, AtNavi(x, n, start)) /\ IsPlaced(AtNavi(x, n, start))
<1>1. n # NULL /\ n \in 0 .. Len(t)
  BY DEF NULL
<1>2. PICK y : y = [x EXCEPT !.PosX = n, !.PathX = n]
  OBVIOUS
<1>3. /\ DOMAIN y = NaviFields /\ y.Root = x.Root /\ y.PosX = n /\ y.PathX = n
      /\ y.isSynchronousWriting = x.isSynchronousWriting
      /\ y.FirstParentPos = x.FirstParentPos /\ y.ParentPos = x.ParentPos /\ y.Levels = x.Levels
      /\ y.BufferLength = x.BufferLength /\ y.BufferPos = x.BufferPos
  BY <1>2 DEF IsNavi, NaviFields
<1>4. NaviNodes(t, y) /\ IsPlaced(y)
  BY <1>1, <1>3 DEF IsNavi, NaviNodes, IsPlaced
<1>5. NaviNumbers(y)
  BY <1>3 DEF IsNavi, NaviNumbers
<1>6. IsNavi(t, y)
  BY <1>3, <1>4, <1>5 DEF IsNavi
<1>7. PICK z : z = Without(y, {"isFirstItem"})
  OBVIOUS
<1>8. IsNavi(t, z) /\ IsPlaced(z)
  BY <1>4, <1>6, <1>7, NaviWithout
<1>9. AtNavi(x, n, start) = With(z, start)
  BY <1>2, <1>7 DEF AtNavi
<1> QED  BY <1>8, <1>9, NaviWithout

LEMMA RestoredIs ==
    ASSUME NEW s, IsState(s)
    PROVE  IsState([s EXCEPT !.X = With(s.X, {"isRestore"})])
<1>1. PICK f : f = {"isRestore"}
  OBVIOUS
<1>2. PICK y : y = With(s.X, f)
  OBVIOUS
<1>3. DOMAIN s.X = NaviFields
  BY DEF IsState, StateShape, IsNavi
<1>4. SameNavi(y, s.X)
  BY <1>2, <1>3, FlagsOfNavi
<1>5. y.flags = s.X.flags \cup f
  BY <1>2, <1>3 DEF With, NaviFields
<1>6. "isFirstItem" \in s.X.flags => "isFirstItem" \in y.flags
  BY <1>5
<1>7. IsState([s EXCEPT !.X = y])
  BY <1>4, <1>6, StateFlags
<1> QED  BY <1>1, <1>2, <1>7

LEMMA ReceiveItemIs ==
    ASSUME NEW s0, IsState(s0), NEW i, Len(i.item) \in Nat, NEW isStart \in BOOLEAN,
           i.type = "Local_BINX" => s0.X.Root # NULL
    PROVE  IsState(ReceiveItem(s0, i, isStart))
<1>1. PICK start : start = IF i.isStartOfCollection THEN {"isStartOfCollection"} ELSE {}
  OBVIOUS
<1>2. PICK x : x = ItemNavi(s0.X, start)
  OBVIOUS
<1>3. PICK s : s = Prepared(s0, start)
  OBVIOUS
<1>4. StateShape(s0) /\ IsNavi(s0.node, s0.X)
  BY DEF IsState, StateShape
<1>5. s.X = x /\ s.node = s0.node
  BY <1>2, <1>3, <1>4, PreparedNavi
<1>6. SameNavi(x, s0.X) /\ ("isFirstItem" \in s0.X.flags => "isFirstItem" \in x.flags)
  BY <1>2, <1>4, ItemNaviIs
<1>7. IsState(s)
  <2>1. s = [s0 EXCEPT !.X = x]
    BY <1>2, <1>3 DEF Prepared
  <2>2. IsState([s0 EXCEPT !.X = x])
    BY <1>6, StateFlags
  <2> QED  BY <2>1, <2>2
<1>8. s.X.Root = s0.X.Root
  BY <1>5, <1>6 DEF SameNavi
<1>9. PICK r : r = ReceiveItem(s0, i, isStart)
  OBVIOUS
<1>10. ReceiveForms(r, s, i, isStart)
  <2>1. s = Prepared(s0, IF i.isStartOfCollection THEN {"isStartOfCollection"} ELSE {})
    BY <1>1, <1>3
  <2>2. s.X = ItemNavi(s0.X, IF i.isStartOfCollection THEN {"isStartOfCollection"} ELSE {})
    BY <1>1, <1>2, <1>5
  <2> QED  BY <1>9, <2>1, <2>2, ReceiveCases
<1>11. ASSUME NEW identifier, r = AfterRoot(CreateRoot(s, identifier))
       PROVE  IsState(r)
  <2>1. PICK q : q = CreateRoot(s, identifier)
    OBVIOUS
  <2>2. StatePlaced(q)
    BY <1>7, <2>1, CreateRootIs
  <2> QED  BY <1>11, <2>1, <2>2, AfterRootIs, PlacedIsState
<1>12. ASSUME NEW f, NEW p, i.type = "Local_BINX",
              p = GetPosition(s.node, Start(s.node, s.X), AddressNumbers(i.item)),
              r = [s EXCEPT !.node = p.t, !.X = AtNavi(s.X, p.at, f)]
       PROVE  IsState(r)
  <2>1. IsHierarchy(s.node) /\ IsNavi(s.node, s.X) /\ s.X.Root # NULL /\ DOMAIN s = ItemState
    BY <1>7, <1>8, <1>12 DEF IsState, StateShape
  <2>2. IsPlace(p) /\ Grown(p.t, s.node)
    BY <1>12, <2>1, AtAddressIs
  <2>3. IsNavi(p.t, s.X)
    BY <2>1, <2>2, NaviGrown
  <2>4. PICK y : y = AtNavi(s.X, p.at, f)
    OBVIOUS
  <2>5. IsNavi(p.t, y) /\ IsPlaced(y)
    BY <2>2, <2>3, <2>4, AtNaviIs DEF IsPlace
  <2>6. DOMAIN r = ItemState /\ r.node = p.t /\ r.X = y
    <3>1. r = [s EXCEPT !.node = p.t, !.X = y]
      BY <1>12, <2>4
    <3> QED  BY <2>1, <3>1 DEF ItemState
  <2>7. StatePlaced(r)
    BY <2>2, <2>5, <2>6 DEF StatePlaced, StateShape, Grown
  <2> QED  BY <2>7, PlacedIsState
<1>13. ASSUME NEW item, NEW local, NEW q,
              item = i.item \/ item = DecodeTextX(i.item),
              q = s \/ q = [s EXCEPT !.X = With(s.X, {"isRestore"})] \/ q = [s EXCEPT !.node[1].TypeX = "Local_BINX"],
              r = StoreItem(q, i, item, local)
       PROVE  IsState(r)
  <2>1. Len(item) \in Nat
    BY <1>13, DecodedIs DEF IsList
  <2>2. IsState([s EXCEPT !.X = With(s.X, {"isRestore"})]) /\ IsState([s EXCEPT !.node[1].TypeX = "Local_BINX"])
    BY <1>7, RestoredIs, StateTyped
  <2>3. IsState(q)
    BY <1>7, <1>13, <2>2
  <2> QED  BY <1>13, <2>1, <2>3, StoreItemIs
<1> QED  BY <1>7, <1>9, <1>10, <1>11, <1>12, <1>13 DEF ReceiveForms

-----------------------------------------------------------------------------
(* receiveLineX(): a line *)

LEMMA InitLineIs ==
    ASSUME NEW s, StateShape(s), NEW r, r = InitLine([s EXCEPT !.ok = TRUE])
    PROVE  IsState(r) /\ r.X.Root = s.X.Root
<1>1. DOMAIN s = ItemState /\ IsHierarchy(s.node) /\ IsNavi(s.node, s.X)
  BY DEF StateShape
<1>2. PICK q : q = [s EXCEPT !.ok = TRUE]
  OBVIOUS
<1>3. DOMAIN q = ItemState /\ q.node = s.node /\ q.X = s.X
  BY <1>1, <1>2 DEF ItemState
<1>4. PICK p : p = IF q.X.Root = NULL THEN NULL ELSE Start(q.node, q.X)
  OBVIOUS
<1>5. p \in 0 .. Len(s.node)
  BY <1>1, <1>3, <1>4, StartIs DEF NULL, IsHierarchy, IsNodes, IsList
<1>6. PICK g : g = (q.X.flags \cap {"isParentBinary"}) \cup {"isPath", "isFirstItem", "isRepeatedPath"}
  OBVIOUS
<1>7. PICK x : x = [[q.X EXCEPT !.PosX = p] EXCEPT !.flags = g]
  OBVIOUS
<1>8. /\ DOMAIN x = NaviFields /\ x.Root = q.X.Root /\ x.PosX = p /\ x.PathX = q.X.PathX
      /\ x.isSynchronousWriting = q.X.isSynchronousWriting /\ x.flags = g
      /\ x.FirstParentPos = q.X.FirstParentPos /\ x.ParentPos = q.X.ParentPos /\ x.Levels = q.X.Levels
      /\ x.BufferLength = q.X.BufferLength /\ x.BufferPos = q.X.BufferPos
  BY <1>1, <1>3, <1>7 DEF IsNavi, NaviFields
<1>9. IsNavi(s.node, x)
  <2>1. NaviNodes(s.node, x)
    BY <1>1, <1>3, <1>5, <1>8 DEF IsNavi, NaviNodes
  <2>2. NaviNumbers(x)
    BY <1>1, <1>3, <1>8 DEF IsNavi, NaviNumbers
  <2> QED  BY <1>8, <2>1, <2>2 DEF IsNavi
<1>10. r = [q EXCEPT !.X = x]
  BY <1>2, <1>4, <1>6, <1>7 DEF InitLine
<1>11. DOMAIN r = ItemState /\ r.node = s.node /\ r.X = x
  BY <1>3, <1>10 DEF ItemState
<1>12. "isFirstItem" \in r.X.flags
  BY <1>6, <1>8, <1>11
<1>13. StateShape(r)
  BY <1>1, <1>9, <1>11 DEF StateShape
<1> QED  BY <1>3, <1>8, <1>11, <1>12, <1>13 DEF IsState

OneItem(k, n) ==
    IF k.going THEN TakeItem(k, NextItemX(k.rest, n = 1, "isParentBinary" \in k.s.X.flags), n = 1) ELSE k

LineBegin(s, line) == [s |-> InitLine([s EXCEPT !.ok = TRUE]), rest |-> line, going |-> TRUE]

Turns(n) == [k \in 1 .. n |-> k]

\* The items of a line, one after the other.
IsLinewalk(d, s, n, f) ==
    f = [k \in 0 .. n |-> IF k = 0 THEN d ELSE OneItem(f[k - 1], s[k])]

LEMMA LinewalkExists ==
    ASSUME NEW d, NEW s, NEW n \in Nat
    PROVE  \E f : IsLinewalk(d, s, n, f)
<1> DEFINE K == {j \in Nat : \E f : IsLinewalk(d, s, j, f)}
<1>1. 0 \in K
  <2>1. PICK f : f = [k \in 0 .. 0 |-> d]
    OBVIOUS
  <2>2. IsLinewalk(d, s, 0, f)
    BY <2>1 DEF IsLinewalk
  <2> QED  BY <2>2
<1>2. ASSUME NEW j \in Nat, j \in K
      PROVE  j + 1 \in K
  <2>1. PICK f : IsLinewalk(d, s, j, f)
    BY <1>2
  <2>2. PICK next : next = OneItem(f[j], s[j + 1])
    OBVIOUS
  <2>3. PICK h : h = [k \in 0 .. j + 1 |-> IF k = j + 1 THEN next ELSE f[k]]
    OBVIOUS
  <2>4. ASSUME NEW k \in 0 .. j + 1
        PROVE  h[k] = IF k = 0 THEN d ELSE OneItem(h[k - 1], s[k])
    <3>1. CASE k = j + 1
      <4>1. h[k - 1] = f[j] /\ k # 0 /\ h[k] = next
        BY <2>3, <3>1
      <4> QED  BY <2>2, <3>1, <4>1
    <3>2. CASE k = 0
      BY <2>1, <2>3, <3>2 DEF IsLinewalk
    <3>3. CASE k # 0 /\ k # j + 1
      <4>1. k \in 0 .. j /\ h[k] = f[k] /\ h[k - 1] = f[k - 1]
        BY <2>3, <3>3
      <4> QED  BY <2>1, <3>3, <4>1 DEF IsLinewalk
    <3> QED  BY <3>1, <3>2, <3>3
  <2>5. IsLinewalk(d, s, j + 1, h)
    BY <2>3, <2>4 DEF IsLinewalk
  <2> QED  BY <2>5
<1>3. K \in SUBSET Nat
  OBVIOUS
<1> HIDE DEF K
<1>4. K = Nat
  BY <1>1, <1>2, <1>3, AllNumbers
<1>5. n \in K
  BY <1>4
<1> QED  BY <1>5 DEF K

LEMMA LinewalkFold ==
    ASSUME NEW s, NEW line, Len(line) \in Nat
    PROVE  \E f : /\ f[0] = LineBegin(s, line)
                  /\ \A k \in 1 .. Len(Turns(Len(line) + 1)) : f[k] = OneItem(f[k - 1], Turns(Len(line) + 1)[k])
                  /\ ReceiveLineX(s, line) = f[Len(Turns(Len(line) + 1))].s
<1>1. PICK n \in Nat : n = Len(Turns(Len(line) + 1))
  BY CountedTo DEF Turns
<1>2. PICK d : d = LineBegin(s, line)
  OBVIOUS
<1> DEFINE walk == CHOOSE f : IsLinewalk(d, Turns(Len(line) + 1), n, f)
<1>3. ReceiveLineX(s, line) = walk[n].s
  BY <1>1, <1>2 DEF ReceiveLineX, OneItem, LineBegin, Turns, FoldAlong, IsLinewalk
<1>4. \E f : IsLinewalk(d, Turns(Len(line) + 1), n, f)
  BY <1>1, LinewalkExists
<1>5. IsLinewalk(d, Turns(Len(line) + 1), n, walk)
  BY <1>4
<1> HIDE DEF walk
<1>6. PICK f : f = walk
  OBVIOUS
<1>7. f[0] = d /\ \A k \in 1 .. n : f[k] = OneItem(f[k - 1], Turns(Len(line) + 1)[k])
  BY <1>5, <1>6 DEF IsLinewalk
<1> QED  BY <1>1, <1>2, <1>3, <1>6, <1>7

\* What a line has become: a state and the rest of the line.
InLine(k) == DOMAIN k = {"s", "rest", "going"} /\ IsState(k.s) /\ IsList(k.rest)

LEMMA MembershipIs ==
    ASSUME NEW a, NEW S
    PROVE  \E b \in BOOLEAN : b = (a \in S)
<1>1. CASE a \in S
  <2>1. PICK b \in BOOLEAN : b = TRUE
    OBVIOUS
  <2> QED  BY <1>1, <2>1
<1>2. CASE a \notin S
  <2>1. PICK b \in BOOLEAN : b = FALSE
    OBVIOUS
  <2> QED  BY <1>2, <2>1
<1> QED  BY <1>1, <1>2

LEMMA OneItemIs ==
    ASSUME NEW k, InLine(k), NEW n \in Nat, n = 1 => (k.s.X.Root = NULL => k.rest[1] \notin Digit)
    PROVE  InLine(OneItem(k, n))
<1>1. CASE ~ k.going
  BY <1>1 DEF OneItem
<1>2. CASE k.going
  <2>1. PICK isStart \in BOOLEAN : isStart = (n = 1)
    OBVIOUS
  <2>2. PICK b \in BOOLEAN : b = ("isParentBinary" \in k.s.X.flags)
    BY MembershipIs
  <2>3. PICK i : i = NextItemX(k.rest, isStart, b)
    OBVIOUS
  <2>4. ItemOf(i, k.rest, isStart)
    BY <2>3, NextItemIs DEF InLine
  <2>5. PICK s : s = ReceiveItem(k.s, i, isStart)
    OBVIOUS
  <2>6. IsState(s)
    <3>1. Len(i.item) \in Nat
      BY <2>4 DEF ItemOf, IsList
    <3>2. i.type = "Local_BINX" => k.s.X.Root # NULL
      BY <2>1, <2>4 DEF ItemOf
    <3> QED  BY <2>5, <3>1, <3>2, ReceiveItemIs DEF InLine
  <2>7. OneItem(k, n) = Received(k, i, s)
    BY <1>2, <2>1, <2>2, <2>3, <2>5 DEF OneItem, TakeItem
  <2>8. PICK r : r = Received(k, i, s)
    OBVIOUS
  <2>9. CASE ~ i.ok
    <3>1. r = [k EXCEPT !.going = FALSE]
      BY <2>8, <2>9 DEF Received
    <3>2. DOMAIN r = {"s", "rest", "going"} /\ r.s = k.s /\ r.rest = k.rest
      BY <3>1 DEF InLine
    <3> QED  BY <2>7, <2>8, <3>2 DEF InLine
  <2>10. CASE i.ok
    <3>1. PICK g : g = (s.ok /\ i.rest # <<>>)
      OBVIOUS
    <3>2. r = [s |-> s, rest |-> i.rest, going |-> g]
      BY <2>8, <2>10, <3>1 DEF Received
    <3>3. DOMAIN r = {"s", "rest", "going"} /\ r.s = s /\ r.rest = i.rest
      BY <3>2
    <3>4. IsList(i.rest)
      BY <2>4 DEF ItemOf
    <3> QED  BY <2>6, <2>7, <2>8, <3>3, <3>4 DEF InLine
  <2> QED  BY <2>9, <2>10
<1> QED  BY <1>1, <1>2

LEMMA ReceiveLineIs ==
    ASSUME NEW s, StateShape(s), NEW line, IsList(line), s.X.Root = NULL => line[1] \notin Digit
    PROVE  StateShape(ReceiveLineX(s, line))
<1>1. PICK n \in Nat : n = Len(line) + 1
  BY DEF IsList
<1>2. PICK f : /\ f[0] = LineBegin(s, line)
               /\ \A k \in 1 .. Len(Turns(Len(line) + 1)) : f[k] = OneItem(f[k - 1], Turns(Len(line) + 1)[k])
               /\ ReceiveLineX(s, line) = f[Len(Turns(Len(line) + 1))].s
  BY LinewalkFold DEF IsList
<1>3. Len(Turns(n)) = n /\ \A k \in 1 .. n : Turns(n)[k] = k
  <2>1. Len(Turns(n)) = n
    BY CountedTo DEF Turns
  <2> QED  BY <2>1 DEF Turns
<1>4. f[0] = LineBegin(s, line) /\ (\A k \in 1 .. n : f[k] = OneItem(f[k - 1], k)) /\ ReceiveLineX(s, line) = f[n].s
  BY <1>1, <1>2, <1>3
<1>5. InLine(f[0]) /\ f[0].s.X.Root = s.X.Root /\ f[0].rest = line
  <2>1. PICK q : q = InitLine([s EXCEPT !.ok = TRUE])
    OBVIOUS
  <2>2. PICK g : g = TRUE
    OBVIOUS
  <2>3. f[0] = [s |-> q, rest |-> line, going |-> g]
    BY <1>4, <2>1, <2>2 DEF LineBegin
  <2>4. IsState(q) /\ q.X.Root = s.X.Root
    BY <2>1, InitLineIs
  <2> QED  BY <2>3, <2>4 DEF InLine
<1> DEFINE K == {j \in Nat : j <= n => InLine(f[j])}
<1>6. 0 \in K
  BY <1>5
<1>7. ASSUME NEW j \in Nat, j \in K
      PROVE  j + 1 \in K
  <2> SUFFICES ASSUME j + 1 <= n
               PROVE  InLine(f[j + 1])
    OBVIOUS
  <2>1. j + 1 \in 1 .. n /\ j + 1 - 1 = j /\ InLine(f[j])
    BY <1>7
  <2>2. f[j + 1] = OneItem(f[j], j + 1)
    BY <1>4, <2>1
  <2>3. j + 1 = 1 => (f[j].s.X.Root = NULL => f[j].rest[1] \notin Digit)
    BY <1>5
  <2> QED  BY <2>1, <2>2, <2>3, OneItemIs
<1>8. K \in SUBSET Nat
  OBVIOUS
<1> HIDE DEF K
<1>9. n \in K
  BY <1>6, <1>7, <1>8, AllNumbers
<1>10. InLine(f[n])
  BY <1>9 DEF K
<1> QED  BY <1>4, <1>10 DEF InLine, IsState

-----------------------------------------------------------------------------
(* processStringFTL(): the characters of a line *)

OneCharacter(k, c) ==
    IF c # "LF" THEN [k EXCEPT !.line = Append(k.line, c)]
    ELSE [line |-> <<>>, s |-> ReceiveLineX([k.s EXCEPT !.line = @ + 1], Append(k.line, c))]

Cleared(s) == [s EXCEPT !.X = Without(s.X, {"isParentBinary"})]

TextBegin(s) == [line |-> <<>>, s |-> Cleared(s)]

\* The characters of a text, one after the other.
IsTextwalk(d, s, n, f) ==
    f = [k \in 0 .. n |-> IF k = 0 THEN d ELSE OneCharacter(f[k - 1], s[k])]

LEMMA TextwalkExists ==
    ASSUME NEW d, NEW s, NEW n \in Nat
    PROVE  \E f : IsTextwalk(d, s, n, f)
<1> DEFINE K == {j \in Nat : \E f : IsTextwalk(d, s, j, f)}
<1>1. 0 \in K
  <2>1. PICK f : f = [k \in 0 .. 0 |-> d]
    OBVIOUS
  <2>2. IsTextwalk(d, s, 0, f)
    BY <2>1 DEF IsTextwalk
  <2> QED  BY <2>2
<1>2. ASSUME NEW j \in Nat, j \in K
      PROVE  j + 1 \in K
  <2>1. PICK f : IsTextwalk(d, s, j, f)
    BY <1>2
  <2>2. PICK next : next = OneCharacter(f[j], s[j + 1])
    OBVIOUS
  <2>3. PICK h : h = [k \in 0 .. j + 1 |-> IF k = j + 1 THEN next ELSE f[k]]
    OBVIOUS
  <2>4. ASSUME NEW k \in 0 .. j + 1
        PROVE  h[k] = IF k = 0 THEN d ELSE OneCharacter(h[k - 1], s[k])
    <3>1. CASE k = j + 1
      <4>1. h[k - 1] = f[j] /\ k # 0 /\ h[k] = next
        BY <2>3, <3>1
      <4> QED  BY <2>2, <3>1, <4>1
    <3>2. CASE k = 0
      BY <2>1, <2>3, <3>2 DEF IsTextwalk
    <3>3. CASE k # 0 /\ k # j + 1
      <4>1. k \in 0 .. j /\ h[k] = f[k] /\ h[k - 1] = f[k - 1]
        BY <2>3, <3>3
      <4> QED  BY <2>1, <3>3, <4>1 DEF IsTextwalk
    <3> QED  BY <3>1, <3>2, <3>3
  <2>5. IsTextwalk(d, s, j + 1, h)
    BY <2>3, <2>4 DEF IsTextwalk
  <2> QED  BY <2>5
<1>3. K \in SUBSET Nat
  OBVIOUS
<1> HIDE DEF K
<1>4. K = Nat
  BY <1>1, <1>2, <1>3, AllNumbers
<1>5. n \in K
  BY <1>4
<1> QED  BY <1>5 DEF K

LEMMA TextwalkFold ==
    ASSUME NEW s, NEW text, Len(text) \in Nat
    PROVE  \E f : /\ f[0] = TextBegin(s)
                  /\ \A k \in 1 .. Len(text) : f[k] = OneCharacter(f[k - 1], text[k])
                  /\ ProcessStringFTL(s, text) = f[Len(text)].s
<1>1. PICK n \in Nat : n = Len(text)
  OBVIOUS
<1>2. PICK d : d = TextBegin(s)
  OBVIOUS
<1> DEFINE walk == CHOOSE f : IsTextwalk(d, text, n, f)
<1>3. ProcessStringFTL(s, text) = walk[n].s
  BY <1>1, <1>2 DEF ProcessStringFTL, OneCharacter, TextBegin, Cleared, FoldAlong, IsTextwalk
<1>4. \E f : IsTextwalk(d, text, n, f)
  BY <1>1, TextwalkExists
<1>5. IsTextwalk(d, text, n, walk)
  BY <1>4
<1> HIDE DEF walk
<1>6. PICK f : f = walk
  OBVIOUS
<1>7. f[0] = d /\ \A k \in 1 .. n : f[k] = OneCharacter(f[k - 1], text[k])
  BY <1>5, <1>6 DEF IsTextwalk
<1> QED  BY <1>1, <1>2, <1>3, <1>6, <1>7

\* So much of a line has been read, and nothing done about it.
LineSoFar(k, text, j, s) ==
    /\ DOMAIN k = {"line", "s"} /\ k.s = Cleared(s)
    /\ IsList(k.line) /\ Len(k.line) = j /\ \A i \in 1 .. j : k.line[i] = text[i]

LEMMA LineGoesOn ==
    ASSUME NEW text, IsList(text), NEW s, NEW k, NEW j \in Nat, LineSoFar(k, text, j, s), j + 1 <= Len(text)
    PROVE  LET l == Append(k.line, text[j + 1])
           IN  IsList(l) /\ Len(l) = j + 1 /\ \A i \in 1 .. j + 1 : l[i] = text[i]
<1>1. PICK d, c : d = k.line /\ c = text[j + 1]
  OBVIOUS
<1>2. IsList(d) /\ Len(d) = j /\ \A i \in 1 .. j : d[i] = text[i]
  BY <1>1 DEF LineSoFar
<1>3. PICK l : l = Append(d, c)
  OBVIOUS
<1>4. Extended(Append(d, c), d, c)
  BY <1>2, ListAppend
<1>5. IsList(l) /\ Len(l) = j + 1 /\ l[j + 1] = c /\ \A i \in 1 .. j : l[i] = d[i]
  BY <1>2, <1>3, <1>4 DEF Extended
<1>6. \A i \in 1 .. j + 1 : l[i] = text[i]
  BY <1>1, <1>2, <1>5
<1> QED  BY <1>1, <1>3, <1>5, <1>6

LEMMA ClearedIs ==
    ASSUME NEW s, StateShape(s)
    PROVE  StateShape(Cleared(s)) /\ Cleared(s).X.Root = s.X.Root
<1>1. PICK f : f = {"isParentBinary"}
  OBVIOUS
<1>2. PICK y : y = Without(s.X, f)
  OBVIOUS
<1>3. IsNavi(s.node, s.X)
  BY DEF StateShape
<1>4. IsNavi(s.node, y)
  BY <1>2, <1>3, NaviWithout
<1>5. y.Root = s.X.Root
  BY <1>2, <1>3, FlagsOfNavi DEF SameNavi, IsNavi
<1>6. PICK r : r = [s EXCEPT !.X = y]
  OBVIOUS
<1>7. StateShape(r) /\ r.X = y
  BY <1>4, <1>6, StateNavi
<1>8. Cleared(s) = r
  BY <1>1, <1>2, <1>6 DEF Cleared
<1> QED  BY <1>5, <1>7, <1>8

LEMMA ProcessLineIs ==
    ASSUME NEW s, StateShape(s), NEW text, IsList(text),
           \A i \in DOMAIN text : text[i] = "LF" <=> i = Len(text),
           s.X.Root = NULL => text[1] \notin Digit
    PROVE  StateShape(ProcessStringFTL(s, text))
<1>1. PICK n \in Nat : n = Len(text)
  BY DEF IsList
<1>2. PICK f : /\ f[0] = TextBegin(s)
               /\ \A k \in 1 .. Len(text) : f[k] = OneCharacter(f[k - 1], text[k])
               /\ ProcessStringFTL(s, text) = f[Len(text)].s
  BY <1>1, TextwalkFold
<1>3. StateShape(Cleared(s)) /\ Cleared(s).X.Root = s.X.Root
  BY ClearedIs
<1>4. \A i \in 1 .. n : text[i] = "LF" <=> i = n
  BY <1>1 DEF IsList
<1> DEFINE K == {j \in Nat : j < n => LineSoFar(f[j], text, j, s)}
<1>5. LineSoFar(f[0], text, 0, s)
  <2>1. PICK e, c : e = <<>> /\ c = Cleared(s)
    OBVIOUS
  <2>2. IsList(e) /\ Len(e) = 0
    BY <2>1 DEF IsList
  <2>3. f[0] = [line |-> e, s |-> c]
    BY <1>2, <2>1 DEF TextBegin
  <2> QED  BY <2>1, <2>2, <2>3 DEF LineSoFar
<1>6. 0 \in K
  BY <1>5
<1>7. ASSUME NEW j \in Nat, j \in K
      PROVE  j + 1 \in K
  <2> SUFFICES ASSUME j + 1 < n
               PROVE  LineSoFar(f[j + 1], text, j + 1, s)
    OBVIOUS
  <2>1. j + 1 \in 1 .. n /\ j + 1 - 1 = j /\ LineSoFar(f[j], text, j, s) /\ j + 1 <= Len(text)
    BY <1>1, <1>7
  <2>2. f[j + 1] = OneCharacter(f[j], text[j + 1])
    BY <1>1, <1>2, <2>1
  <2>3. text[j + 1] # "LF"
    BY <1>4, <2>1
  <2>4. PICK l : l = Append(f[j].line, text[j + 1])
    OBVIOUS
  <2>5. IsList(l) /\ Len(l) = j + 1 /\ \A i \in 1 .. j + 1 : l[i] = text[i]
    BY <2>1, <2>4, LineGoesOn
  <2>6. f[j + 1] = [f[j] EXCEPT !.line = l]
    BY <2>2, <2>3, <2>4 DEF OneCharacter
  <2>7. DOMAIN f[j + 1] = {"line", "s"} /\ f[j + 1].line = l /\ f[j + 1].s = Cleared(s)
    BY <2>1, <2>6 DEF LineSoFar
  <2> QED  BY <2>5, <2>7 DEF LineSoFar
<1>8. K \in SUBSET Nat
  OBVIOUS
<1> HIDE DEF K
<1>9. K = Nat
  BY <1>6, <1>7, <1>8, AllNumbers
<1>10. CASE n = 0
  <2>1. ProcessStringFTL(s, text) = Cleared(s)
    BY <1>1, <1>2, <1>5, <1>10 DEF LineSoFar
  <2> QED  BY <1>3, <2>1
<1>11. CASE n # 0
  <2>1. PICK j \in Nat : j + 1 = n
    BY <1>11
  <2>2. j + 1 \in 1 .. n /\ j + 1 - 1 = j /\ LineSoFar(f[j], text, j, s) /\ j + 1 <= Len(text)
    BY <1>1, <1>9, <2>1 DEF K
  <2>3. f[n] = OneCharacter(f[j], text[j + 1]) /\ text[j + 1] = "LF"
    BY <1>1, <1>2, <1>4, <2>1, <2>2
  <2>4. PICK l : l = Append(f[j].line, text[j + 1])
    OBVIOUS
  <2>5. IsList(l) /\ Len(l) = n /\ \A i \in 1 .. n : l[i] = text[i]
    BY <2>1, <2>2, <2>4, LineGoesOn
  <2>6. l = text
    BY <1>1, <2>5, ListSame
  <2>7. PICK q : q = [Cleared(s) EXCEPT !.line = @ + 1]
    OBVIOUS
  <2>8. StateShape(q) /\ q.X.Root = s.X.Root
    <3>1. DOMAIN q = ItemState /\ q.node = Cleared(s).node /\ q.X = Cleared(s).X
      BY <1>3, <2>7 DEF StateShape, ItemState
    <3> QED  BY <1>3, <3>1 DEF StateShape
  <2>9. f[n].s = ReceiveLineX(q, text)
    <3>1. f[j].s = Cleared(s)
      BY <2>2 DEF LineSoFar
    <3>2. PICK k, c, e : k = f[j] /\ c = text[j + 1] /\ e = <<>>
      OBVIOUS
    <3>3. c = "LF" /\ f[n] = OneCharacter(k, c) /\ k.s = Cleared(s) /\ Append(k.line, c) = text
      BY <2>3, <2>4, <2>6, <3>1, <3>2
    <3>4. [k.s EXCEPT !.line = @ + 1] = q
      BY <2>7, <3>3
    <3>5. OneCharacter(k, c) = [line |-> e, s |-> ReceiveLineX(q, text)]
      BY <3>2, <3>3, <3>4 DEF OneCharacter
    <3> QED  BY <3>3, <3>5
  <2>10. StateShape(ReceiveLineX(q, text))
    BY <2>8, ReceiveLineIs
  <2> QED  BY <1>1, <1>2, <2>9, <2>10
<1> QED  BY <1>10, <1>11

-----------------------------------------------------------------------------
(* The calls *)

LEMMA FoundPlaceStep ==
    ASSUME NEW t, IsHierarchy(t), NEW p, NEW x \in Nat,
           (\E a \in 1 .. Len(t) : p = FoundAt(a) \/ p = LostAt(a))
    PROVE  \E a \in 1 .. Len(t) : FindStep(t, p, x) = FoundAt(a) \/ FindStep(t, p, x) = LostAt(a)
<1>1. PICK a \in 1 .. Len(t) : p = FoundAt(a) \/ p = LostAt(a)
  OBVIOUS
<1>2. CASE p = LostAt(a)
  BY <1>2, LostStays
<1>3. CASE p = FoundAt(a)
  <2>1. PICK c : c = Children(t, a)
    OBVIOUS
  <2>2. Ring(t, a, c)
    BY <2>1, HierarchyChildren
  <2>3. Len(c) \in Nat /\ \A i \in 1 .. Len(c) : c[i] \in 1 .. Len(t)
    BY <2>2 DEF Ring, IsList
  <2>4. CASE c # <<>> /\ x < Len(c)
    <3>1. FindStep(t, FoundAt(a), x) = FoundAt(c[x + 1])
      BY <2>1, <2>3, <2>4, FindFurther
    <3>2. c[x + 1] \in 1 .. Len(t)
      BY <2>3, <2>4
    <3> QED  BY <1>3, <3>1, <3>2
  <2>5. CASE c = <<>>
    <3>1. FindStep(t, p, x) = [p EXCEPT !.found = FALSE]
      BY <1>3, <2>1, <2>5 DEF FindStep, FoundAt
    <3>2. PICK b \in BOOLEAN, d \in BOOLEAN : b = TRUE /\ d = FALSE
      OBVIOUS
    <3>3. p = [at |-> a, found |-> b] /\ LostAt(a) = [at |-> a, found |-> d]
      BY <1>3, <3>2 DEF FoundAt, LostAt
    <3>4. [p EXCEPT !.found = d] = [at |-> a, found |-> d]
      BY <3>3, OtherPlace
    <3> QED  BY <3>1, <3>2, <3>3, <3>4
  <2>6. CASE c # <<>> /\ ~ x < Len(c)
    <3>1. p.found # FALSE /\ p.at = a
      BY <1>3 DEF FoundAt
    <3>2. FindStep(t, p, x) = LostAt(Last(c))
      BY <2>1, <2>6, <3>1 DEF FindStep, LostAt
    <3>3. Len(c) # 0
      BY <2>2, <2>6 DEF Ring, IsList
    <3>4. Last(c) \in 1 .. Len(t)
      BY <2>3, <3>3 DEF Last
    <3> QED  BY <3>2, <3>4
  <2> QED  BY <2>4, <2>5, <2>6
<1> QED  BY <1>1, <1>2, <1>3

\* findPosition(): wherever it ends, it is at a node.
LEMMA FindPositionIs ==
    ASSUME NEW t, IsHierarchy(t), NEW start \in 1 .. Len(t), NEW s, ArePositions(s)
    PROVE  FindPosition(t, start, s).at \in 1 .. Len(t)
<1>1. PICK n \in Nat : n = Len(s)
  BY DEF ArePositions, IsList
<1>2. PICK g : g[0] = FoundAt(start) /\ AreSearched(t, g, n, s) /\ FindPosition(t, start, s) = g[n]
  BY <1>1, SearchOf
<1> DEFINE K == {j \in Nat : j <= n => \E a \in 1 .. Len(t) : g[j] = FoundAt(a) \/ g[j] = LostAt(a)}
<1>3. 0 \in K
  BY <1>2
<1>4. ASSUME NEW j \in Nat, j \in K
      PROVE  j + 1 \in K
  <2> SUFFICES ASSUME j + 1 <= n
               PROVE  \E a \in 1 .. Len(t) : g[j + 1] = FoundAt(a) \/ g[j + 1] = LostAt(a)
    OBVIOUS
  <2>1. j + 1 \in 1 .. n /\ j + 1 - 1 = j /\ \E a \in 1 .. Len(t) : g[j] = FoundAt(a) \/ g[j] = LostAt(a)
    BY <1>4
  <2>2. g[j + 1] = FindStep(t, g[j], s[j + 1])
    BY <1>2, <2>1 DEF AreSearched
  <2>3. s[j + 1] \in Nat
    BY <1>1, <2>1 DEF ArePositions
  <2> QED  BY <2>1, <2>2, <2>3, FoundPlaceStep
<1>5. K \in SUBSET Nat
  OBVIOUS
<1> HIDE DEF K
<1>6. n \in K
  BY <1>3, <1>4, <1>5, AllNumbers
<1>7. PICK a \in 1 .. Len(t) : g[n] = FoundAt(a) \/ g[n] = LostAt(a)
  BY <1>6 DEF K
<1>8. g[n].at = a
  BY <1>7 DEF FoundAt, LostAt
<1> QED  BY <1>2, <1>8

\* A single node without children.
LEMMA SingleIs ==
    ASSUME NEW r, DOMAIN r = NodeFields, r.Parent = NULL, r.Child = NULL
    PROVE  IsHierarchy(<<r>>)
<1>1. PICK t : t = <<r>>
  OBVIOUS
<1>2. IsList(t) /\ Len(t) = 1 /\ t[1] = r
  BY <1>1 DEF IsList
<1>3. IsNodes(t)
  BY <1>2 DEF IsNodes
<1>4. PICK c : c = <<>>
  OBVIOUS
<1>5. IsList(c) /\ Len(c) = 0
  BY <1>4 DEF IsList
<1>6. \A n \in 1 .. Len(t) : t[n].Parent # 1
  BY <1>2 DEF NULL
<1>7. Ring(t, 1, c)
  BY <1>2, <1>5, <1>6 DEF Ring
<1>8. Children(t, 1) = c
  BY <1>2, <1>7, RingIsChildren
<1> QED  BY <1>1, <1>2, <1>3, <1>7, <1>8 DEF IsHierarchy

\* The rings of the hierarchy, and a navigation that refers to its nodes.
TreeInv == IsHierarchy(node) /\ IsNavi(node, X)

LEMMA NoNaviIs ==
    ASSUME NEW t, IsHierarchy(t)
    PROVE  IsNavi(t, NoNavi)
<1>1. PICK x : x = NoNavi
  OBVIOUS
<1>2. DOMAIN x = NaviFields
  BY <1>1 DEF NoNavi, NaviFields
<1>3. x.Root = NULL /\ x.PosX = NULL /\ x.PathX = NULL /\ ~ x.isSynchronousWriting
  BY <1>1 DEF NoNavi
<1>4. /\ x.FirstParentPos = 0 /\ x.ParentPos = 0 /\ x.Levels = 0 /\ x.BufferLength = 0 /\ x.BufferPos = 0
  BY <1>1 DEF NoNavi
<1>5. NULL \in 0 .. Len(t)
  BY DEF NULL, IsHierarchy, IsNodes, IsList
<1> QED  BY <1>1, <1>2, <1>3, <1>4, <1>5 DEF IsNavi, NaviNodes, NaviNumbers

LEMMA TreeInit ==
    ASSUME InitTree
    PROVE  TreeInv
<1>1. PICK r : r = NewNode(1)
  OBVIOUS
<1>2. DOMAIN r = NodeFields /\ r.Parent = NULL /\ r.Child = NULL
  BY <1>1 DEF NewNode, NodeFields
<1>3. node = <<r>> /\ X = NoNavi
  BY <1>1 DEF InitTree, Empty
<1>4. IsHierarchy(node)
  BY <1>2, <1>3, SingleIs
<1> QED  BY <1>3, <1>4, NoNaviIs DEF TreeInv

LEMMA TextIsList ==
    ASSUME NEW a \in Addresses \cup Lines
    PROVE  IsList(a) /\ Len(a) \in Nat
<1>1. a \in Seq(Char)
  BY TreeAssumption
<1> QED  BY <1>1, SequenceIsList DEF IsList

LEMMA ReceiveLinePreserves ==
    ASSUME TreeInv, NEW line \in Lines, ReceiveLine(line)
    PROVE  TreeInv'
<1>1. PICK b \in BOOLEAN : b = TRUE
  OBVIOUS
<1>2. PICK s : s = [node |-> node, X |-> X, line |-> LineNumber, ok |-> b]
  OBVIOUS
<1>3. StateShape(s) /\ s.X = X
  <2>1. DOMAIN s = ItemState /\ s.node = node /\ s.X = X
    BY <1>2 DEF ItemState
  <2> QED  BY <2>1 DEF StateShape, TreeInv
<1>4. PICK r : r = ProcessStringFTL(s, line)
  OBVIOUS
<1>5. node' = r.node /\ X' = r.X
  BY <1>1, <1>2, <1>4 DEF ReceiveLine
<1>6. \A i \in DOMAIN line : line[i] = "LF" <=> i = Len(line)
  BY TreeAssumption
<1>7. s.X.Root = NULL => line[1] \notin Digit
  BY <1>3 DEF ReceiveLine
<1>8. StateShape(r)
  BY <1>3, <1>4, <1>6, <1>7, TextIsList, ProcessLineIs
<1> QED  BY <1>5, <1>8 DEF TreeInv, StateShape

\* A call that moves to a node of a hierarchy that has grown.
LEMMA MovePreserves ==
    ASSUME TreeInv, NEW u, Grown(u, node), NEW n \in 1 .. Len(u), node' = u, X' = [X EXCEPT !.PosX = n]
    PROVE  TreeInv'
<1>1. IsHierarchy(node) /\ IsNavi(node, X) /\ IsHierarchy(u)
  BY DEF TreeInv, Grown
<1>2. IsNavi(u, X)
  BY <1>1, NaviGrown
<1>3. PICK y : y = [X EXCEPT !.PosX = n]
  OBVIOUS
<1>4. /\ DOMAIN y = NaviFields /\ y.Root = X.Root /\ y.PosX = n /\ y.PathX = X.PathX
      /\ y.isSynchronousWriting = X.isSynchronousWriting
      /\ y.FirstParentPos = X.FirstParentPos /\ y.ParentPos = X.ParentPos /\ y.Levels = X.Levels
      /\ y.BufferLength = X.BufferLength /\ y.BufferPos = X.BufferPos
  BY <1>2, <1>3 DEF IsNavi, NaviFields
<1>5. n \in 0 .. Len(u)
  OBVIOUS
<1>6. NaviNodes(u, y)
  BY <1>2, <1>4, <1>5 DEF IsNavi, NaviNodes
<1>7. NaviNumbers(y)
  BY <1>2, <1>4 DEF IsNavi, NaviNumbers
<1>8. IsNavi(u, y)
  BY <1>4, <1>6, <1>7 DEF IsNavi
<1> QED  BY <1>1, <1>3, <1>8 DEF TreeInv

LEMMA InsertPreserves ==
    ASSUME TreeInv, NEW a \in Addresses, NEW value, InsertValueX(a, value)
    PROVE  TreeInv'
<1>1. PICK p : p = GetPosition(node, Start(node, X), AddressNumbers(a))
  OBVIOUS
<1>2. X.Root # NULL /\ node' = p.t /\ X' = [X EXCEPT !.PosX = p.at]
  BY <1>1 DEF InsertValueX
<1>3. IsPlace(p) /\ Grown(p.t, node)
  BY <1>1, <1>2, TextIsList, AtAddressIs DEF TreeInv
<1>4. p.at \in 1 .. Len(p.t)
  BY <1>3 DEF IsPlace
<1> QED  BY <1>2, <1>3, <1>4, MovePreserves

\* A node is changed, but not its links.
LEMMA ChangePreserves ==
    ASSUME TreeInv, NEW n \in 1 .. Len(node), NEW r, SameLinkFields(r, node[n]),
           node' = [node EXCEPT ![n] = r] \/ node' = node, X' = [X EXCEPT !.PosX = n]
    PROVE  TreeInv'
<1>1. IsHierarchy(node)
  BY DEF TreeInv
<1>2. PICK u : u = [node EXCEPT ![n] = r]
  OBVIOUS
<1>3. SameHierarchy(u, node)
  BY <1>1, <1>2, SetLinks, LinksHierarchy
<1>4. Grown(u, node) /\ Grown(node, node) /\ Len(u) = Len(node)
  BY <1>1, <1>3, GrownSame, SameAsItself DEF SameHierarchy
<1>5. CASE node' = u
  BY <1>4, <1>5, MovePreserves
<1>6. CASE node' = node
  BY <1>4, <1>6, MovePreserves
<1> QED  BY <1>2, <1>5, <1>6

LEMMA StoredIs ==
    ASSUME NEW t, IsHierarchy(t), NEW n \in 1 .. Len(t), NEW value
    PROVE  \E r : SameLinkFields(r, t[n]) /\ Stored(t, n, value) = [t EXCEPT ![n] = r]
<1>1. DOMAIN t[n] = NodeFields /\ n \in DOMAIN t
  BY DEF IsHierarchy, IsNodes, IsList
<1>2. PICK r : r = [[t[n] EXCEPT !.text = value] EXCEPT !.DataFormat = "FTLight"]
  OBVIOUS
<1>3. SameLinkFields(r, t[n])
  BY <1>1, <1>2 DEF SameLinkFields, NodeFields
<1>4. Stored(t, n, value) = [t EXCEPT ![n] = r]
  BY <1>1, <1>2 DEF Stored
<1> QED  BY <1>3, <1>4

LEMMA FoundIs ==
    ASSUME TreeInv, X.Root # NULL, NEW s, ArePositions(s)
    PROVE  FindPosition(node, Start(node, X), s).at \in 1 .. Len(node)
<1>1. Start(node, X) \in 1 .. Len(node)
  BY StartIs DEF TreeInv
<1> QED  BY <1>1, FindPositionIs DEF TreeInv

LEMMA UnchangedLinks ==
    ASSUME TreeInv, NEW n \in 1 .. Len(node)
    PROVE  SameLinkFields(node[n], node[n])
<1>1. DOMAIN node[n] = NodeFields
  BY DEF TreeInv, IsHierarchy, IsNodes
<1> QED  BY <1>1 DEF SameLinkFields

LEMMA StorePreserves ==
    ASSUME TreeInv, NEW n \in 1 .. Len(node), NEW value,
           node' = Stored(node, n, value) \/ node' = node, X' = [X EXCEPT !.PosX = n]
    PROVE  TreeInv'
<1>1. PICK r : SameLinkFields(r, node[n]) /\ Stored(node, n, value) = [node EXCEPT ![n] = r]
  BY StoredIs DEF TreeInv
<1> QED  BY <1>1, ChangePreserves

LEMMA SetValuePreserves ==
    ASSUME TreeInv, NEW a \in Addresses, NEW value, SetValueX(a, value)
    PROVE  TreeInv'
<1>1. PICK n : n = Found(a).at
  OBVIOUS
<1>2. X' = [X EXCEPT !.PosX = n] /\ (node' = Stored(node, n, value) \/ node' = node) /\ X.Root # NULL
  BY <1>1 DEF SetValueX
<1>3. n \in 1 .. Len(node)
  BY <1>1, <1>2, TextIsList, AddressIs, FoundIs DEF Found
<1> QED  BY <1>2, <1>3, StorePreserves

\* Encoding leaves the links alone.
LEMMA EncodedIsSame ==
    ASSUME NEW t, IsHierarchy(t), NEW nodes
    PROVE  Grown(Encoded(t, nodes), t) /\ Len(Encoded(t, nodes)) = Len(t)
<1>1. PICK m \in Nat, u \in {Encoded(t, nodes)} : m = Len(t) /\ u = Encoded(t, nodes)
  BY DEF IsHierarchy, IsNodes, IsList
<1>2. DOMAIN t = 1 .. m /\ \A n \in 1 .. m : DOMAIN t[n] = NodeFields
  BY <1>1 DEF IsHierarchy, IsNodes, IsList
<1> DEFINE R(n) == IF n \in nodes THEN [t[n] EXCEPT !.DataFormat = "NONE"] ELSE t[n]
<1>3. u = [n \in 1 .. m |-> R(n)]
  BY <1>1, <1>2 DEF Encoded
<1>4. ASSUME NEW n \in 1 .. m
      PROVE  SameLinkFields(R(n), t[n])
  BY <1>2 DEF SameLinkFields, NodeFields
<1> PICK S : S = {R(n) : n \in 1 .. m}
  OBVIOUS
<1>5. u \in [1 .. m -> S]
  BY <1>3
<1>6. IsList(u) /\ Len(u) = m
  BY <1>5, ListIs
<1>7. \A n \in 1 .. m : SameLinkFields(u[n], t[n])
  BY <1>3, <1>4
<1>8. SameLinks(u, t)
  BY <1>1, <1>6, <1>7 DEF SameLinks, SameLinkFields
<1>9. SameHierarchy(u, t)
  BY <1>8, LinksHierarchy
<1> QED  BY <1>1, <1>6, <1>9, GrownSame

LEMMA SerializePreserves ==
    ASSUME TreeInv, Serialize
    PROVE  TreeInv'
<1>1. PICK n, t : /\ n = FindPosition(node, Start(node, X), <<0, 0>>).at
                 /\ t = IF FindPosition(node, Start(node, X), <<0, 0>>).found THEN Stored(node, n, Timestamp) ELSE node
  OBVIOUS
<1>2. PICK nodes : node' = Encoded(t, nodes)
  BY <1>1 DEF Serialize
<1>3. X' = [X EXCEPT !.PosX = n] /\ (t = Stored(node, n, Timestamp) \/ t = node) /\ X.Root # NULL
  BY <1>1 DEF Serialize
<1>4. ArePositions(<<0, 0>>)
  BY DEF ArePositions, IsList
<1>5. n \in 1 .. Len(node) /\ IsHierarchy(node)
  BY <1>1, <1>3, <1>4, FoundIs DEF TreeInv
<1>6. SameHierarchy(t, node)
  <2>1. PICK r : SameLinkFields(r, node[n]) /\ Stored(node, n, Timestamp) = [node EXCEPT ![n] = r]
    BY <1>5, StoredIs
  <2>2. SameHierarchy(Stored(node, n, Timestamp), node)
    BY <1>5, <2>1, SetLinks, LinksHierarchy
  <2>3. SameHierarchy(node, node)
    BY <1>5 DEF SameHierarchy
  <2> QED  BY <1>3, <2>2, <2>3
<1>7. Grown(Encoded(t, nodes), t) /\ Len(Encoded(t, nodes)) = Len(t)
  BY <1>6, EncodedIsSame DEF SameHierarchy
<1>8. Grown(Encoded(t, nodes), node)
  BY <1>6, <1>7 DEF Grown, SameHierarchy
<1>9. n \in 1 .. Len(Encoded(t, nodes))
  BY <1>5, <1>6, <1>7 DEF SameHierarchy
<1> QED  BY <1>2, <1>3, <1>8, <1>9, MovePreserves

LEMMA ConvertedIs ==
    ASSUME NEW n, DOMAIN n = NodeFields, NEW format, NEW b, NEW c \in Converted(n, format, b)
    PROVE  SameLinkFields(c, n)
<1>1. PICK x, y : x = <<"zero">> /\ y = <<"binary">>
  OBVIOUS
<1>2. SameLinkFields([n EXCEPT !.text = x, !.DataFormat = format], n)
  BY DEF SameLinkFields, NodeFields
<1>3. SameLinkFields([n EXCEPT !.text = y, !.DataFormat = format], n)
  BY DEF SameLinkFields, NodeFields
<1>4. SameLinkFields([n EXCEPT !.text = y, !.DataFormat = "BINARY"], n)
  BY DEF SameLinkFields, NodeFields
<1>5. SameLinkFields(n, n)
  BY DEF SameLinkFields
<1>6. \A d \in DecodeNum(n, format) : SameLinkFields(d, n)
  <2> SUFFICES ASSUME NEW d \in DecodeNum(n, format)
               PROVE  SameLinkFields(d, n)
    OBVIOUS
  <2>1. \/ d = [n EXCEPT !.text = x, !.DataFormat = format] \/ d = [n EXCEPT !.text = y, !.DataFormat = format]
        \/ d = n
    BY <1>1 DEF DecodeNum
  <2> QED  BY <1>2, <1>3, <1>5, <2>1
<1>7. c \in {n} \/ c \in {[n EXCEPT !.text = y, !.DataFormat = "BINARY"]} \/ c \in DecodeNum(n, format)
  BY <1>1 DEF Converted
<1> QED  BY <1>4, <1>5, <1>6, <1>7

LEMMA GetValuePreserves ==
    ASSUME TreeInv, NEW a \in Addresses, NEW format, NEW b, GetValue(a, format, b)
    PROVE  TreeInv'
<1>1. PICK n : n = Found(a).at
  OBVIOUS
<1>2. X' = [X EXCEPT !.PosX = n] /\ X.Root # NULL
  BY <1>1 DEF GetValue
<1>3. n \in 1 .. Len(node)
  BY <1>1, <1>2, TextIsList, AddressIs, FoundIs DEF Found
<1>4. node' = node \/ \E c \in Converted(node[n], format, b) : node' = [node EXCEPT ![n] = c]
  BY <1>1 DEF GetValue
<1>5. CASE node' = node
  BY <1>2, <1>3, <1>5, UnchangedLinks, ChangePreserves
<1>6. ASSUME NEW c \in Converted(node[n], format, b), node' = [node EXCEPT ![n] = c]
      PROVE  TreeInv'
  <2>1. DOMAIN node[n] = NodeFields
    BY <1>3 DEF TreeInv, IsHierarchy, IsNodes
  <2>2. SameLinkFields(c, node[n])
    BY <2>1, ConvertedIs
  <2> QED  BY <1>2, <1>3, <1>6, <2>2, ChangePreserves
<1> QED  BY <1>4, <1>5, <1>6

LEMMA ClearPreserves ==
    ASSUME TreeInv, ClearHierarchy
    PROVE  TreeInv'
<1>1. DOMAIN node[1] = NodeFields /\ node[1].Parent = NULL
  BY DEF TreeInv, IsHierarchy, IsNodes, IsList
<1>2. PICK r : r = [[node[1] EXCEPT !.Child = NULL] EXCEPT !.DataFormat = "NONE"]
  OBVIOUS
<1>3. DOMAIN r = NodeFields /\ r.Parent = NULL /\ r.Child = NULL
  BY <1>1, <1>2 DEF NodeFields
<1>4. node' = <<r>> /\ X' = NoNavi
  BY <1>2 DEF ClearHierarchy
<1>5. IsHierarchy(<<r>>)
  BY <1>3, SingleIs
<1> QED  BY <1>4, <1>5, NoNaviIs DEF TreeInv

LEMMA TreeNext ==
    ASSUME TreeInv, [NextTree]_hierarchy
    PROVE  TreeInv'
<1>1. CASE UNCHANGED hierarchy
  BY <1>1 DEF TreeInv, hierarchy
<1>2. CASE \E line \in Lines : ReceiveLine(line)
  BY <1>2, ReceiveLinePreserves
<1>3. CASE \E a \in Addresses, v \in Values : InsertValueX(a, v) \/ SetValueX(a, v)
  BY <1>3, InsertPreserves, SetValuePreserves
<1>4. CASE \E a \in Addresses, f \in {"STRING", "UINT64"}, b \in BOOLEAN : GetValue(a, f, b)
  BY <1>4, GetValuePreserves
<1>5. CASE Serialize
  BY <1>5, SerializePreserves
<1>6. CASE ClearHierarchy
  BY <1>6, ClearPreserves
<1> QED  BY <1>1, <1>2, <1>3, <1>4, <1>5, <1>6 DEF NextTree

-----------------------------------------------------------------------------
(* Navigable *)

LEMMA RingsAreClosed ==
    ASSUME TreeInv
    PROVE  RingsClosed
<1>1. IsHierarchy(node) /\ IsNavi(node, X)
  BY DEF TreeInv
<1>2. PICK m \in Nat : m = Len(node) /\ Nodes(node) = 1 .. m /\ m # 0
  BY <1>1 DEF IsHierarchy, IsNodes, IsList, Nodes
<1>3. {X.Root, X.PosX, X.PathX} \subseteq Nodes(node) \cup {NULL}
  BY <1>1, <1>2 DEF IsNavi, NaviNodes, NULL
<1>4. ASSUME NEW n \in Nodes(node) \ {1}, NEW parent, parent = node[n].Parent, NEW c, c = Children(node, parent)
      PROVE  ToSet(c) = {k \in Nodes(node) : node[k].Parent = parent} /\ node[Last(c)].Sibling = c[1]
  <2>1. n \in 2 .. m
    BY <1>2
  <2>2. parent \in 1 .. m
    BY <1>1, <1>2, <1>4, <2>1 DEF IsHierarchy, IsNodes
  <2>3. Ring(node, parent, c)
    BY <1>1, <1>2, <1>4, <2>2, HierarchyChildren
  <2>4. PICK l \in Nat : l = Len(c) /\ DOMAIN c = 1 .. l
    BY <2>3 DEF Ring, IsList
  <2>5. \A i \in 1 .. l : c[i] \in 1 .. m /\ node[c[i]].Parent = parent
    BY <1>2, <2>3, <2>4 DEF Ring
  <2>6. \A k \in 1 .. m : node[k].Parent = parent => \E i \in 1 .. l : c[i] = k
    BY <1>2, <2>3, <2>4 DEF Ring
  <2>7. ToSet(c) = {c[i] : i \in 1 .. l}
    BY <2>4 DEF ToSet
  <2>8. ToSet(c) = {k \in Nodes(node) : node[k].Parent = parent}
    BY <1>2, <2>5, <2>6, <2>7
  <2>9. l # 0
    BY <1>4, <2>1, <2>6
  <2>10. Last(c) = c[l] /\ l \in 1 .. l
    BY <2>4, <2>9 DEF Last
  <2>11. node[c[l]].Sibling = c[1]
    BY <2>3, <2>4, <2>10 DEF Ring
  <2> QED  BY <2>8, <2>10, <2>11
<1> QED  BY <1>3, <1>4 DEF RingsClosed

LEMMA AddressesDoAgree ==
    ASSUME TreeInv
    PROVE  AddressesAgree
<1> SUFFICES ASSUME X.Root # NULL, NEW a \in Addresses
             PROVE  SameWay(GetPosition(node, Start(node, X), AddressNumbers(a)), AddressNumbers(a), Found(a))
  BY DEF AddressesAgree
<1>1. IsHierarchy(node) /\ IsNavi(node, X)
  BY DEF TreeInv
<1>2. PICK start, s : start = Start(node, X) /\ s = AddressNumbers(a)
  OBVIOUS
<1>3. start \in 1 .. Len(node) /\ start = node[X.Root].Parent
  BY <1>1, <1>2, StartIs
<1>4. ArePositions(s)
  BY <1>2, TextIsList, AddressIs
<1>5. PICK p, way : p = GetPosition(node, start, s) /\ way = FindPosition(node, start, s)
  OBVIOUS
<1>6. /\ FindPosition(p.t, start, s) = [at |-> p.at, found |-> TRUE]
      /\ way.found => p = [t |-> node, at |-> way.at]
  BY <1>1, <1>3, <1>4, <1>5, WaysAgree
<1>7. Start(p.t, X) = start
  <2>1. IsPlace(p) /\ Grown(p.t, node)
    BY <1>1, <1>3, <1>4, <1>5, PositionsAreNumbers, GetPositionIs
  <2>2. IsHierarchy(p.t) /\ IsNavi(p.t, X)
    BY <1>1, <2>1, NaviGrown DEF Grown
  <2>3. Start(p.t, X) = p.t[X.Root].Parent
    BY <2>2, StartIs
  <2>4. X.Root \in 1 .. Len(node)
    BY <1>1 DEF IsNavi, NaviNodes, NULL
  <2> QED  BY <1>3, <2>1, <2>3, <2>4 DEF Grown
<1>8. way = Found(a)
  BY <1>2, <1>5 DEF Found
<1>9. SameWay(p, s, way)
  BY <1>6, <1>7 DEF SameWay
<1> QED  BY <1>2, <1>5, <1>8, <1>9

\* Whatever lines are received and whatever calls are made with addresses, the
\* rings of the hierarchy stay closed and have all its nodes, and the two ways
\* to follow an address agree (addChild(), getChild(), getPosition(),
\* findPosition(), receiveLineX()).
THEOREM HierarchyAlwaysNavigable == SpecTree => []Navigable
<1>1. InitTree => TreeInv
  BY TreeInit
<1>2. TreeInv /\ [NextTree]_hierarchy => TreeInv'
  BY TreeNext
<1>3. TreeInv => Navigable
  BY RingsAreClosed, AddressesDoAgree DEF Navigable
<1> QED  BY <1>1, <1>2, <1>3, PTL DEF SpecTree

-----------------------------------------------------------------------------
(* What has been escaped is read and decoded *)

\* encodeTextX() of a text, character by character.
EncodeStep(out, c) == out \o IF c \in Special THEN <<"\\", c>> ELSE <<c>>

IsEncoder(d, s, n, f) ==
    f = [k \in 0 .. n |-> IF k = 0 THEN d ELSE EncodeStep(f[k - 1], s[k])]

LEMMA EncoderExists ==
    ASSUME NEW d, NEW s, NEW n \in Nat
    PROVE  \E f : IsEncoder(d, s, n, f)
<1> DEFINE K == {j \in Nat : \E f : IsEncoder(d, s, j, f)}
<1>1. 0 \in K
  <2>1. PICK f : f = [k \in 0 .. 0 |-> d]
    OBVIOUS
  <2>2. IsEncoder(d, s, 0, f)
    BY <2>1 DEF IsEncoder
  <2> QED  BY <2>2
<1>2. ASSUME NEW j \in Nat, j \in K
      PROVE  j + 1 \in K
  <2>1. PICK f : IsEncoder(d, s, j, f)
    BY <1>2
  <2>2. PICK next : next = EncodeStep(f[j], s[j + 1])
    OBVIOUS
  <2>3. PICK h : h = [k \in 0 .. j + 1 |-> IF k = j + 1 THEN next ELSE f[k]]
    OBVIOUS
  <2>4. ASSUME NEW k \in 0 .. j + 1
        PROVE  h[k] = IF k = 0 THEN d ELSE EncodeStep(h[k - 1], s[k])
    <3>1. CASE k = j + 1
      <4>1. h[k - 1] = f[j] /\ k # 0 /\ h[k] = next
        BY <2>3, <3>1
      <4> QED  BY <2>2, <3>1, <4>1
    <3>2. CASE k = 0
      BY <2>1, <2>3, <3>2 DEF IsEncoder
    <3>3. CASE k # 0 /\ k # j + 1
      <4>1. k \in 0 .. j /\ h[k] = f[k] /\ h[k - 1] = f[k - 1]
        BY <2>3, <3>3
      <4> QED  BY <2>1, <3>3, <4>1 DEF IsEncoder
    <3> QED  BY <3>1, <3>2, <3>3
  <2>5. IsEncoder(d, s, j + 1, h)
    BY <2>3, <2>4 DEF IsEncoder
  <2> QED  BY <2>5
<1>3. K \in SUBSET Nat
  OBVIOUS
<1> HIDE DEF K
<1>4. K = Nat
  BY <1>1, <1>2, <1>3, AllNumbers
<1>5. n \in K
  BY <1>4
<1> QED  BY <1>5 DEF K

AreEncoded(e, n, text) == e[0] = <<>> /\ \A k \in 1 .. n : e[k] = EncodeStep(e[k - 1], text[k])

LEMMA EncoderFold ==
    ASSUME NEW text, NEW n \in Nat, n = Len(text)
    PROVE  \E f : AreEncoded(f, n, text) /\ EncodeTextX(text) = f[n]
<1>1. PICK d : d = <<>>
  OBVIOUS
<1> DEFINE walk == CHOOSE f : IsEncoder(d, text, n, f)
<1>2. EncodeTextX(text) = walk[n]
  BY <1>1 DEF EncodeTextX, EncodeStep, FoldAlong, IsEncoder
<1>3. \E f : IsEncoder(d, text, n, f)
  BY EncoderExists
<1>4. IsEncoder(d, text, n, walk)
  BY <1>3
<1> HIDE DEF walk
<1>5. PICK f : f = walk
  OBVIOUS
<1>6. f[0] = d /\ \A k \in 1 .. n : f[k] = EncodeStep(f[k - 1], text[k])
  BY <1>4, <1>5 DEF IsEncoder
<1> QED  BY <1>1, <1>2, <1>5, <1>6 DEF AreEncoded

LEMMA JoinedTexts ==
    ASSUME NEW S, NEW t \in Seq(S), NEW g \in Seq(S)
    PROVE  /\ t \o g \in Seq(S) /\ Len(t \o g) = Len(t) + Len(g)
           /\ \A i \in 1 .. Len(t) : (t \o g)[i] = t[i]
           /\ \A i \in 1 .. Len(g) : (t \o g)[Len(t) + i] = g[i]
<1>1. PICK m \in Nat, k \in Nat : m = Len(t) /\ k = Len(g)
  OBVIOUS
<1>2. /\ t \o g \in Seq(S) /\ Len(t \o g) = m + k
      /\ \A i \in 1 .. m + k : (t \o g)[i] = IF i <= m THEN t[i] ELSE g[i - m]
  BY <1>1, ConcatProperties
<1>3. \A i \in 1 .. m : (t \o g)[i] = t[i]
  BY <1>2
<1>4. ASSUME NEW i \in 1 .. k
      PROVE  (t \o g)[m + i] = g[i]
  <2>1. m + i \in 1 .. m + k /\ ~ (m + i <= m) /\ m + i - m = i
    OBVIOUS
  <2> QED  BY <1>2, <2>1
<1> QED  BY <1>1, <1>2, <1>3, <1>4

\* A character is added as it is, or behind a backslash.
AddedTo(u, t, c) ==
    /\ u \in Seq(Char) /\ Len(u) = Len(t) + (IF c \in Special THEN 2 ELSE 1)
    /\ Prefix(t, u)
    /\ c \in Special => u[Len(t) + 1] = "\\" /\ u[Len(t) + 2] = c
    /\ c \notin Special => u[Len(t) + 1] = c

LEMMA EncodeStepIs ==
    ASSUME NEW t \in Seq(Char), NEW c \in Char
    PROVE  AddedTo(EncodeStep(t, c), t, c)
<1>1. "\\" \in Char
  BY DEF Char
<1>2. CASE c \in Special
  <2>1. PICK g : g = <<"\\", c>>
    OBVIOUS
  <2>2. g \in Seq(Char) /\ Len(g) = 2 /\ g[1] = "\\" /\ g[2] = c
    BY <1>1, <2>1
  <2>3. PICK u : u = t \o g
    OBVIOUS
  <2>4. u \in Seq(Char) /\ Len(u) = Len(t) + 2 /\ Prefix(t, u) /\ u[Len(t) + 1] = g[1] /\ u[Len(t) + 2] = g[2]
    <3>5. t \in Seq(Char) /\ g \in Seq(Char)
      BY <2>2
    <3>6. /\ t \o g \in Seq(Char) /\ Len(t \o g) = Len(t) + Len(g)
          /\ \A i \in 1 .. Len(t) : (t \o g)[i] = t[i]
          /\ \A i \in 1 .. Len(g) : (t \o g)[Len(t) + i] = g[i]
      BY <3>5, JoinedTexts
    <3>1. /\ u \in Seq(Char) /\ Len(u) = Len(t) + Len(g)
          /\ \A i \in 1 .. Len(t) : u[i] = t[i]
          /\ \A i \in 1 .. Len(g) : u[Len(t) + i] = g[i]
      BY <2>3, <3>6
    <3>2. PICK m \in Nat : m = Len(t)
      OBVIOUS
    <3>3. Prefix(t, u)
      BY <2>2, <3>1, <3>2 DEF Prefix
    <3>4. u[Len(t) + 1] = g[1] /\ u[Len(t) + 2] = g[2]
      BY <2>2, <3>1
    <3> QED  BY <2>2, <3>1, <3>3, <3>4
  <2>5. EncodeStep(t, c) = u
    BY <1>2, <2>1, <2>3 DEF EncodeStep
  <2> QED  BY <1>2, <2>2, <2>4, <2>5 DEF AddedTo
<1>3. CASE c \notin Special
  <2>1. PICK g : g = <<c>>
    OBVIOUS
  <2>2. g \in Seq(Char) /\ Len(g) = 1 /\ g[1] = c
    BY <2>1
  <2>3. PICK u : u = t \o g
    OBVIOUS
  <2>4. u \in Seq(Char) /\ Len(u) = Len(t) + 1 /\ Prefix(t, u) /\ u[Len(t) + 1] = g[1]
    <3>5. t \in Seq(Char) /\ g \in Seq(Char)
      BY <2>2
    <3>6. /\ t \o g \in Seq(Char) /\ Len(t \o g) = Len(t) + Len(g)
          /\ \A i \in 1 .. Len(t) : (t \o g)[i] = t[i]
          /\ \A i \in 1 .. Len(g) : (t \o g)[Len(t) + i] = g[i]
      BY <3>5, JoinedTexts
    <3>1. /\ u \in Seq(Char) /\ Len(u) = Len(t) + Len(g)
          /\ \A i \in 1 .. Len(t) : u[i] = t[i]
          /\ \A i \in 1 .. Len(g) : u[Len(t) + i] = g[i]
      BY <2>3, <3>6
    <3>2. PICK m \in Nat : m = Len(t)
      OBVIOUS
    <3>3. Prefix(t, u)
      BY <2>2, <3>1, <3>2 DEF Prefix
    <3>4. u[Len(t) + 1] = g[1]
      BY <2>2, <3>1
    <3> QED  BY <2>2, <3>1, <3>3, <3>4
  <2>5. EncodeStep(t, c) = u
    BY <1>3, <2>1, <2>3 DEF EncodeStep
  <2> QED  BY <1>3, <2>2, <2>4, <2>5 DEF AddedTo
<1> QED  BY <1>2, <1>3

\* What has been encoded so far is the beginning of what is encoded in the end.
LEMMA EncodedGrows ==
    ASSUME NEW n \in Nat, NEW text \in Seq(Char), n = Len(text), NEW e, AreEncoded(e, n, text)
    PROVE  /\ \A j \in 0 .. n : e[j] \in Seq(Char) /\ Prefix(e[j], e[n])
           /\ \A j \in 1 .. n : AddedTo(e[j], e[j - 1], text[j])
<1> DEFINE K == {j \in Nat : j <= n => e[j] \in Seq(Char) /\ \A i \in 0 .. j : e[i] \in Seq(Char) /\ Prefix(e[i], e[j])}
<1>1. 0 \in K
  <2>1. PICK d : d = e[0]
    OBVIOUS
  <2>2. d = <<>>
    BY <2>1 DEF AreEncoded
  <2>3. d \in Seq(Char) /\ Prefix(d, d)
    BY <2>2 DEF Prefix
  <2> QED  BY <2>1, <2>3
<1>2. ASSUME NEW j \in Nat, j + 1 <= n, e[j] \in Seq(Char)
      PROVE  AddedTo(e[j + 1], e[j], text[j + 1])
  <2>1. j + 1 \in 1 .. n /\ j + 1 - 1 = j
    BY <1>2
  <2>2. text[j + 1] \in Char
    BY <2>1
  <2>3. e[j + 1] = EncodeStep(e[j], text[j + 1])
    BY <2>1 DEF AreEncoded
  <2> QED  BY <1>2, <2>2, <2>3, EncodeStepIs
<1>3. ASSUME NEW j \in Nat, j \in K
      PROVE  j + 1 \in K
  <2> SUFFICES ASSUME j + 1 <= n
               PROVE  e[j + 1] \in Seq(Char) /\ \A i \in 0 .. j + 1 : e[i] \in Seq(Char) /\ Prefix(e[i], e[j + 1])
    OBVIOUS
  <2>1. e[j] \in Seq(Char) /\ \A i \in 0 .. j : e[i] \in Seq(Char) /\ Prefix(e[i], e[j])
    BY <1>3
  <2>2. e[j + 1] \in Seq(Char) /\ Prefix(e[j], e[j + 1])
    BY <1>2, <2>1 DEF AddedTo
  <2>3. ASSUME NEW i \in 0 .. j + 1
        PROVE  e[i] \in Seq(Char) /\ Prefix(e[i], e[j + 1])
    <3>1. CASE i = j + 1
      BY <2>2, <3>1 DEF Prefix
    <3>2. CASE i # j + 1
      <4>1. e[i] \in Seq(Char) /\ Prefix(e[i], e[j])
        BY <2>1, <3>2
      <4>2. PICK a, b, c : a = e[i] /\ b = e[j] /\ c = e[j + 1]
        OBVIOUS
      <4>3. Prefix(a, b) /\ Prefix(b, c) /\ a \in Seq(Char) /\ b \in Seq(Char) /\ c \in Seq(Char)
        BY <2>1, <2>2, <4>1, <4>2
      <4>4. Prefix(a, c)
        BY <4>3 DEF Prefix
      <4> QED  BY <4>2, <4>3, <4>4
    <3> QED  BY <3>1, <3>2
  <2> QED  BY <2>2, <2>3
<1>4. K \in SUBSET Nat
  OBVIOUS
<1>5. Nat \subseteq K
  <2> HIDE DEF K
  <2> QED  BY <1>1, <1>3, <1>4, AllNumbers
<1>6. \A j \in 0 .. n : e[j] \in Seq(Char)
  BY <1>5
<1>7. \A j \in 0 .. n : Prefix(e[j], e[n])
  BY <1>5
<1>8. ASSUME NEW j \in 1 .. n
      PROVE  AddedTo(e[j], e[j - 1], text[j])
  <2>1. j - 1 \in Nat /\ j - 1 + 1 = j /\ e[j - 1] \in Seq(Char)
    BY <1>6
  <2> QED  BY <1>2, <2>1
<1> QED  BY <1>6, <1>7, <1>8

\* Where the character j of the text has been put.
CharAtEnd(e, out, text, j) ==
    /\ Len(e[j - 1]) \in Nat
    /\ text[j] \in Special => /\ Len(e[j]) = Len(e[j - 1]) + 2 /\ Len(e[j]) <= Len(out)
                              /\ out[Len(e[j - 1]) + 1] = "\\" /\ out[Len(e[j - 1]) + 2] = text[j]
    /\ text[j] \notin Special => /\ Len(e[j]) = Len(e[j - 1]) + 1 /\ Len(e[j]) <= Len(out)
                                 /\ out[Len(e[j - 1]) + 1] = text[j]

LEMMA EncodedChars ==
    ASSUME NEW n \in Nat, NEW text \in Seq(Char), n = Len(text), NEW e, AreEncoded(e, n, text), NEW j \in 1 .. n
    PROVE  CharAtEnd(e, e[n], text, j)
<1>1. PICK a, b, out, c : a = e[j - 1] /\ b = e[j] /\ out = e[n] /\ c = text[j]
  OBVIOUS
<1>2. a \in Seq(Char) /\ b \in Seq(Char) /\ out \in Seq(Char) /\ Prefix(b, out) /\ AddedTo(b, a, c)
  <2>1. j \in 0 .. n /\ j - 1 \in 0 .. n /\ n \in 0 .. n
    OBVIOUS
  <2> QED  BY <1>1, <2>1, EncodedGrows
<1>3. PICK q \in Nat, m \in Nat, k \in Nat : q = Len(a) /\ m = Len(b) /\ k = Len(out)
  BY <1>2
<1>4. c \in Special => m = q + 2 /\ m <= k /\ out[q + 1] = "\\" /\ out[q + 2] = c
  BY <1>2, <1>3 DEF Prefix, AddedTo
<1>5. c \notin Special => m = q + 1 /\ m <= k /\ out[q + 1] = c
  BY <1>2, <1>3 DEF Prefix, AddedTo
<1> QED  BY <1>1, <1>3, <1>4, <1>5 DEF CharAtEnd

\* u is the first j characters of the text.
Beginning(u, text, j) == u \in Seq(Char) /\ Len(u) = j /\ \A i \in 1 .. j : u[i] = text[i]

LEMMA BeginningOn ==
    ASSUME NEW j \in Nat, NEW text, NEW u, Beginning(u, text, j), text[j + 1] \in Char
    PROVE  Beginning(Append(u, text[j + 1]), text, j + 1)
<1>1. PICK c, v : c \in Char /\ c = text[j + 1] /\ v = Append(u, c)
  OBVIOUS
<1>2. u \in Seq(Char) /\ Len(u) = j /\ \A i \in 1 .. j : u[i] = text[i]
  BY DEF Beginning
<1>3. v \in Seq(Char) /\ Len(v) = j + 1 /\ v[j + 1] = c /\ \A i \in 1 .. j : v[i] = u[i]
  BY <1>1, <1>2, AppendProperties
<1>4. \A i \in 1 .. j + 1 : v[i] = text[i]
  BY <1>1, <1>2, <1>3
<1> QED  BY <1>1, <1>3, <1>4 DEF Beginning

LEMMA FrontOfAppended ==
    ASSUME NEW u \in Seq(Char), NEW c \in Char
    PROVE  Front(Append(u, c)) = u
<1>1. PICK v : v = Append(u, c)
  OBVIOUS
<1>2. PICK m \in Nat : m = Len(u)
  OBVIOUS
<1>3. v \in Seq(Char) /\ Len(v) = m + 1 /\ \A i \in 1 .. m : v[i] = u[i]
  BY <1>1, <1>2, AppendProperties
<1>4. PICK f : f = SubSeq(v, 1, m)
  OBVIOUS
<1>5. f \in Seq(Char) /\ Len(f) = m /\ \A i \in 1 .. m : f[i] = v[i]
  BY <1>3, <1>4
<1>6. f = u
  BY <1>3, <1>5, <1>2, SequenceIsList, ListSame
<1> QED  BY <1>1, <1>3, <1>4, <1>6 DEF Front

LEMMA DecodeOne ==
    ASSUME NEW d, d.out \in Seq(Char), NEW c \in Char
    PROVE  /\ c \notin Special => DecodeStep(d, c).out = Append(d.out, c)
           /\ c \in Special => DecodeStep(DecodeStep(d, "\\"), c).out = Append(d.out, c)
<1>1. "\\" \notin Special /\ "\\" \in Char
  BY DEF Special, LineEnd, Char
<1>2. c \notin Special => DecodeStep(d, c).out = Append(d.out, c)
  BY DEF DecodeStep
<1>3. ASSUME c \in Special
      PROVE  DecodeStep(DecodeStep(d, "\\"), c).out = Append(d.out, c)
  <2>1. PICK b, o : b = DecodeStep(d, "\\") /\ o = d.out
    OBVIOUS
  <2>2. b.prev = "\\" /\ b.out = Append(o, "\\")
    BY <1>1, <2>1 DEF DecodeStep
  <2>3. DecodeStep(b, c).out = Append(Front(b.out), c)
    BY <1>3, <2>2 DEF DecodeStep
  <2>4. Front(b.out) = o
    BY <1>1, <2>1, <2>2, FrontOfAppended
  <2> QED  BY <2>1, <2>3, <2>4
<1> QED  BY <1>2, <1>3

LEMMA EncodedIsDecoded ==
    ASSUME NEW text \in Seq(Char)
    PROVE  DecodeTextX(EncodeTextX(text)) = text
<1>1. PICK n \in Nat : n = Len(text)
  OBVIOUS
<1>2. PICK e : AreEncoded(e, n, text) /\ EncodeTextX(text) = e[n]
  BY <1>1, EncoderFold
<1>3. PICK out : out = e[n]
  OBVIOUS
<1>4. out \in Seq(Char) /\ \A j \in 1 .. n : CharAtEnd(e, out, text, j)
  <2>1. \A j \in 0 .. n : e[j] \in Seq(Char)
    BY <1>1, <1>2, EncodedGrows
  <2>2. n \in 0 .. n
    OBVIOUS
  <2>3. \A j \in 1 .. n : CharAtEnd(e, out, text, j)
    BY <1>1, <1>2, <1>3, EncodedChars
  <2> QED  BY <1>3, <2>1, <2>2, <2>3
<1>5. PICK m \in Nat : m = Len(out)
  BY <1>4
<1>6. PICK w : /\ w[0] = [prev |-> "t", out |-> <<>>]
               /\ \A k \in 1 .. Len(out) : w[k] = DecodeStep(w[k - 1], out[k])
               /\ DecodeTextX(out) = w[Len(out)].out
  BY <1>5, DecoderFold
<1>7. ASSUME NEW i \in Nat, i + 1 <= m
       PROVE  w[i + 1] = DecodeStep(w[i], out[i + 1])
  <2>1. i + 1 \in 1 .. Len(out) /\ i + 1 - 1 = i
    BY <1>5, <1>7
  <2> QED  BY <1>6, <2>1
<1> DEFINE K == {j \in Nat : j <= n => Beginning(w[Len(e[j])].out, text, j)}
<1>8. 0 \in K
  <2>1. Len(e[0]) = 0
    BY <1>2 DEF AreEncoded
  <2>2. PICK d : d = <<>>
    OBVIOUS
  <2>3. Beginning(d, text, 0)
    BY <2>2 DEF Beginning
  <2>4. w[Len(e[0])].out = d
    BY <1>6, <2>1, <2>2
  <2> QED  BY <2>3, <2>4
<1>9. ASSUME NEW j \in Nat, j \in K
      PROVE  j + 1 \in K
  <2> SUFFICES ASSUME j + 1 <= n
               PROVE  Beginning(w[Len(e[j + 1])].out, text, j + 1)
    OBVIOUS
  <2>1. Beginning(w[Len(e[j])].out, text, j)
    BY <1>9
  <2>2. PICK q, k, c : q = Len(e[j]) /\ k = Len(e[j + 1]) /\ c = text[j + 1]
    OBVIOUS
  <2>3. c \in Char
    BY <1>1, <2>2
  <2>4. /\ q \in Nat
        /\ c \in Special => k = q + 2 /\ k <= m /\ out[q + 1] = "\\" /\ out[q + 2] = c
        /\ c \notin Special => k = q + 1 /\ k <= m /\ out[q + 1] = c
    <3>1. j + 1 \in 1 .. n /\ j + 1 - 1 = j
      OBVIOUS
    <3> QED  BY <1>4, <1>5, <2>2, <3>1 DEF CharAtEnd
  <2>5. PICK d : d = w[q]
    OBVIOUS
  <2>6. Beginning(d.out, text, j) /\ d.out \in Seq(Char)
    BY <2>1, <2>2, <2>5 DEF Beginning
  <2>7. w[k].out = Append(d.out, c)
    <3>1. CASE c \notin Special
      <4>1. q \in Nat /\ q + 1 <= m /\ k = q + 1 /\ out[q + 1] = c
        BY <2>4, <3>1
      <4>2. w[q + 1] = DecodeStep(w[q], c)
        BY <1>7, <4>1
      <4>3. DecodeStep(d, c).out = Append(d.out, c)
        BY <2>3, <2>6, <3>1, DecodeOne
      <4> QED  BY <2>5, <4>1, <4>2, <4>3
    <3>2. CASE c \in Special
      <4>1. /\ q \in Nat /\ q + 1 \in Nat /\ q + 1 <= m /\ q + 1 + 1 <= m /\ q + 1 + 1 = q + 2
            /\ k = q + 2 /\ out[q + 1] = "\\" /\ out[q + 2] = c
        BY <2>4, <3>2
      <4>2. w[q + 1] = DecodeStep(w[q], "\\")
        BY <1>7, <4>1
      <4>3. w[q + 2] = DecodeStep(w[q + 1], c)
        BY <1>7, <4>1
      <4>4. DecodeStep(DecodeStep(d, "\\"), c).out = Append(d.out, c)
        BY <2>3, <2>6, <3>2, DecodeOne
      <4>5. w[k] = DecodeStep(DecodeStep(d, "\\"), c)
        BY <2>5, <4>1, <4>2, <4>3
      <4> QED  BY <4>4, <4>5
    <3> QED  BY <3>1, <3>2
  <2>8. Beginning(Append(d.out, c), text, j + 1)
    BY <2>2, <2>3, <2>6, BeginningOn
  <2> QED  BY <2>2, <2>7, <2>8
<1>10. K \in SUBSET Nat
  OBVIOUS
<1> HIDE DEF K
<1>11. n \in K
  BY <1>8, <1>9, <1>10, AllNumbers
<1>12. Beginning(w[m].out, text, n)
  BY <1>3, <1>5, <1>11 DEF K
<1>13. PICK u : u = w[m].out
  OBVIOUS
<1>14. u = text
  BY <1>1, <1>12, <1>13, SequenceIsList, ListSame DEF Beginning
<1> QED  BY <1>2, <1>3, <1>5, <1>6, <1>13, <1>14

LEMMA EncodedInTurn ==
    ASSUME NEW t \in Seq(Char), NEW c \in Char
    PROVE  EncodeStep(t, c) = IF c \in Special THEN Append(Append(t, "\\"), c) ELSE Append(t, c)
<1>1. PICK u : u = EncodeStep(t, c)
  OBVIOUS
<1>2. AddedTo(u, t, c)
  BY <1>1, EncodeStepIs
<1>3. PICK m \in Nat : m = Len(t)
  OBVIOUS
<1>4. "\\" \in Char
  BY DEF Char
<1>5. u \in Seq(Char) /\ \A i \in 1 .. m : u[i] = t[i]
  BY <1>2, <1>3 DEF AddedTo, Prefix
<1>6. CASE c \in Special
  <2>1. PICK v, w : v = Append(t, "\\") /\ w = Append(v, c)
    OBVIOUS
  <2>2. v \in Seq(Char) /\ Len(v) = m + 1 /\ v[m + 1] = "\\" /\ \A i \in 1 .. m : v[i] = t[i]
    BY <1>3, <1>4, <2>1, AppendProperties
  <2>3. w \in Seq(Char) /\ Len(w) = m + 2 /\ w[m + 2] = c /\ \A i \in 1 .. m + 1 : w[i] = v[i]
    BY <2>1, <2>2, AppendProperties
  <2>4. Len(u) = m + 2 /\ u[m + 1] = "\\" /\ u[m + 2] = c
    BY <1>2, <1>3, <1>6 DEF AddedTo
  <2>5. \A i \in 1 .. m + 2 : u[i] = w[i]
    BY <1>5, <2>2, <2>3, <2>4
  <2>6. u = w
    BY <1>5, <2>3, <2>4, <2>5, SequenceIsList, ListSame
  <2> QED  BY <1>1, <1>6, <2>1, <2>6
<1>7. CASE c \notin Special
  <2>1. PICK v : v = Append(t, c)
    OBVIOUS
  <2>2. v \in Seq(Char) /\ Len(v) = m + 1 /\ v[m + 1] = c /\ \A i \in 1 .. m : v[i] = t[i]
    BY <1>3, <2>1, AppendProperties
  <2>3. Len(u) = m + 1 /\ u[m + 1] = c
    BY <1>2, <1>3, <1>7 DEF AddedTo
  <2>4. \A i \in 1 .. m + 1 : u[i] = v[i]
    BY <1>5, <2>2, <2>3
  <2>5. u = v
    BY <1>5, <2>2, <2>3, <2>4, SequenceIsList, ListSame
  <2> QED  BY <1>1, <1>7, <2>1, <2>5
<1> QED  BY <1>6, <1>7

\* The item that has been read so far is t, and its last character is that of the text, c.
ReadSoFar(l, t, c) ==
    /\ DOMAIN l = {"flags", "stopped", "length", "item"}
    /\ ~ l.stopped /\ l.length = Len(t) + 1 /\ l.item = t
    /\ "text" \in l.flags
    /\ "escape" \in l.flags => c = "\\"

LEMMA KeptSoFar ==
    ASSUME NEW l, NEW t \in Seq(Char), NEW p, ReadSoFar(l, t, p), NEW c \in Char, NEW on, NEW off,
           "text" \notin off, "escape" \in off \/ c = "\\", "escape" \notin on \/ c = "\\"
    PROVE  ReadSoFar(Keep(l, c, on, off), Append(t, c), c)
<1>1. PICK g, k, i, s, h : g = l.flags /\ k = l.length /\ i = l.item /\ s = l.stopped /\ h = Append(t, c)
  OBVIOUS
<1>2. PICK r : r = Keep(l, c, on, off)
  OBVIOUS
<1>3. /\ DOMAIN r = {"flags", "stopped", "length", "item"} /\ r.flags = (g \ off) \cup on
      /\ r.length = k + 1 /\ r.item = Append(i, c) /\ r.stopped = s
  BY <1>1, <1>2 DEF ReadSoFar, Keep
<1>4. ~ s /\ k = Len(t) + 1 /\ i = t /\ "text" \in g
  BY <1>1 DEF ReadSoFar
<1>5. Len(h) = Len(t) + 1
  BY <1>1, AppendProperties
<1>6. "text" \in (g \ off) \cup on /\ ("escape" \in (g \ off) \cup on => c = "\\")
  BY <1>4
<1> QED  BY <1>1, <1>2, <1>3, <1>4, <1>5, <1>6 DEF ReadSoFar

\* A character that is not special.
LEMMA ReadPlain ==
    ASSUME NEW l, NEW t \in Seq(Char), NEW p, ReadSoFar(l, t, p), NEW c \in Char \ Special
    PROVE  ReadSoFar(Further(l, c, FALSE), Append(t, c), c)
<1>1. ~ l.stopped /\ "text" \in l.flags
  BY DEF ReadSoFar
<1>2. c \in Digit \/ c = "-" \/ c = "+" \/ c = "\\" \/ c = "t"
  BY DEF Char, Numeric
<1>3. /\ c \notin LineEnd /\ c \notin {",", ":", ";"} /\ c # "=" /\ c # "@" /\ c # "BT" /\ c # "DEL"
  BY DEF Special
<1>4. \/ Further(l, c, FALSE) = Keep(l, c, {"escape"}, {}) /\ c = "\\"
      \/ Further(l, c, FALSE) = Keep(l, c, {}, {"escape"})
      \/ Further(l, c, FALSE) = Keep(l, c, {"addressDelimiter"}, {"escape"})
      \/ Further(l, c, FALSE) = Keep(l, c, {}, {"escape", "address"})
      \/ Further(l, c, FALSE) = Keep(l, c, {}, {"escape", "number", "address"})
  BY <1>1, <1>3 DEF Further, Digit
<1>5. c = "\\" => ReadSoFar(Keep(l, c, {"escape"}, {}), Append(t, c), c)
  BY KeptSoFar
<1>6. ReadSoFar(Keep(l, c, {}, {"escape"}), Append(t, c), c)
  BY KeptSoFar
<1>7. ReadSoFar(Keep(l, c, {"addressDelimiter"}, {"escape"}), Append(t, c), c)
  BY KeptSoFar
<1>8. ReadSoFar(Keep(l, c, {}, {"escape", "address"}), Append(t, c), c)
  BY KeptSoFar
<1>9. ReadSoFar(Keep(l, c, {}, {"escape", "number", "address"}), Append(t, c), c)
  BY KeptSoFar
<1> QED  BY <1>4, <1>5, <1>6, <1>7, <1>8, <1>9

\* A special one, behind the backslash that has been put before it.
LEMMA ReadEscaped ==
    ASSUME NEW l, NEW t \in Seq(Char), NEW p, ReadSoFar(l, t, p), NEW c \in Special \ LineEnd
    PROVE  ReadSoFar(Further(Further(l, "\\", FALSE), c, FALSE), Append(Append(t, "\\"), c), c)
<1>1. "\\" \in Char \ Special /\ c \in Char
  BY DEF Char, Special, LineEnd
<1>2. PICK k, u : k = Further(l, "\\", FALSE) /\ u = Append(t, "\\")
  OBVIOUS
<1>3. ReadSoFar(k, u, "\\") /\ u \in Seq(Char)
  <2>1. PICK c2 \in Char \ Special : c2 = "\\"
    BY <1>1
  <2>2. ReadSoFar(Further(l, c2, FALSE), Append(t, c2), c2)
    BY ReadPlain
  <2>3. Append(t, c2) \in Seq(Char)
    BY <2>1, AppendProperties
  <2> QED  BY <1>2, <2>1, <2>2, <2>3
<1>4. k = Keep(l, "\\", {"escape"}, {})
  <2>1. ~ l.stopped /\ "text" \in l.flags
    BY DEF ReadSoFar
  <2> QED  BY <1>2, <2>1 DEF Further, Special, LineEnd, Digit
<1>5. "escape" \in k.flags
  BY <1>4 DEF Keep, ReadSoFar
<1>6. Further(k, c, FALSE) = Keep(k, c, {}, IF c = "@" THEN {"escape", "address"} ELSE {"escape"})
  <2>1. ~ k.stopped
    BY <1>3 DEF ReadSoFar
  <2> QED  BY <1>5, <2>1 DEF Further
<1>7. ReadSoFar(Keep(k, c, {}, {"escape", "address"}), Append(u, c), c)
  BY <1>1, <1>3, KeptSoFar
<1>8. ReadSoFar(Keep(k, c, {}, {"escape"}), Append(u, c), c)
  BY <1>1, <1>3, KeptSoFar
<1> QED  BY <1>2, <1>6, <1>7, <1>8

\* The delimiter that ends it.
LEMMA ReadToEnd ==
    ASSUME NEW l, NEW t, NEW p, ReadSoFar(l, t, p), p # "\\", t # <<>>, NEW c \in {",", ":", ";", "="}
    PROVE  /\ Further(l, c, FALSE).item = t /\ Further(l, c, FALSE).length = Len(t) + 1
           /\ "next" \in Further(l, c, FALSE).flags
<1>1. ~ l.stopped /\ "escape" \notin l.flags /\ l.item # <<>>
  BY DEF ReadSoFar
<1>2. c \notin LineEnd
  BY DEF LineEnd
<1>3. PICK g, k, i, r : g = l.flags /\ k = l.length /\ i = l.item /\ r = Further(l, c, FALSE)
  OBVIOUS
<1>4. \A on, off : /\ Stop(l, on, off).flags = (g \ off) \cup on
                   /\ Stop(l, on, off).item = i /\ Stop(l, on, off).length = k
  BY <1>3 DEF Stop, ReadSoFar
<1>5. i = t /\ k = Len(t) + 1
  BY <1>3 DEF ReadSoFar
<1>6. \E on, off : r = Stop(l, on, off) /\ "next" \in on
  <2>1. CASE c = "="
    <3>1. Further(l, c, FALSE) = Stop(l, {"next", "checksum"}, {})
      BY <1>1, <1>2, <2>1 DEF Further, Digit
    <3> QED  BY <1>3, <3>1
  <2>2. CASE c # "="
    <3>1. c \in {",", ":", ";"}
      BY <2>2
    <3>2. Further(l, c, FALSE) = Stop(l, {"next"}, {"checksum"})
      BY <1>1, <1>2, <3>1 DEF Further, Digit
    <3> QED  BY <1>3, <3>2
  <2> QED  BY <2>1, <2>2
<1>7. PICK on, off : r = Stop(l, on, off) /\ "next" \in on
  BY <1>6
<1>8. r.flags = (g \ off) \cup on /\ r.item = i /\ r.length = k
  BY <1>4, <1>7
<1> QED  BY <1>3, <1>5, <1>7, <1>8

LastRead(text, j) == IF j = 0 THEN "t" ELSE text[j]

LEMMA NothingRead ==
    ASSUME NEW g, "text" \in g, "escape" \notin g, NEW e, e = <<>>,
           NEW r, r = [flags |-> g, stopped |-> FALSE, length |-> 1, item |-> e]
    PROVE  ReadSoFar(r, e, "t")
<1>1. DOMAIN r = {"flags", "stopped", "length", "item"} /\ r.flags = g /\ ~ r.stopped /\ r.length = 1 /\ r.item = e
  OBVIOUS
<1>2. Len(e) = 0
  OBVIOUS
<1>3. r.length = Len(e) + 1
  BY <1>1, <1>2
<1> QED  BY <1>1, <1>3 DEF ReadSoFar

\* The delimiters before a text and behind it.
BeforeText == {",", ":"}
BehindText == {",", ":", ";", "="}

LEMMA OpenedByDelimiter ==
    ASSUME NEW line, NEW c \in BeforeText, c = line[1]
    PROVE  ReadSoFar(FirstRead(line, FALSE), <<>>, "t")
<1>1. PICK r, e, g : r = FirstRead(line, FALSE) /\ e = <<>> /\ g = Opening(c)
  OBVIOUS
<1>2. c \in {",", ":"} /\ c \notin LineEnd /\ IsDelimiter(c)
  BY DEF BeforeText, LineEnd, IsDelimiter
<1>3. g = {"determined", "number", "address", "text"}
      \/ g = {"determined", "number", "address", "text"} \cup {"collection", "framework"}
  BY <1>1, <1>2 DEF Opening, Digit, Numeric
<1>4. "text" \in g /\ "escape" \notin g
  BY <1>3
<1>5. r = [flags |-> g, stopped |-> FALSE, length |-> 1, item |-> e]
  BY <1>1, <1>2 DEF FirstRead, OpeningFlags
<1>6. ReadSoFar(r, e, "t")
  BY <1>1, <1>4, <1>5, NothingRead
<1> QED  BY <1>1, <1>6

\* One character of the text, with the backslash that may stand before it.
LEMMA ReadOne ==
    ASSUME NEW a \in Seq(Char), NEW p, NEW c \in Char \ LineEnd, NEW r, NEW q \in Nat, ReadSoFar(r[q], a, p), NEW b,
           b = EncodeStep(a, c),
           c \in Special => r[q + 1] = Further(r[q], "\\", FALSE) /\ r[q + 2] = Further(r[q + 1], c, FALSE),
           c \notin Special => r[q + 1] = Further(r[q], c, FALSE)
    PROVE  ReadSoFar(r[q + (IF c \in Special THEN 2 ELSE 1)], b, c)
<1>1. b = IF c \in Special THEN Append(Append(a, "\\"), c) ELSE Append(a, c)
  BY EncodedInTurn
<1>2. CASE c \in Special
  <2>1. ReadSoFar(Further(Further(r[q], "\\", FALSE), c, FALSE), Append(Append(a, "\\"), c), c)
    BY <1>2, ReadEscaped
  <2> QED  BY <1>1, <1>2, <2>1
<1>3. CASE c \notin Special
  <2>1. ReadSoFar(Further(r[q], c, FALSE), Append(a, c), c)
    BY <1>3, ReadPlain
  <2> QED  BY <1>1, <1>3, <2>1
<1> QED  BY <1>2, <1>3

\* The reader has come to the end of the text.
LEMMA TextIsRead ==
    ASSUME NEW n \in Nat, NEW text \in Seq(Char \ LineEnd), n = Len(text), NEW e, AreEncoded(e, n, text),
           NEW out, out = e[n], NEW r, ReadSoFar(r[0], <<>>, "t"),
           \A i \in 1 .. Len(out) : r[i] = Further(r[i - 1], out[i], FALSE)
    PROVE  ReadSoFar(r[Len(out)], out, LastRead(text, n))
<1>1. text \in Seq(Char)
  OBVIOUS
<1>2. PICK k \in Nat : k = Len(out)
  <2>1. n \in 0 .. n
    OBVIOUS
  <2>2. out \in Seq(Char)
    BY <1>1, <2>1, EncodedGrows
  <2> QED  BY <2>2
<1>3. \A i \in 1 .. k : r[i] = Further(r[i - 1], out[i], FALSE)
  BY <1>2
<1> DEFINE K == {j \in Nat : j <= n => ReadSoFar(r[Len(e[j])], e[j], LastRead(text, j))}
<1>4. 0 \in K
  <2>1. PICK a : a = e[0]
    OBVIOUS
  <2>2. a = <<>> /\ Len(a) = 0
    BY <2>1 DEF AreEncoded
  <2>3. ReadSoFar(r[Len(a)], a, "t")
    BY <2>2
  <2> QED  BY <2>1, <2>3 DEF LastRead
<1>5. ASSUME NEW j \in Nat, j \in K
      PROVE  j + 1 \in K
  <2> SUFFICES ASSUME j + 1 <= n
               PROVE  ReadSoFar(r[Len(e[j + 1])], e[j + 1], LastRead(text, j + 1))
    OBVIOUS
  <2>1. j + 1 \in 1 .. n /\ j + 1 - 1 = j /\ j \in 0 .. n
    OBVIOUS
  <2>2. PICK a, b, c : a = e[j] /\ b = e[j + 1] /\ c = text[j + 1]
    OBVIOUS
  <2>3. c \in Char \ LineEnd
    BY <2>1, <2>2
  <2>4. a \in Seq(Char) /\ b = EncodeStep(a, c)
    <3>1. a \in Seq(Char)
      BY <1>1, <2>1, <2>2, EncodedGrows
    <3>2. b = EncodeStep(a, c)
      BY <2>1, <2>2 DEF AreEncoded
    <3> QED  BY <3>1, <3>2
  <2>5. PICK q \in Nat, m \in Nat : q = Len(a) /\ m = Len(b)
    <3>1. b \in Seq(Char)
      BY <1>1, <2>1, <2>2, EncodedGrows
    <3> QED  BY <2>4, <3>1
  <2>6. CharAtEnd(e, out, text, j + 1)
    BY <1>1, <2>1, EncodedChars
  <2>7. /\ c \in Special => m = q + 2 /\ m <= k /\ out[q + 1] = "\\" /\ out[q + 2] = c
        /\ c \notin Special => m = q + 1 /\ m <= k /\ out[q + 1] = c
    BY <1>2, <2>1, <2>2, <2>5, <2>6 DEF CharAtEnd
  <2>8. ASSUME NEW i \in Nat, i < k
        PROVE  r[i + 1] = Further(r[i], out[i + 1], FALSE)
    <3>1. PICK h \in 1 .. k : h = i + 1
      BY <2>8
    <3>2. r[h] = Further(r[h - 1], out[h], FALSE)
      BY <1>3
    <3>3. h - 1 = i
      BY <3>1
    <3> QED  BY <3>1, <3>2, <3>3
  <2>9. c \in Special => r[q + 1] = Further(r[q], "\\", FALSE) /\ r[q + 2] = Further(r[q + 1], c, FALSE)
    <3> SUFFICES ASSUME c \in Special
                 PROVE  r[q + 1] = Further(r[q], "\\", FALSE) /\ r[q + 2] = Further(r[q + 1], c, FALSE)
      OBVIOUS
    <3>1. q < k /\ q + 1 \in Nat /\ q + 1 < k /\ q + 1 + 1 = q + 2
      BY <2>7
    <3>2. out[q + 1] = "\\" /\ out[q + 2] = c
      BY <2>7
    <3>3. r[q + 1] = Further(r[q], out[q + 1], FALSE)
      BY <2>8, <3>1
    <3>4. r[q + 2] = Further(r[q + 1], out[q + 2], FALSE)
      <4>1. PICK i \in Nat : i = q + 1
        OBVIOUS
      <4>2. r[i + 1] = Further(r[i], out[i + 1], FALSE)
        BY <2>8, <3>1, <4>1
      <4> QED  BY <3>1, <4>1, <4>2
    <3> QED  BY <3>2, <3>3, <3>4
  <2>10. c \notin Special => r[q + 1] = Further(r[q], c, FALSE)
    <3> SUFFICES ASSUME c \notin Special
                 PROVE  r[q + 1] = Further(r[q], c, FALSE)
      OBVIOUS
    <3>1. q < k /\ out[q + 1] = c
      BY <2>7
    <3> QED  BY <2>8, <3>1
  <2>11. PICK p : ReadSoFar(r[q], a, p)
    BY <1>5, <2>1, <2>2, <2>5
  <2>12. ReadSoFar(r[q + (IF c \in Special THEN 2 ELSE 1)], b, c)
    BY <2>3, <2>4, <2>9, <2>10, <2>11, ReadOne
  <2>13. ReadSoFar(r[m], b, c)
    BY <2>7, <2>12
  <2>14. LastRead(text, j + 1) = c
    BY <2>2 DEF LastRead
  <2> QED  BY <2>2, <2>5, <2>13, <2>14
<1>6. K \in SUBSET Nat
  OBVIOUS
<1> HIDE DEF K
<1>7. n \in K
  BY <1>4, <1>5, <1>6, AllNumbers
<1> QED  BY <1>7 DEF K

\* A line that consists of one item between two delimiters.
Delimited(out, before, after) == <<before>> \o out \o <<after>>

IsLineOf(line, out, before, after) ==
    /\ line \in Seq(Char) /\ Len(line) = Len(out) + 2 /\ line[1] = before
    /\ Len(Tail(line)) = Len(out) + 1 /\ \A i \in 1 .. Len(out) : Tail(line)[i] = out[i]
    /\ Tail(line)[Len(out) + 1] = after /\ SubSeq(line, Len(out) + 2, Len(out) + 2) = <<after>>

LEMMA LineOfOne ==
    ASSUME NEW out \in Seq(Char), NEW before \in Char, NEW after \in Char
    PROVE  IsLineOf(Delimited(out, before, after), out, before, after)
<1>1. PICK line : line = Delimited(out, before, after)
  OBVIOUS
<1>2. PICK m \in Nat : m = Len(out)
  OBVIOUS
<1>3. PICK a, b, u : a = <<before>> /\ b = <<after>> /\ u = a \o out
  OBVIOUS
<1>4. a \in Seq(Char) /\ Len(a) = 1 /\ a[1] = before /\ b \in Seq(Char) /\ Len(b) = 1 /\ b[1] = after
  BY <1>3
<1>5. u \in Seq(Char) /\ Len(u) = m + 1 /\ u[1] = before /\ \A i \in 1 .. m : u[1 + i] = out[i]
  <2>1. /\ u \in Seq(Char) /\ Len(u) = Len(a) + Len(out)
        /\ \A i \in 1 .. Len(a) : u[i] = a[i]
        /\ \A i \in 1 .. Len(out) : u[Len(a) + i] = out[i]
    BY <1>3, <1>4, JoinedTexts
  <2> QED  BY <1>4, <1>2, <2>1
<1>6. /\ line \in Seq(Char) /\ Len(line) = m + 2 /\ line[m + 2] = after
      /\ \A i \in 1 .. m + 1 : line[i] = u[i]
  <2>1. /\ u \o b \in Seq(Char) /\ Len(u \o b) = Len(u) + Len(b)
        /\ \A i \in 1 .. Len(u) : (u \o b)[i] = u[i]
        /\ \A i \in 1 .. Len(b) : (u \o b)[Len(u) + i] = b[i]
    <3>1. u \in Seq(Char) /\ b \in Seq(Char)
      BY <1>4, <1>5
    <3> QED  BY <3>1, JoinedTexts
  <2>2. line = u \o b
    BY <1>3, <1>1 DEF Delimited
  <2>3. line[Len(u) + 1] = after
    BY <1>4, <2>1, <2>2
  <2> QED  BY <1>4, <1>5, <2>1, <2>2, <2>3
<1>7. PICK s : s = Tail(line)
  OBVIOUS
<1>8. Len(s) = m + 1 /\ \A i \in 1 .. m + 1 : s[i] = line[i + 1]
  BY <1>6, <1>7
<1>9. \A i \in 1 .. m : s[i] = out[i]
  <2> SUFFICES ASSUME NEW i \in 1 .. m
               PROVE  s[i] = out[i]
    OBVIOUS
  <2>1. PICK h \in 1 .. m + 1 : h = i + 1 /\ h = 1 + i
    OBVIOUS
  <2>2. s[i] = line[h] /\ line[h] = u[h] /\ u[h] = out[i]
    BY <1>5, <1>6, <1>8, <2>1
  <2> QED  BY <2>2
<1>10. s[m + 1] = after
  BY <1>6, <1>8
<1>11. line[1] = before
  BY <1>5, <1>6
<1>12. SubSeq(line, m + 2, m + 2) = b
  <2>1. PICK v : v = SubSeq(line, m + 2, m + 2)
    OBVIOUS
  <2>2. v \in Seq(Char) /\ Len(v) = 1 /\ v[1] = after
    BY <1>6, <2>1
  <2>3. \A i \in 1 .. 1 : v[i] = b[i]
    BY <1>4, <2>2
  <2>4. v = b
    BY <1>4, <2>2, <2>3, SequenceIsList, ListSame
  <2> QED  BY <2>1, <2>4
<1>13. /\ Len(Tail(line)) = m + 1 /\ \A i \in 1 .. m : Tail(line)[i] = out[i]
       /\ Tail(line)[m + 1] = after /\ SubSeq(line, m + 2, m + 2) = <<after>>
  BY <1>3, <1>7, <1>8, <1>9, <1>10, <1>12
<1> QED  BY <1>6, <1>11, <1>1, <1>2, <1>13 DEF IsLineOf

LEMMA ItemFields ==
    ASSUME NEW x, NEW item, NEW type, NEW start, NEW rest,
           x = [ok |-> TRUE, item |-> item, type |-> type, isStartOfCollection |-> start, rest |-> rest]
    PROVE  x.ok /\ x.item = item /\ x.rest = rest
  OBVIOUS

\* What getNextItemX() makes of it when the delimiter behind it has ended it.
LEMMA EndedItem ==
    ASSUME NEW line, line # <<>>, NEW c \in BeforeText, c = line[1], NEW l, l = LineOf(line, FALSE, FALSE), "next" \in l.flags
    PROVE  /\ NextItemX(line, FALSE, FALSE).ok /\ NextItemX(line, FALSE, FALSE).item = l.item
           /\ NextItemX(line, FALSE, FALSE).rest = RestBehind(l, line)
<1>1. line[1] # "@" /\ line[1] \notin LineEnd
  BY DEF BeforeText, LineEnd
<1>2. PICK type, start, item, rest :
          /\ type = TypeOf(LineOf(line, FALSE, FALSE).flags, Len(LineOf(line, FALSE, FALSE).item))
          /\ start = ("collection" \in Opening(line[1])) /\ item = LineOf(line, FALSE, FALSE).item
          /\ rest = RestBehind(LineOf(line, FALSE, FALSE), line)
  OBVIOUS
<1>3. PICK x : x = NextItemX(line, FALSE, FALSE)
  OBVIOUS
<1>4. x = [ok |-> TRUE, item |-> item, type |-> type, isStartOfCollection |-> start, rest |-> rest]
  <2>1. "next" \in LineOf(line, FALSE, FALSE).flags
    OBVIOUS
  <2> QED  BY <1>1, <1>2, <1>3, <2>1 DEF NextItemX, LineOf, LineRead, FirstRead, OpeningFlags, RestBehind
<1>5. x.ok /\ x.item = item /\ x.rest = rest
  BY <1>4, ItemFields
<1> QED  BY <1>2, <1>3, <1>5

IsWalk(f, d, s, b) ==
    /\ f[0] = d
    /\ \A k \in 1 .. Len(s) : f[k] = Further(f[k - 1], s[k], b)
    /\ LineRead(d, s, b) = f[Len(s)]

LEMMA LineIsWalked ==
    ASSUME NEW b, NEW d, NEW s, Len(s) \in Nat
    PROVE  \E f : IsWalk(f, d, s, b)
  BY ReaderFold DEF IsWalk

\* The text is the item of the line, and the delimiter is what is left of it.
IsTaken(next, item, after) == next.ok /\ next.item = item /\ next.rest = <<after>>

LEMMA ItemOfText ==
    ASSUME NEW text \in Seq(Char \ LineEnd), text # <<>>, Last(text) # "\\",
           NEW before \in BeforeText, NEW after \in BehindText
    PROVE  IsTaken(NextItemX(Delimited(EncodeTextX(text), before, after), FALSE, FALSE), EncodeTextX(text), after)
<1>1. PICK n \in Nat : n = Len(text)
  OBVIOUS
<1>2. n # 0 /\ text[n] # "\\"
  BY <1>1 DEF Last
<1>3. text \in Seq(Char)
  OBVIOUS
<1>4. PICK out, line : out = EncodeTextX(text) /\ line = Delimited(EncodeTextX(text), before, after)
  OBVIOUS
<1>5. PICK e : AreEncoded(e, n, text) /\ out = e[n]
  BY <1>1, <1>4, EncoderFold
<1>6. out \in Seq(Char)
  <2>1. n \in 0 .. n
    OBVIOUS
  <2> QED  BY <1>5, <1>1, <1>3, <2>1, EncodedGrows
<1>7. before \in Char /\ after \in Char
  BY DEF BeforeText, BehindText, Char, Special
<1>8. PICK m \in Nat : m = Len(out)
  BY <1>6
<1>9. /\ line \in Seq(Char) /\ Len(line) = m + 2 /\ line[1] = before
      /\ Len(Tail(line)) = m + 1 /\ \A i \in 1 .. m : Tail(line)[i] = out[i]
      /\ Tail(line)[m + 1] = after /\ SubSeq(line, m + 2, m + 2) = <<after>>
  <2>1. IsLineOf(line, out, before, after)
    BY <1>7, <1>4, <1>6, LineOfOne
  <2> QED  BY <1>8, <2>1 DEF IsLineOf
<1>10. PICK s, d : s = Tail(line) /\ d = FirstRead(line, FALSE)
  OBVIOUS
<1>11. Len(s) = m + 1 /\ (\A i \in 1 .. m : s[i] = out[i]) /\ s[m + 1] = after
  BY <1>9, <1>10
<1>12. PICK r : IsWalk(r, d, s, FALSE)
  <2>1. Len(s) \in Nat
    BY <1>11
  <2> QED  BY <2>1, LineIsWalked, Zenon
<1>13. /\ r[0] = d
      /\ \A k \in 1 .. Len(s) : r[k] = Further(r[k - 1], s[k], FALSE)
      /\ LineRead(d, s, FALSE) = r[Len(s)]
  BY <1>12 DEF IsWalk
<1>14. ReadSoFar(r[0], <<>>, "t")
  <2>1. before = line[1]
    BY <1>9
  <2>2. ReadSoFar(d, <<>>, "t")
    BY <1>10, <2>1, OpenedByDelimiter, Zenon
  <2> QED  BY <1>13, <2>2
<1>15. \A i \in 1 .. m : r[i] = Further(r[i - 1], out[i], FALSE)
  <2> SUFFICES ASSUME NEW i \in 1 .. m
               PROVE  r[i] = Further(r[i - 1], out[i], FALSE)
    OBVIOUS
  <2>1. i \in 1 .. Len(s) /\ s[i] = out[i]
    BY <1>11
  <2> QED  BY <1>13, <2>1
<1>16. ReadSoFar(r[m], out, text[n])
  <2>1. ReadSoFar(r[Len(out)], out, LastRead(text, n))
    BY <1>8, <1>14, <1>15, <1>5, <1>1, TextIsRead
  <2> QED  BY <1>8, <1>2, <2>1 DEF LastRead
<1>17. out # <<>>
  <2>1. n \in 1 .. n
    BY <1>2
  <2>2. CharAtEnd(e, e[n], text, n)
    BY <1>5, <1>1, <1>3, <2>1, EncodedChars
  <2>3. m >= 1
    BY <1>8, <1>5, <2>2 DEF CharAtEnd
  <2> QED  BY <1>8, <2>3
<1>18. PICK l : l = LineOf(line, FALSE, FALSE)
  OBVIOUS
<1>19. l = Further(r[m], after, FALSE)
  <2>1. PICK h \in 1 .. Len(s) : h = m + 1 /\ h = Len(s) /\ h - 1 = m
    BY <1>11
  <2>2. r[h] = Further(r[h - 1], s[h], FALSE)
    BY <1>13
  <2>3. l = r[h]
    BY <1>10, <1>13, <1>18, <2>1 DEF LineOf
  <2> QED  BY <1>11, <2>1, <2>2, <2>3
<1>20. l.item = out /\ l.length = m + 1 /\ "next" \in l.flags
  <2>1. after \in {",", ":", ";", "="}
    BY DEF BehindText
  <2> QED  BY <1>8, <1>16, <1>17, <1>19, <1>2, <1>6, <2>1, ReadToEnd
<1>21. RestBehind(l, line) = <<after>>
  <2>1. l.length + 1 = m + 2 /\ Len(line) = m + 2
    BY <1>9, <1>20
  <2> QED  BY <1>9, <2>1 DEF RestBehind
<1>22. line # <<>>
  BY <1>9
<1>23. before = line[1] /\ "next" \in l.flags /\ l.item = out
  BY <1>9, <1>20
<1>24. IsTaken(NextItemX(line, FALSE, FALSE), out, after)
  <2>1. /\ NextItemX(line, FALSE, FALSE).ok /\ NextItemX(line, FALSE, FALSE).item = l.item
        /\ NextItemX(line, FALSE, FALSE).rest = RestBehind(l, line)
    BY <1>18, <1>22, <1>23, EndedItem, Zenon
  <2> QED  BY <1>21, <1>23, <2>1 DEF IsTaken
<1> QED  BY <1>4, <1>24

\* The escaping keeps every text: escaped by encodeTextX(), put between two delimiters,
\* taken out of the line by getNextItemX() and decoded by decodeTextX(), it is what it
\* was, unless it holds a line end or ends with a backslash.
THEOREM EveryTextSurvives == \A text \in Seq(Char) : TextSurvives(text)
<1> SUFFICES ASSUME NEW text \in Seq(Char), text # <<>>, Last(text) # "\\", ToSet(text) \cap LineEnd = {},
                    NEW before \in BeforeText, NEW after \in BehindText
             PROVE  LET next == NextItemX(Delimited(EncodeTextX(text), before, after), FALSE, FALSE)
                    IN  next.ok /\ DecodeTextX(next.item) = text /\ next.rest = <<after>>
  BY DEF TextSurvives, Delimited, BeforeText, BehindText
<1>1. text \in Seq(Char \ LineEnd)
  <2>1. PICK n \in Nat : n = Len(text)
    OBVIOUS
  <2>2. ASSUME NEW i \in 1 .. n
        PROVE  text[i] \in Char \ LineEnd
    BY <2>1 DEF ToSet
  <2> QED  BY <2>1, <2>2
<1>2. PICK next : next = NextItemX(Delimited(EncodeTextX(text), before, after), FALSE, FALSE)
  OBVIOUS
<1>3. IsTaken(next, EncodeTextX(text), after)
  BY <1>1, <1>2, ItemOfText
<1>4. DecodeTextX(EncodeTextX(text)) = text
  BY EncodedIsDecoded
<1>5. next.ok /\ DecodeTextX(next.item) = text /\ next.rest = <<after>>
  BY <1>3, <1>4 DEF IsTaken
<1> QED  BY <1>2, <1>5
=============================================================================

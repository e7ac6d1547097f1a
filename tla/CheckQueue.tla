------------------------------ MODULE CheckQueue ------------------------------
(***************************************************************************)
(* CCheckQueue and CCheckQueueControl (checkqueue.h): the pool of script    *)
(* verification threads that ConnectBlock drives.  One master pushes        *)
(* batches of checks; N-1 workers, and in Wait the master too, take         *)
(* batches off the shared queue under `mutex`, run them without it, and     *)
(* account for them the next time they hold it.                             *)
(*                                                                          *)
(* A critical section of Loop is two steps: the part up to the while loop   *)
(* (Enter, Wake) and the body of the while loop (Exit, Sleep, Take).  They  *)
(* are kept apart because the constructor of CCheckQueueControl reads       *)
(* nTotal and nIdle without the mutex and can see the state in between.     *)
(*                                                                          *)
(* "As the order of booleans doesn't matter" the LIFO vector is a set.      *)
(*                                                                          *)
(* Definitions marked "fault" are mutations that show which property        *)
(* depends on the definition below them; nothing else uses them.            *)
(***************************************************************************)
EXTENDS Integers, FiniteSets

CONSTANTS Workers,      \* the threads running ThreadScriptCheck
          Master,       \* the thread that owns the CCheckQueueControl
          Checks,       \* the verifications
          BadChecks,    \* those whose operator() returns false
          nBatchSize,   \* largest batch (128 in main.cpp)
          Free,         \* "no thread": the mutex is not held
          MaxSpurious   \* bound on spurious wake-ups of condition variables

Threads == Workers \cup {Master}

ASSUME WorkersAssumption == IsFiniteSet(Workers) /\ Master \notin Workers
ASSUME FreeAssumption == Free \notin Threads
ASSUME ChecksAssumption == IsFiniteSet(Checks) /\ BadChecks \subseteq Checks
ASSUME BatchAssumption == nBatchSize \in Nat \ {0}
ASSUME SpuriousAssumption == MaxSpurious \in Nat

VARIABLES
    mutex,        \* the thread holding CCheckQueue::mutex, or Free
    queue,        \* checks nobody has taken yet
    nIdle,
    nTotal,
    fAllOk,
    nTodo,
    pc,           \* where each thread is in Loop (or, for the master, outside it)
    batch,        \* the local vChecks of each thread; nNow is its size
    fOk,          \* the local fOk of each thread
    added,        \* checks handed to Add since the control was constructed
    ret,          \* the result of the last Wait
    interrupted,  \* threads whose boost interruption has been delivered
    spurious      \* number of spurious wake-ups so far

loopVars == <<mutex, queue, nIdle, nTotal, fAllOk, nTodo>>
vars == <<mutex, queue, nIdle, nTotal, fAllOk, nTodo, pc, batch, fOk, added,
          ret, interrupted, spurious>>

Clamp(x, lo, hi) == IF x < lo THEN lo ELSE IF x > hi THEN hi ELSE x

(***************************************************************************)
(* How many work units a thread takes: an increasingly small share of the   *)
(* queue, at least one and at most nBatchSize.                              *)
(***************************************************************************)
NumNow == Clamp(Cardinality(queue) \div (nTotal + nIdle + 1), 1, nBatchSize)

Init ==
    /\ mutex = Free
    /\ queue = {}
    /\ nIdle = 0
    /\ nTotal = 0
    /\ fAllOk = TRUE
    /\ nTodo = 0
    /\ pc = [t \in Threads |-> IF t = Master THEN "out" ELSE "enter"]
    /\ batch = [t \in Threads |-> {}]
    /\ fOk = [t \in Threads |-> TRUE]
    /\ added = {}
    /\ ret = TRUE
    /\ interrupted = {}
    /\ spurious = 0

(***************************************************************************)
(* CCheckQueueControl(pqueue): its asserts hold, or the program aborts.     *)
(***************************************************************************)
CtorAsserts == nTotal = nIdle /\ nTodo = 0 /\ fAllOk = TRUE

Construct ==
    /\ pc[Master] = "out"
    /\ CtorAsserts
    /\ pc' = [pc EXCEPT ![Master] = "adding"]
    /\ added' = {}
    /\ UNCHANGED <<loopVars, batch, fOk, ret, interrupted, spurious>>

(***************************************************************************)
(* Add(vChecks): one new check notifies one waiting worker, several notify  *)
(* all of them.                                                             *)
(***************************************************************************)
NotifyWorkers(n) ==
    LET waiting == {t \in Workers : pc[t] = "wait"}
    IN  \/ /\ n > 1 \/ waiting = {}
           /\ pc' = [t \in Threads |-> IF t \in waiting THEN "woken" ELSE pc[t]]
        \/ /\ n = 1
           /\ \E t \in waiting : pc' = [pc EXCEPT ![t] = "woken"]

Add ==
    /\ pc[Master] = "adding"
    /\ mutex = Free
    /\ \E S \in SUBSET (Checks \ added) :
         /\ S # {}
         /\ queue' = queue \cup S
         /\ added' = added \cup S
         /\ nTodo' = nTodo + Cardinality(S)
         /\ NotifyWorkers(Cardinality(S))
    /\ UNCHANGED <<mutex, nIdle, nTotal, fAllOk, batch, fOk, ret, interrupted,
                   spurious>>

(***************************************************************************)
(* Wait(), called by ConnectBlock or by ~CCheckQueueControl.                *)
(***************************************************************************)
CallWait ==
    /\ pc[Master] = "adding"
    /\ pc' = [pc EXCEPT ![Master] = "enter"]
    /\ UNCHANGED <<loopVars, batch, fOk, added, ret, interrupted, spurious>>

(***************************************************************************)
(* Loop: lock, then account for the batch just run, or for a new thread.    *)
(***************************************************************************)
AllOk(t) == fAllOk /\ fOk[t]

TodoAfter(t) == nTodo - Cardinality(batch[t])

NotifyMaster(t) ==
    IF nTodo' = 0 /\ t # Master /\ pc[Master] = "wait"
    THEN [pc EXCEPT ![t] = "check", ![Master] = "woken"]
    ELSE [pc EXCEPT ![t] = "check"]

Enter(t) ==
    /\ pc[t] = "enter"
    /\ mutex = Free
    /\ mutex' = t
    /\ \/ /\ batch[t] # {}
          /\ fAllOk' = AllOk(t)
          /\ nTodo' = TodoAfter(t)
          /\ pc' = NotifyMaster(t)
          /\ batch' = [batch EXCEPT ![t] = {}]
          /\ UNCHANGED nTotal
       \/ /\ batch[t] = {}
          /\ nTotal' = nTotal + 1
          /\ pc' = [pc EXCEPT ![t] = "check"]
          /\ UNCHANGED <<fAllOk, nTodo, batch>>
    /\ UNCHANGED <<queue, nIdle, fOk, added, ret, interrupted, spurious>>

(***************************************************************************)
(* The three ways through the while loop.  fQuit is never set, so only the  *)
(* master returns.                                                          *)
(***************************************************************************)
\* fault: the status is not reset for new work later
KeepStatus == fAllOk
ResetStatus == TRUE

Exit(t) ==
    /\ pc[t] = "check"
    /\ queue = {}
    /\ t = Master /\ nTodo = 0
    /\ nTotal' = nTotal - 1
    /\ ret' = fAllOk
    /\ fAllOk' = ResetStatus
    /\ pc' = [pc EXCEPT ![t] = "out"]
    /\ mutex' = Free
    /\ UNCHANGED <<queue, nIdle, nTodo, batch, fOk, added, interrupted, spurious>>

Sleep(t) ==
    /\ pc[t] = "check"
    /\ queue = {}
    /\ ~(t = Master /\ nTodo = 0)
    /\ nIdle' = nIdle + 1
    /\ pc' = [pc EXCEPT ![t] = "wait"]
    /\ mutex' = Free
    /\ UNCHANGED <<queue, nTotal, fAllOk, nTodo, batch, fOk, added, ret,
                   interrupted, spurious>>

Take(t) ==
    /\ pc[t] = "check"
    /\ queue # {}
    /\ \E B \in SUBSET queue :
         /\ Cardinality(B) = NumNow
         /\ batch' = [batch EXCEPT ![t] = B]
         /\ queue' = queue \ B
    /\ fOk' = [fOk EXCEPT ![t] = fAllOk]
    /\ pc' = [pc EXCEPT ![t] = "work"]
    /\ mutex' = Free
    /\ UNCHANGED <<nIdle, nTotal, fAllOk, nTodo, added, ret, interrupted, spurious>>

(***************************************************************************)
(* Run the batch without the mutex; after a failure the rest is skipped.    *)
(***************************************************************************)
\* fault: a check that failed is run again
RunAgain(t) == IF batch[t] \cap BadChecks = {} THEN "enter" ELSE "work"
AfterWork(t) == "enter"

Work(t) ==
    /\ pc[t] = "work"
    /\ fOk' = [fOk EXCEPT ![t] = fOk[t] /\ batch[t] \cap BadChecks = {}]
    /\ pc' = [pc EXCEPT ![t] = AfterWork(t)]
    /\ UNCHANGED <<loopVars, batch, added, ret, interrupted, spurious>>

(***************************************************************************)
(* cond.wait returns: the thread has the mutex again.                       *)
(***************************************************************************)
Wake(t) ==
    /\ pc[t] = "woken"
    /\ mutex = Free
    /\ mutex' = t
    /\ nIdle' = nIdle - 1
    /\ pc' = [pc EXCEPT ![t] = "check"]
    /\ UNCHANGED <<queue, nTotal, fAllOk, nTodo, batch, fOk, added, ret,
                   interrupted, spurious>>

SpuriousWakeup(t) ==
    /\ pc[t] = "wait"
    /\ spurious < MaxSpurious
    /\ spurious' = spurious + 1
    /\ pc' = [pc EXCEPT ![t] = "woken"]
    /\ UNCHANGED <<loopVars, batch, fOk, added, ret, interrupted>>

(***************************************************************************)
(* threadGroup.interrupt_all() at shutdown: cond.wait throws                *)
(* thread_interrupted, so nIdle and nTotal keep their value.  A worker is   *)
(* gone; the master unwinds through ~CCheckQueueControl, which has not seen *)
(* Wait return (fDone is false) and calls it again.                         *)
(***************************************************************************)
\* fault: the caller goes on as if it had not waited
BackToCaller(t) == IF t = Master THEN "adding" ELSE "gone"
AfterInterrupt(t) == IF t = Master THEN "enter" ELSE "gone"

Interrupt(t) ==
    /\ pc[t] \in {"wait", "woken"}
    /\ t \notin interrupted
    /\ interrupted' = interrupted \cup {t}
    /\ pc' = [pc EXCEPT ![t] = AfterInterrupt(t)]
    /\ UNCHANGED <<loopVars, batch, fOk, added, ret, spurious>>

Step(t) == Enter(t) \/ Exit(t) \/ Sleep(t) \/ Take(t) \/ Work(t) \/ Wake(t)

Next ==
    \/ Construct
    \/ Add
    \/ CallWait
    \/ \E t \in Threads : Step(t) \/ SpuriousWakeup(t) \/ Interrupt(t)

Spec == Init /\ [][Next]_vars

(***************************************************************************)
(* Every thread that can run does, and ConnectBlock always ends, so that    *)
(* the control is waited for or destroyed.                                  *)
(***************************************************************************)
FairSpec ==
    /\ Spec
    /\ WF_vars(CallWait)
    /\ \A t \in Threads : WF_vars(Step(t))

-------------------------------------------------------------------------------
(* Properties *)

Locations == {"out", "adding", "enter", "check", "wait", "woken", "work", "gone"}

\* Types of the queue's fields, of each thread's locals and of the caller's view.
TypeOK ==
    /\ mutex \in Threads \cup {Free}
    /\ queue \in SUBSET Checks
    /\ nIdle \in Nat
    /\ nTotal \in Nat
    /\ fAllOk \in BOOLEAN
    /\ nTodo \in Nat
    /\ pc \in [Threads -> Locations]
    /\ batch \in [Threads -> SUBSET Checks]
    /\ fOk \in [Threads -> BOOLEAN]
    /\ added \in SUBSET Checks
    /\ ret \in BOOLEAN
    /\ interrupted \in SUBSET Threads
    /\ spurious \in 0..MaxSpurious

Outstanding == {c \in Checks : c \in queue \/ \E t \in Threads : c \in batch[t]}

\* "Number of verifications that haven't completed yet. This includes elements that are
\* not anymore in queue, but still in worker's own batches" (checkqueue.h:55-59).
NTodoCounts ==
    nTodo = Cardinality(Outstanding)

\* The verdict Wait gives is the conjunction of all the checks that were added: a failing
\* check is never lost, and no failure of an earlier block leaks into this one.
VerdictCorrect ==
    pc[Master] = "out" => ret = (added \cap BadChecks = {})

\* When nobody is inside a critical section and no control object exists, the queue is
\* as the constructor of CCheckQueueControl wants it: all threads idle, nothing to do.
IdleBetweenBlocks ==
    (pc[Master] = "out" /\ mutex = Free) => CtorAsserts

\* The asserts of the constructor of CCheckQueueControl (checkqueue.h:181-186) hold whenever
\* it may run; it does not take the mutex.
ConstructorAssertsHold ==
    pc[Master] = "out" => CtorAsserts

\* A caller that waits gets an answer, whichever notifications go to whom, however many
\* workers are interrupted meanwhile.
WaitTerminates ==
    pc[Master] = "enter" ~> pc[Master] = "out"

\* The queue does what a caller is promised.
Abs == INSTANCE CheckBatch WITH
    phase <- CASE pc[Master] = "out" -> "out"
               [] pc[Master] = "adding" -> "adding"
               [] OTHER -> "waiting"
AbsSpec == Abs!Spec
===============================================================================

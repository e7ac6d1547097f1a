--------------------------- MODULE CheckQueueProofs ---------------------------
(***************************************************************************)
(* Proofs about CheckQueue for every number of workers, every set of checks *)
(* and every batch size.                                                    *)
(***************************************************************************)
EXTENDS CheckQueue, FiniteSetTheorems, TLAPS

-------------------------------------------------------------------------------
(* The inductive invariant *)

\* The mutex is held exactly by the thread inside the while loop.
MutexInv == \A t \in Threads : pc[t] = "check" <=> mutex = t

\* Only the master is ever outside Loop, and only workers disappear.
RoleInv ==
    /\ pc[Master] # "gone"
    /\ \A t \in Workers : pc[t] \notin {"out", "adding"}

\* A thread has a batch while it runs it and until it has accounted for it.
BatchInv ==
    \A t \in Threads : /\ pc[t] = "work" => batch[t] # {}
                       /\ batch[t] # {} => pc[t] \in {"work", "enter"}

\* No check is in two places.
DisjointInv ==
    \A t \in Threads :
        /\ batch[t] \cap queue = {}
        /\ \A u \in Threads \ {t} : batch[t] \cap batch[u] = {}

\* Checks in flight are checks that were added.
AddedInv ==
    /\ queue \subseteq added
    /\ \A t \in Threads : batch[t] \subseteq added

\* A failure on record has a cause among the added checks.
CauseInv ==
    /\ ~fAllOk => added \cap BadChecks # {}
    /\ \A t \in Threads : (batch[t] # {} /\ ~fOk[t]) => added \cap BadChecks # {}

\* A bad check is still to be run, or its failure is on record.
NoLossInv ==
    pc[Master] # "out" =>
        \A b \in added \cap BadChecks :
            \/ b \in queue
            \/ ~fAllOk
            \/ \E t \in Threads : b \in batch[t] /\ (pc[t] = "enter" => ~fOk[t])

\* Outside Wait and before the first Add nothing is left over from the last block.
RestInv ==
    pc[Master] = "out" => nTodo = 0 /\ fAllOk

\* Threads counted in nTotal but not in nIdle.
Active == {t \in Threads : pc[t] = "check" \/ batch[t] # {}}
Sleeping == {t \in Threads : pc[t] \in {"wait", "woken"}}

CountInv ==
    /\ nTotal = nIdle + Cardinality(Active)
    /\ nIdle >= Cardinality(Sleeping)

IInv ==
    /\ TypeOK
    /\ MutexInv
    /\ RoleInv
    /\ BatchInv
    /\ DisjointInv
    /\ AddedInv
    /\ CauseInv
    /\ NoLossInv
    /\ RestInv
    /\ CountInv
    /\ NTodoCounts
    /\ VerdictCorrect

-------------------------------------------------------------------------------
(* Finite sets *)

LEMMA ThreadsFinite == IsFiniteSet(Threads)
  <1>1. IsFiniteSet({Master})
    BY Zenon, FS_Singleton
  <1> QED
    BY Zenon, <1>1, WorkersAssumption, FS_Union DEF Threads

LEMMA SubThreads ==
  ASSUME NEW S \in SUBSET Threads
  PROVE  IsFiniteSet(S) /\ Cardinality(S) \in Nat
  BY ThreadsFinite, FS_Subset, FS_CardinalityType

LEMMA SubChecks ==
  ASSUME NEW S \in SUBSET Checks
  PROVE  IsFiniteSet(S) /\ Cardinality(S) \in Nat
  BY ChecksAssumption, FS_Subset, FS_CardinalityType

\* A batch is never empty, so a thread that takes one makes progress.
LEMMA NumNowPositive ==
  ASSUME TypeOK
  PROVE  NumNow \in Nat \ {0}
  <1>1. Cardinality(queue) \in Nat
    BY SubChecks DEF TypeOK
  <1>2. nTotal + nIdle + 1 \in Nat \ {0}
    BY DEF TypeOK
  <1> DEFINE d == nTotal + nIdle + 1
             q == Cardinality(queue) \div d
  <1>3. q \in Int
    BY <1>1, <1>2
  <1> HIDE DEF q
  <1> QED
    BY <1>3, BatchAssumption DEF NumNow, Clamp, q

LEMMA DisjointUnion ==
  ASSUME NEW S, NEW T, IsFiniteSet(S), IsFiniteSet(T), S \cap T = {}
  PROVE  Cardinality(S \cup T) = Cardinality(S) + Cardinality(T)
  <1>1. Cardinality(S \cap T) = 0
    BY FS_EmptySet
  <1>2. Cardinality(S \cup T) = Cardinality(S) + Cardinality(T) - Cardinality(S \cap T)
    BY FS_Union
  <1>3. Cardinality(S) \in Nat /\ Cardinality(T) \in Nat
    BY FS_CardinalityType
  <1> QED
    BY <1>1, <1>2, <1>3

LEMMA SubsetDifference ==
  ASSUME NEW S, IsFiniteSet(S), NEW T \in SUBSET S
  PROVE  Cardinality(S \ T) = Cardinality(S) - Cardinality(T)
  <1>1. S \cap T = T
    OBVIOUS
  <1> QED
    BY Zenon, <1>1, FS_Difference

-------------------------------------------------------------------------------
(* Counting: how Active, Sleeping and Outstanding move with a step *)

LEMMA ActiveGains ==
  ASSUME NEW t \in Threads, t \notin Active, Active' = Active \cup {t}
  PROVE  Cardinality(Active') = Cardinality(Active) + 1
  BY Zenon, SubThreads, FS_AddElement DEF Active

LEMMA ActiveLoses ==
  ASSUME NEW t \in Threads, t \in Active, Active' = Active \ {t}
  PROVE  Cardinality(Active') = Cardinality(Active) - 1
  BY Zenon, SubThreads, FS_RemoveElement DEF Active

LEMMA SleepingGains ==
  ASSUME NEW t \in Threads, t \notin Sleeping, Sleeping' = Sleeping \cup {t}
  PROVE  Cardinality(Sleeping') = Cardinality(Sleeping) + 1
  BY SubThreads, FS_AddElement DEF Sleeping

LEMMA SleepingLoses ==
  ASSUME NEW t \in Threads, t \in Sleeping, Sleeping' = Sleeping \ {t}
  PROVE  Cardinality(Sleeping') = Cardinality(Sleeping) - 1
  BY SubThreads, FS_RemoveElement DEF Sleeping

LEMMA Counts ==
  /\ Cardinality(Active) \in Nat
  /\ Cardinality(Sleeping) \in Nat
  /\ Cardinality(Outstanding) \in Nat
  /\ IsFiniteSet(Outstanding)
  BY SubThreads, SubChecks DEF Active, Sleeping, Outstanding

\* With nothing to do, nothing is in the queue or in anybody's hands.
LEMMA NothingOutstanding ==
  ASSUME TypeOK, NTodoCounts, nTodo = 0
  PROVE  queue = {} /\ \A t \in Threads : batch[t] = {}
  <1>1. Outstanding = {}
    BY Zenon, Counts, FS_EmptySet DEF NTodoCounts
  <1> QED
    BY <1>1 DEF Outstanding, TypeOK

-------------------------------------------------------------------------------
(* Initial states *)

\* The invariant holds at the start.
LEMMA InitIInv == Init => IInv
  <1> SUFFICES ASSUME Init PROVE IInv
    OBVIOUS
  <1> USE WorkersAssumption, FreeAssumption, SpuriousAssumption DEF Init, Threads
  <1>1. TypeOK
    BY DEF TypeOK, Locations
  <1>2. MutexInv /\ RoleInv /\ BatchInv /\ DisjointInv /\ AddedInv /\ CauseInv
    BY DEF MutexInv, RoleInv, BatchInv, DisjointInv, AddedInv, CauseInv
  <1>3. NoLossInv /\ RestInv /\ VerdictCorrect
    BY Zenon DEF NoLossInv, RestInv, VerdictCorrect
  <1>4. CountInv
    <2>1. Active = {} /\ Sleeping = {}
      BY DEF Active, Sleeping
    <2> QED
      BY <2>1, FS_EmptySet DEF CountInv
  <1>5. NTodoCounts
    <2>1. Outstanding = {}
      BY DEF Outstanding
    <2> QED
      BY <2>1, FS_EmptySet DEF NTodoCounts
  <1> QED
    BY <1>1, <1>2, <1>3, <1>4, <1>5 DEF IInv

-------------------------------------------------------------------------------
(* Steps *)

\* The constructor of the control.
LEMMA ConstructIInv == IInv /\ Construct => IInv'
  <1> SUFFICES ASSUME IInv, Construct PROVE IInv'
    OBVIOUS
  <1> USE DEF Construct, IInv, loopVars
  <1> Master \in Threads /\ \A t \in Workers : t \in Threads /\ t # Master
    BY WorkersAssumption DEF Threads
  <1>0. queue = {} /\ \A t \in Threads : batch[t] = {}
    BY NothingOutstanding DEF RestInv
  <1>1. TypeOK'
    BY DEF TypeOK, Locations
  <1>2. MutexInv' /\ RoleInv' /\ BatchInv' /\ DisjointInv'
    BY DEF TypeOK, MutexInv, RoleInv, BatchInv, DisjointInv
  <1>3. AddedInv' /\ CauseInv' /\ NoLossInv' /\ RestInv' /\ VerdictCorrect'
    BY <1>0 DEF TypeOK, AddedInv, CauseInv, NoLossInv, RestInv, VerdictCorrect, CtorAsserts
  <1>4. CountInv'
    <2>1. Active' = Active /\ Sleeping' = Sleeping
      BY DEF Active, Sleeping, TypeOK
    <2> QED
      BY <2>1 DEF CountInv
  <1>5. NTodoCounts'
    BY DEF NTodoCounts, Outstanding
  <1> QED
    BY <1>1, <1>2, <1>3, <1>4, <1>5

\* CCheckQueue::Add.
LEMMA AddIInv == IInv /\ Add => IInv'
  <1> SUFFICES ASSUME IInv, Add PROVE IInv'
    OBVIOUS
  <1> USE DEF IInv
  <1> Master \in Threads /\ \A t \in Workers : t \in Threads /\ t # Master
    BY WorkersAssumption DEF Threads
  <1>a. PICK S \in SUBSET (Checks \ added) :
          /\ S # {}
          /\ queue' = queue \cup S
          /\ added' = added \cup S
          /\ nTodo' = nTodo + Cardinality(S)
          /\ NotifyWorkers(Cardinality(S))
    BY DEF Add
  <1>b. /\ pc[Master] = "adding" /\ mutex = Free
        /\ UNCHANGED <<mutex, nIdle, nTotal, fAllOk, batch, fOk, ret, interrupted, spurious>>
    BY DEF Add
  \* Only waiting workers move, and they move to "woken".
  <1>c. /\ pc' \in [Threads -> Locations]
        /\ \A t \in Threads : pc'[t] # pc[t] => t \in Workers /\ pc[t] = "wait" /\ pc'[t] = "woken"
    BY <1>a DEF NotifyWorkers, TypeOK, Locations
  <1>d. Cardinality(S) \in Nat /\ IsFiniteSet(S)
    BY SubChecks
  <1>1. TypeOK'
    BY <1>a, <1>b, <1>c, <1>d DEF TypeOK
  <1>2. MutexInv' /\ RoleInv' /\ BatchInv'
    BY <1>b, <1>c DEF MutexInv, RoleInv, BatchInv
  <1>3. DisjointInv'
    BY <1>a, <1>b DEF DisjointInv, AddedInv, TypeOK
  <1>4. AddedInv' /\ CauseInv' /\ RestInv' /\ VerdictCorrect'
    BY <1>a, <1>b, <1>c DEF AddedInv, CauseInv, RestInv, VerdictCorrect, TypeOK
  <1>5. NoLossInv'
    BY <1>a, <1>b, <1>c DEF NoLossInv, TypeOK
  <1>6. CountInv'
    <2>1. Active' = Active /\ Sleeping' = Sleeping
      BY <1>b, <1>c DEF Active, Sleeping
    <2> QED
      BY <2>1, <1>b DEF CountInv
  <1>7. NTodoCounts'
    <2>1. Outstanding' = Outstanding \cup S /\ Outstanding \cap S = {}
      BY <1>a, <1>b DEF Outstanding, AddedInv, TypeOK
    <2>2. Cardinality(Outstanding') = Cardinality(Outstanding) + Cardinality(S)
      BY <2>1, <1>d, Counts, DisjointUnion
    <2> QED
      BY <2>2, <1>a DEF NTodoCounts
  <1> QED
    BY <1>1, <1>2, <1>3, <1>4, <1>5, <1>6, <1>7

\* The call of Wait.
LEMMA CallWaitIInv == IInv /\ CallWait => IInv'
  <1> SUFFICES ASSUME IInv, CallWait PROVE IInv'
    OBVIOUS
  <1> USE DEF CallWait, IInv, loopVars
  <1> Master \in Threads /\ \A t \in Workers : t \in Threads /\ t # Master
    BY WorkersAssumption DEF Threads
  <1>0. batch[Master] = {}
    BY DEF BatchInv
  <1>1. TypeOK'
    BY DEF TypeOK, Locations
  <1>2. MutexInv' /\ RoleInv' /\ BatchInv' /\ DisjointInv' /\ AddedInv' /\ CauseInv'
    BY DEF TypeOK, MutexInv, RoleInv, BatchInv, DisjointInv, AddedInv, CauseInv
  <1>3. NoLossInv' /\ RestInv' /\ VerdictCorrect'
    BY <1>0 DEF TypeOK, NoLossInv, RestInv, VerdictCorrect
  <1>4. CountInv'
    <2>1. Active' = Active /\ Sleeping' = Sleeping
      BY DEF Active, Sleeping, TypeOK
    <2> QED
      BY <2>1 DEF CountInv
  <1>5. NTodoCounts'
    BY DEF NTodoCounts, Outstanding
  <1> QED
    BY <1>1, <1>2, <1>3, <1>4, <1>5

\* A thread enters the critical section of Loop and folds in its verdict.
LEMMA EnterIInv == ASSUME NEW t \in Threads PROVE IInv /\ Enter(t) => IInv'
  <1> SUFFICES ASSUME IInv, Enter(t) PROVE IInv'
    OBVIOUS
  <1> USE DEF IInv
  <1> Master \in Threads /\ \A w \in Workers : w \in Threads /\ w # Master
    BY WorkersAssumption DEF Threads
  <1>a. /\ pc[t] = "enter" /\ mutex = Free /\ mutex' = t
        /\ UNCHANGED <<queue, nIdle, fOk, added, ret, interrupted, spurious>>
    BY DEF Enter, AllOk, TodoAfter, NotifyMaster
  \* The thread moves to the while loop; at most the master is notified as well.
  <1>b. /\ pc' \in [Threads -> Locations]
        /\ pc'[t] = "check"
        /\ \A u \in Threads \ {t} : \/ pc'[u] = pc[u]
                                    \/ u = Master /\ pc[u] = "wait" /\ pc'[u] = "woken"
    BY DEF Enter, AllOk, TodoAfter, NotifyMaster, TypeOK, Locations
  <1>c. Sleeping' = Sleeping
    BY <1>a, <1>b DEF Sleeping
  <1>2. MutexInv' /\ RoleInv'
    BY <1>a, <1>b, FreeAssumption DEF MutexInv, RoleInv
  <1>d. CASE batch[t] # {}
    <2>a. /\ fAllOk' = (fAllOk /\ fOk[t])
          /\ nTodo' = nTodo - Cardinality(batch[t])
          /\ batch' = [batch EXCEPT ![t] = {}]
          /\ UNCHANGED nTotal
      BY <1>d DEF Enter, AllOk, TodoAfter, NotifyMaster
    <2>b. Cardinality(batch[t]) \in Nat /\ IsFiniteSet(batch[t])
      BY SubChecks DEF TypeOK
    <2>c. Active' = Active
      BY <1>a, <1>b, <1>d, <2>a DEF Active, TypeOK
    <2>d. pc[Master] # "out"
      BY <1>d, NothingOutstanding DEF RestInv
    <2>1. NTodoCounts'
      <3>1. batch[t] \in SUBSET Outstanding
        BY DEF Outstanding, TypeOK
      <3>2. Outstanding' = Outstanding \ batch[t]
        BY <1>a, <2>a DEF Outstanding, DisjointInv, TypeOK
      <3>3. Cardinality(Outstanding') = Cardinality(Outstanding) - Cardinality(batch[t])
        BY <3>1, <3>2, Counts, SubsetDifference
      <3> QED
        BY <3>3, <2>a DEF NTodoCounts
    <2>2. TypeOK'
      <3>1. nTodo' \in Nat
        <4>1. Cardinality(Outstanding') \in Nat
          BY SubChecks DEF Outstanding
        <4> QED
          BY <4>1, <2>1 DEF NTodoCounts
      <3> QED
        BY <3>1, <1>a, <1>b, <2>a DEF TypeOK
    <2>3. BatchInv' /\ DisjointInv' /\ AddedInv'
      BY <1>a, <1>b, <1>d, <2>a DEF TypeOK, BatchInv, DisjointInv, AddedInv
    <2>4. CauseInv' /\ RestInv' /\ VerdictCorrect'
      BY <1>a, <1>b, <1>d, <2>a, <2>d DEF TypeOK, CauseInv, RestInv, VerdictCorrect
    <2>5. NoLossInv'
      <3> SUFFICES ASSUME NEW b \in added \cap BadChecks, b \notin queue, fAllOk, fOk[t]
                   PROVE  \E u \in Threads : b \in batch'[u] /\ (pc'[u] = "enter" => ~fOk[u])
        BY <1>a, <2>a DEF NoLossInv, TypeOK
      <3>1. PICK u \in Threads : b \in batch[u] /\ (pc[u] = "enter" => ~fOk[u])
        BY <2>d DEF NoLossInv
      <3>2. u # t
        BY <3>1, <1>a
      <3>3. batch'[u] = batch[u] /\ (pc'[u] = "enter" => pc[u] = "enter")
        BY <3>2, <1>b, <2>a DEF TypeOK
      <3> QED
        BY <3>1, <3>3
    <2>6. CountInv'
      BY <1>a, <1>c, <2>a, <2>c DEF CountInv
    <2> QED
      BY <1>2, <2>1, <2>2, <2>3, <2>4, <2>5, <2>6
  <1>e. CASE batch[t] = {}
    <2>a. nTotal' = nTotal + 1 /\ UNCHANGED <<fAllOk, nTodo, batch>>
      BY <1>e DEF Enter, AllOk, TodoAfter, NotifyMaster
    <2>b. pc' = [pc EXCEPT ![t] = "check"]
      BY <1>e DEF Enter, AllOk, TodoAfter, NotifyMaster
    <2>1. TypeOK'
      BY <1>a, <1>b, <2>a DEF TypeOK
    <2>2. BatchInv' /\ DisjointInv' /\ AddedInv'
      BY <1>a, <1>b, <1>e, <2>a DEF TypeOK, BatchInv, DisjointInv, AddedInv
    <2>3. CauseInv' /\ RestInv' /\ VerdictCorrect'
      BY <1>a, <1>b, <1>e, <2>a DEF TypeOK, CauseInv, RestInv, VerdictCorrect
    <2>4. NoLossInv'
      BY <1>a, <1>e, <2>a, <2>b DEF TypeOK, NoLossInv
    <2>5. CountInv'
      <3>1. t \notin Active /\ Active' = Active \cup {t}
        BY <1>a, <1>e, <2>a, <2>b DEF Active, TypeOK
      <3>2. Cardinality(Active') = Cardinality(Active) + 1
        BY <3>1, ActiveGains
      <3> QED
        BY <3>2, <1>a, <1>c, <2>a, Counts DEF CountInv, TypeOK
    <2>6. NTodoCounts'
      BY <1>a, <2>a DEF NTodoCounts, Outstanding
    <2> QED
      BY <1>2, <2>1, <2>2, <2>3, <2>4, <2>5, <2>6
  <1> QED
    BY <1>d, <1>e

\* The master leaves Loop.
LEMMA ExitIInv == ASSUME NEW t \in Threads PROVE IInv /\ Exit(t) => IInv'
  <1> SUFFICES ASSUME IInv, Exit(t) PROVE IInv'
    OBVIOUS
  <1> USE DEF IInv, Exit, ResetStatus
  <1> Master \in Threads /\ \A w \in Workers : w \in Threads /\ w # Master
    BY WorkersAssumption DEF Threads
  <1>a. queue = {} /\ \A u \in Threads : batch[u] = {}
    BY NothingOutstanding
  <1>1. CountInv'
    <2>1. t \in Active /\ Active' = Active \ {t} /\ Sleeping' = Sleeping
      BY <1>a DEF Active, Sleeping, TypeOK
    <2>2. Cardinality(Active') = Cardinality(Active) - 1
      BY <2>1, ActiveLoses
    <2> QED
      BY <2>1, <2>2, Counts DEF CountInv, TypeOK
  <1>2. TypeOK'
    <2>1. Cardinality(Active') \in Nat
      BY SubThreads DEF Active
    <2>2. nTotal' \in Nat
      BY <1>1, <2>1 DEF CountInv, TypeOK
    <2> QED
      BY <2>2 DEF TypeOK, Locations
  <1>3. MutexInv' /\ RoleInv' /\ BatchInv' /\ DisjointInv' /\ AddedInv' /\ CauseInv'
    BY <1>a, FreeAssumption
    DEF TypeOK, MutexInv, RoleInv, BatchInv, DisjointInv, AddedInv, CauseInv
  <1>4. NoLossInv' /\ RestInv'
    BY DEF TypeOK, NoLossInv, RestInv
  <1>5. VerdictCorrect'
    BY <1>a DEF TypeOK, VerdictCorrect, NoLossInv, CauseInv
  <1>6. NTodoCounts'
    BY DEF NTodoCounts, Outstanding
  <1> QED
    BY <1>1, <1>2, <1>3, <1>4, <1>5, <1>6

\* A thread goes to sleep.
LEMMA SleepIInv == ASSUME NEW t \in Threads PROVE IInv /\ Sleep(t) => IInv'
  <1> SUFFICES ASSUME IInv, Sleep(t) PROVE IInv'
    OBVIOUS
  <1> USE DEF IInv, Sleep
  <1> Master \in Threads /\ \A w \in Workers : w \in Threads /\ w # Master
    BY WorkersAssumption DEF Threads
  <1>a. batch[t] = {}
    BY DEF BatchInv
  <1>1. TypeOK'
    BY DEF TypeOK, Locations
  <1>2. CountInv'
    <2>1. /\ t \in Active /\ Active' = Active \ {t}
          /\ t \notin Sleeping /\ Sleeping' = Sleeping \cup {t}
      BY <1>a DEF Active, Sleeping, TypeOK
    <2>2. Cardinality(Active') = Cardinality(Active) - 1
      BY <2>1, ActiveLoses
    <2>3. Cardinality(Sleeping') = Cardinality(Sleeping) + 1
      BY <2>1, SleepingGains
    <2> QED
      BY <2>2, <2>3, Counts DEF CountInv, TypeOK
  <1>3. MutexInv' /\ RoleInv' /\ BatchInv' /\ DisjointInv' /\ AddedInv' /\ CauseInv'
    BY <1>a, FreeAssumption
    DEF TypeOK, MutexInv, RoleInv, BatchInv, DisjointInv, AddedInv, CauseInv
  <1>4. NoLossInv' /\ RestInv' /\ VerdictCorrect'
    BY <1>a DEF TypeOK, NoLossInv, RestInv, VerdictCorrect
  <1>5. NTodoCounts'
    BY DEF NTodoCounts, Outstanding
  <1> QED
    BY <1>1, <1>2, <1>3, <1>4, <1>5

\* A thread takes a batch.
LEMMA TakeIInv == ASSUME NEW t \in Threads PROVE IInv /\ Take(t) => IInv'
  <1> SUFFICES ASSUME IInv, Take(t) PROVE IInv'
    OBVIOUS
  <1> USE DEF IInv
  <1> Master \in Threads /\ \A w \in Workers : w \in Threads /\ w # Master
    BY WorkersAssumption DEF Threads
  <1>a. PICK B \in SUBSET queue :
          /\ Cardinality(B) = NumNow
          /\ batch' = [batch EXCEPT ![t] = B]
          /\ queue' = queue \ B
    BY Zenon DEF Take
  <1>b. /\ pc[t] = "check" /\ pc' = [pc EXCEPT ![t] = "work"] /\ mutex' = Free
        /\ fOk' = [fOk EXCEPT ![t] = fAllOk]
        /\ UNCHANGED <<nIdle, nTotal, fAllOk, nTodo, added, ret, interrupted, spurious>>
    BY DEF Take
  <1>c. B # {}
    BY <1>a, NumNowPositive, FS_EmptySet
  <1>d. batch[t] = {}
    BY <1>b DEF BatchInv
  <1>1. TypeOK'
    BY <1>a, <1>b DEF TypeOK, Locations
  <1>2. MutexInv' /\ RoleInv' /\ BatchInv'
    BY <1>a, <1>b, <1>c, FreeAssumption DEF TypeOK, MutexInv, RoleInv, BatchInv
  <1>3. DisjointInv'
    BY <1>a, <1>b DEF TypeOK, DisjointInv
  <1>4. AddedInv' /\ CauseInv' /\ RestInv' /\ VerdictCorrect'
    BY <1>a, <1>b DEF TypeOK, AddedInv, CauseInv, RestInv, VerdictCorrect
  <1>5. NoLossInv'
    BY <1>a, <1>b, <1>d DEF TypeOK, NoLossInv
  <1>6. CountInv'
    <2>1. Active' = Active /\ Sleeping' = Sleeping
      BY <1>a, <1>b, <1>c DEF Active, Sleeping, TypeOK
    <2> QED
      BY <2>1, <1>b DEF CountInv
  <1>7. NTodoCounts'
    <2>1. Outstanding' = Outstanding
      BY <1>a, <1>d DEF Outstanding, TypeOK
    <2> QED
      BY <2>1, <1>b DEF NTodoCounts
  <1> QED
    BY <1>1, <1>2, <1>3, <1>4, <1>5, <1>6, <1>7

\* A thread runs its batch.
LEMMA WorkIInv == ASSUME NEW t \in Threads PROVE IInv /\ Work(t) => IInv'
  <1> SUFFICES ASSUME IInv, Work(t) PROVE IInv'
    OBVIOUS
  <1> USE DEF IInv, Work, AfterWork, loopVars
  <1> Master \in Threads /\ \A w \in Workers : w \in Threads /\ w # Master
    BY WorkersAssumption DEF Threads
  <1>1. TypeOK'
    BY DEF TypeOK, Locations
  <1>2. MutexInv' /\ RoleInv' /\ BatchInv' /\ DisjointInv'
    BY DEF TypeOK, MutexInv, RoleInv, BatchInv, DisjointInv
  <1>3. AddedInv' /\ CauseInv' /\ RestInv' /\ VerdictCorrect'
    BY DEF TypeOK, AddedInv, CauseInv, RestInv, VerdictCorrect
  <1>4. NoLossInv'
    <2> SUFFICES ASSUME pc[Master] # "out", NEW b \in added \cap BadChecks, b \notin queue, fAllOk
                 PROVE  \E u \in Threads : b \in batch[u] /\ (pc'[u] = "enter" => ~fOk'[u])
      BY DEF NoLossInv, TypeOK
    <2>1. PICK u \in Threads : b \in batch[u] /\ (pc[u] = "enter" => ~fOk[u])
      BY DEF NoLossInv
    <2>2. pc'[u] = "enter" => ~fOk'[u]
      BY Zenon, <2>1 DEF TypeOK
    <2> QED
      BY <2>1, <2>2
  <1>5. CountInv'
    <2>1. Active' = Active /\ Sleeping' = Sleeping
      BY DEF Active, Sleeping, TypeOK
    <2> QED
      BY <2>1 DEF CountInv
  <1>6. NTodoCounts'
    BY DEF NTodoCounts, Outstanding
  <1> QED
    BY <1>1, <1>2, <1>3, <1>4, <1>5, <1>6

\* A thread wakes up.
LEMMA WakeIInv == ASSUME NEW t \in Threads PROVE IInv /\ Wake(t) => IInv'
  <1> SUFFICES ASSUME IInv, Wake(t) PROVE IInv'
    OBVIOUS
  <1> USE DEF IInv, Wake
  <1> Master \in Threads /\ \A w \in Workers : w \in Threads /\ w # Master
    BY WorkersAssumption DEF Threads
  <1>a. batch[t] = {}
    BY DEF BatchInv
  <1>1. CountInv'
    <2>1. /\ t \notin Active /\ Active' = Active \cup {t}
          /\ t \in Sleeping /\ Sleeping' = Sleeping \ {t}
      BY <1>a DEF Active, Sleeping, TypeOK
    <2>2. Cardinality(Active') = Cardinality(Active) + 1
      BY <2>1, ActiveGains
    <2>3. Cardinality(Sleeping') = Cardinality(Sleeping) - 1
      BY <2>1, SleepingLoses
    <2> QED
      BY <2>2, <2>3, Counts DEF CountInv, TypeOK
  <1>2. TypeOK'
    <2>1. Cardinality(Sleeping') \in Nat
      BY SubThreads DEF Sleeping
    <2>2. nIdle' \in Nat
      BY <1>1, <2>1 DEF CountInv, TypeOK
    <2> QED
      BY <2>2 DEF TypeOK, Locations
  <1>3. MutexInv' /\ RoleInv' /\ BatchInv' /\ DisjointInv' /\ AddedInv' /\ CauseInv'
    BY <1>a, FreeAssumption
    DEF TypeOK, MutexInv, RoleInv, BatchInv, DisjointInv, AddedInv, CauseInv
  <1>4. NoLossInv' /\ RestInv' /\ VerdictCorrect'
    BY <1>a DEF TypeOK, NoLossInv, RestInv, VerdictCorrect
  <1>5. NTodoCounts'
    BY DEF NTodoCounts, Outstanding
  <1> QED
    BY <1>1, <1>2, <1>3, <1>4, <1>5

\* A thread leaves cond.wait without the mutex: a spurious wake-up or an interruption.
LEMMA LeaveWaitIInv ==
  ASSUME NEW t \in Threads PROVE IInv /\ (SpuriousWakeup(t) \/ Interrupt(t)) => IInv'
  <1> SUFFICES ASSUME IInv, SpuriousWakeup(t) \/ Interrupt(t) PROVE IInv'
    OBVIOUS
  <1> USE DEF IInv
  <1> Master \in Threads /\ \A w \in Workers : w \in Threads /\ w # Master
    BY WorkersAssumption DEF Threads
  <1>c. /\ pc[t] \in {"wait", "woken"}
        /\ \E l \in {"woken", "enter", "gone"} :
             /\ l = "gone" => t # Master
             /\ pc' = [pc EXCEPT ![t] = l]
        /\ UNCHANGED <<mutex, queue, nIdle, nTotal, fAllOk, nTodo, batch, fOk, added, ret>>
    <2>1. CASE SpuriousWakeup(t)
      BY <2>1 DEF SpuriousWakeup, loopVars
    <2>2. CASE Interrupt(t)
      BY Zenon, <2>2 DEF Interrupt, AfterInterrupt, loopVars
    <2> QED
      BY <2>1, <2>2
  <1>d. interrupted' \in SUBSET Threads /\ spurious' \in 0 .. MaxSpurious
    <2>1. CASE SpuriousWakeup(t)
      BY <2>1, SpuriousAssumption DEF SpuriousWakeup, TypeOK
    <2>2. CASE Interrupt(t)
      BY <2>2 DEF Interrupt, TypeOK
    <2> QED
      BY <2>1, <2>2
  <1>e. PICK l \in {"woken", "enter", "gone"} : (l = "gone" => t # Master) /\ pc' = [pc EXCEPT ![t] = l]
    BY Zenon, <1>c
  <1>f. pc \in [Threads -> Locations]
    BY DEF TypeOK
  <1>a. batch[t] = {} /\ pc[t] \in {"wait", "woken"} /\ pc' \in [Threads -> Locations]
    <2>1. batch[t] = {}
      BY Zenon, <1>c DEF BatchInv
    <2>2. pc' \in [Threads -> Locations]
      BY <1>e, <1>f DEF Locations
    <2> QED
      BY <1>c, <2>1, <2>2
  <1>b. /\ pc'[t] \in {"woken", "enter", "gone"}
        /\ pc'[t] = "gone" => t # Master
        /\ \A u \in Threads \ {t} : pc'[u] = pc[u]
        /\ UNCHANGED <<mutex, queue, nIdle, nTotal, fAllOk, nTodo, batch, fOk, added, ret>>
    BY <1>c, <1>e, <1>f
  <1>1. TypeOK'
    BY <1>a, <1>b, <1>d DEF TypeOK
  <1>2. MutexInv' /\ RoleInv' /\ BatchInv' /\ DisjointInv' /\ AddedInv' /\ CauseInv'
    <2>1. MutexInv'
      BY <1>a, <1>b DEF MutexInv
    <2>2. RoleInv'
      BY <1>a, <1>b DEF RoleInv
    <2>3. BatchInv'
      BY <1>a, <1>b DEF BatchInv
    <2>4. DisjointInv' /\ AddedInv'
      BY <1>b DEF DisjointInv, AddedInv
    <2>5. CauseInv'
      BY <1>b DEF CauseInv
    <2> QED
      BY <2>1, <2>2, <2>3, <2>4, <2>5
  <1>3. NoLossInv' /\ RestInv' /\ VerdictCorrect'
    BY <1>a, <1>b DEF NoLossInv, RestInv, VerdictCorrect
  <1>4. CountInv'
    <2>1. Active' = Active
      BY Zenon, <1>a, <1>b DEF Active
    <2>2. Sleeping' = Sleeping \/ (t \in Sleeping /\ Sleeping' = Sleeping \ {t})
      BY <1>a, <1>b DEF Sleeping
    <2>3. Cardinality(Sleeping') <= Cardinality(Sleeping)
      BY <2>2, SleepingLoses, Counts
    <2>4. Cardinality(Sleeping') \in Nat
      BY SubThreads DEF Sleeping
    <2> QED
      BY <1>b, <2>1, <2>3, <2>4, Counts DEF CountInv, TypeOK
  <1>5. NTodoCounts'
    BY <1>b DEF NTodoCounts, Outstanding
  <1> QED
    BY <1>1, <1>2, <1>3, <1>4, <1>5

\* Every step keeps the invariant.
LEMMA NextIInv == IInv /\ [Next]_vars => IInv'
  <1> SUFFICES ASSUME IInv, [Next]_vars PROVE IInv'
    OBVIOUS
  <1>1. CASE UNCHANGED vars
    BY <1>1 DEF vars, IInv, TypeOK, MutexInv, RoleInv, BatchInv, DisjointInv, AddedInv, CauseInv,
                NoLossInv, RestInv, CountInv, Active, Sleeping, NTodoCounts, Outstanding,
                VerdictCorrect
  <1>2. CASE Construct \/ Add \/ CallWait
    BY <1>2, ConstructIInv, AddIInv, CallWaitIInv
  <1>3. ASSUME NEW t \in Threads, Step(t) \/ SpuriousWakeup(t) \/ Interrupt(t)
        PROVE  IInv'
    BY <1>3, EnterIInv, ExitIInv, SleepIInv, TakeIInv, WorkIInv, WakeIInv, LeaveWaitIInv DEF Step
  <1> QED
    BY <1>1, <1>2, <1>3 DEF Next

-------------------------------------------------------------------------------
(* Theorems *)

\* The inductive invariant holds in every reachable state of Loop, Add and the control object.
THEOREM Invariance == Spec => []IInv
  BY InitIInv, NextIInv, PTL DEF Spec

\* The counters of CCheckQueue stay natural numbers: the unsigned nTodo never wraps below
\* zero in Loop, and nIdle and nTotal never go negative.
THEOREM TypeCorrect == Spec => []TypeOK
  <1>1. IInv => TypeOK
    BY DEF IInv
  <1> QED
    BY <1>1, Invariance, PTL

\* nTodo counts the checks in the queue and in the batches of all threads.
THEOREM TodoExact == Spec => []NTodoCounts
  <1>1. IInv => NTodoCounts
    BY DEF IInv
  <1> QED
    BY <1>1, Invariance, PTL

\* Wait answers TRUE exactly when every added check is good, for any number of workers,
\* any batch size and any interleaving.
THEOREM VerdictIsCorrect == Spec => []VerdictCorrect
  <1>1. IInv => VerdictCorrect
    BY DEF IInv
  <1> QED
    BY <1>1, Invariance, PTL

\* Between two blocks, seen under the mutex, all threads are idle and nothing is left to do.
THEOREM IdleIsRestored == Spec => []IdleBetweenBlocks
  <1>1. IInv => IdleBetweenBlocks
    <2> SUFFICES ASSUME IInv, pc[Master] = "out", mutex = Free PROVE CtorAsserts
      BY DEF IdleBetweenBlocks
    <2>1. nTodo = 0 /\ fAllOk
      BY DEF IInv, RestInv
    <2>2. \A t \in Threads : batch[t] = {}
      BY Zenon, <2>1, NothingOutstanding DEF IInv
    <2>3. Active = {}
      BY <2>2, FreeAssumption DEF Active, IInv, MutexInv
    <2>4. Cardinality(Active) = 0
      BY <2>3, FS_EmptySet
    <2> QED
      BY <2>1, <2>4 DEF CtorAsserts, IInv, CountInv, TypeOK
  <1> QED
    BY <1>1, Invariance, PTL

\* The thread pool implements the promise made to its caller: construct, add, wait, answer.
THEOREM ImplementsCheckBatch == Spec => AbsSpec
  <1> DEFINE ph == CASE pc[Master] = "out" -> "out"
                     [] pc[Master] = "adding" -> "adding"
                     [] OTHER -> "waiting"
  <1> Master \in Threads /\ \A w \in Workers : w \in Threads /\ w # Master
    BY WorkersAssumption DEF Threads
  <1>1. Init => Abs!Init
    BY DEF Init, Abs!Init
  <1>2. IInv /\ IInv' /\ [Next]_vars => [Abs!Next]_(Abs!vars)
    <2> SUFFICES ASSUME IInv, IInv', [Next]_vars PROVE [Abs!Next]_(Abs!vars)
      OBVIOUS
    <2> USE DEF Abs!Next, Abs!vars
    <2>1. CASE UNCHANGED vars
      BY <2>1 DEF vars
    <2>2. CASE Construct
      BY <2>2 DEF Construct, Abs!Construct, IInv, TypeOK
    <2>3. CASE Add
      <3>1. pc'[Master] = pc[Master] /\ pc[Master] = "adding" /\ ret' = ret
        BY <2>3 DEF Add, NotifyWorkers, IInv, TypeOK
      <3>2. added' \in SUBSET Checks /\ added \subseteq added'
        BY <2>3 DEF Add, IInv, TypeOK
      <3> QED
        BY <3>1, <3>2 DEF Abs!Add
    <2>4. CASE CallWait
      BY <2>4 DEF CallWait, Abs!Wait, IInv, TypeOK
    <2>5. ASSUME NEW t \in Threads, Exit(t) PROVE Abs!Return
      <3>1. pc[Master] = "check" /\ pc'[Master] = "out" /\ added' = added
        BY <2>5 DEF Exit, ResetStatus, IInv, TypeOK
      <3>2. ret' = (added \cap BadChecks = {})
        BY <3>1 DEF IInv, VerdictCorrect
      <3> QED
        BY <3>1, <3>2 DEF Abs!Return, Abs!AllGood
    <2>6. ASSUME NEW t \in Threads,
                 \/ Enter(t) \/ Sleep(t) \/ Take(t) \/ Work(t) \/ Wake(t)
                 \/ SpuriousWakeup(t) \/ Interrupt(t)
          PROVE  UNCHANGED Abs!vars
      <3>1. added' = added /\ ret' = ret
        BY <2>6 DEF Enter, AllOk, TodoAfter, NotifyMaster, Sleep, Take, Work, AfterWork, Wake, SpuriousWakeup, Interrupt, AfterInterrupt
      <3>2. \/ pc'[Master] = pc[Master]
            \/ pc[Master] \notin {"out", "adding"} /\ pc'[Master] \notin {"out", "adding"}
        BY Zenon, <2>6 DEF Enter, AllOk, TodoAfter, NotifyMaster, Sleep, Take, Work, AfterWork, Wake, SpuriousWakeup, Interrupt, AfterInterrupt, IInv, TypeOK
      <3> QED
        BY <3>1, <3>2
    <2> QED
      BY <2>1, <2>2, <2>3, <2>4, <2>5, <2>6 DEF Next, Step
  <1> QED
    BY <1>1, <1>2, Invariance, PTL DEF Spec, AbsSpec, Abs!Spec
===============================================================================

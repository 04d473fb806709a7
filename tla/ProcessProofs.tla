----------------------------- MODULE ProcessProofs -----------------------------
(***************************************************************************)
(* What MCProcess checks on three goroutines, for every finite set of      *)
(* goroutines, every set of threads, and every size of the arena.          *)
(*                                                                         *)
(* A behaviour of the process is a behaviour of each of its four parts     *)
(* (Projection), so an invariant of a part is one of the process.  None of *)
(* the parts' properties is inductive; BudgetInv, HeapInv, MemoInv and     *)
(* ErrsInv add what a goroutine in the middle of a call knows.             *)
(***************************************************************************)
EXTENDS MCProcess, FiniteSetTheorems, TLAPS

-----------------------------------------------------------------------------
(* The thread budget.  That a goroutine about to derive has its budget      *)
(* follows from what it knew when it released the mutex, and what it read   *)
(* stays true only because nobody else is between a read and a set.         *)

Critical == {"read", "set", "unlock"}

(* The mutex is held exactly between Lock and Unlock.                       *)
MutexHeld == \A g \in Goroutines : pc[g] \in Critical <=> mutex = g

(* What a goroutine has learnt about the budget, step by step.              *)
Knowledge ==
  \A g \in Goroutines :
    /\ pc[g] = "set" => budget < lanes[g]
    /\ pc[g] = "unlock" => reply[g] = "notRaised" \/ budget >= lanes[g]
    /\ pc[g] = "derive" => lanes[g] = 1 \/ budget >= lanes[g]

BudgetInv == TypeOK /\ MutexHeld /\ Knowledge

(* The initial states satisfy the invariant.                                *)
LEMMA BudgetInit == Init => BudgetInv
  BY NobodyAssumption, LanesAssumption
  DEF Init, BudgetInv, TypeOK, Steps, Replies, MutexHeld, Critical, Knowledge

(* Every step preserves it.                                                 *)
LEMMA BudgetNext == BudgetInv /\ [Next]_vars => BudgetInv'
<1> USE NobodyAssumption, LanesAssumption, RequestsAssumption
<1> SUFFICES ASSUME BudgetInv, [Next]_vars PROVE BudgetInv'
  OBVIOUS
<1> USE DEF BudgetInv, TypeOK, Steps, Replies, MutexHeld, Critical, Knowledge, Goto, Return
<1>1. ASSUME NEW g \in Goroutines, NEW n \in Requests, Refuse(g, n) PROVE BudgetInv'
  BY <1>1 DEF Refuse
<1>2. ASSUME NEW g \in Goroutines, NEW n \in Requests, Begin(g, n) PROVE BudgetInv'
  <2>1. lanes'[g] \in 1..MaxLanes /\ (n <= 1 => lanes'[g] = 1)
    BY <1>2 DEF Begin
  <2>2. TypeOK'
    BY <1>2, <2>1 DEF Begin
  <2>3. MutexHeld'
    BY <1>2 DEF Begin
  <2>4. Knowledge'
    BY <1>2, <2>1 DEF Begin
  <2>5. QED
    BY <2>2, <2>3, <2>4
<1>3. ASSUME NEW g \in Goroutines, Lock(g) PROVE BudgetInv'
  BY <1>3 DEF Lock
<1>4. ASSUME NEW g \in Goroutines, ReadBudget(g) PROVE BudgetInv'
  BY <1>4 DEF ReadBudget
<1>5. ASSUME NEW g \in Goroutines, SetBudget(g) PROVE BudgetInv'
  <2>1. CASE budget' = lanes[g] /\ UNCHANGED reply
    BY <1>5, <2>1 DEF SetBudget
  <2>2. CASE Return(g, "notRaised") /\ UNCHANGED budget
    BY <1>5, <2>2 DEF SetBudget
  <2>3. QED
    BY <1>5, <2>1, <2>2 DEF SetBudget
<1>6. ASSUME NEW g \in Goroutines, Unlock(g) PROVE BudgetInv'
  BY <1>6 DEF Unlock
<1>7. ASSUME NEW g \in Goroutines, Derive(g) PROVE BudgetInv'
  BY <1>7 DEF Derive
<1>8. CASE UNCHANGED vars
  BY <1>8 DEF vars
<1>9. QED
  BY <1>1, <1>2, <1>3, <1>4, <1>5, <1>6, <1>7, <1>8 DEF Next, Step

(* No step lowers the budget (kdf.go:224).                                  *)
LEMMA BudgetRises == BudgetInv /\ [Next]_vars => [budget' >= budget]_vars
<1> SUFFICES ASSUME BudgetInv, Next PROVE budget' >= budget
  BY DEF vars
<1> USE DEF BudgetInv, TypeOK, Knowledge, Goto
<1>1. ASSUME NEW g \in Goroutines, SetBudget(g) PROVE budget' >= budget
  BY <1>1 DEF SetBudget
<1>2. ASSUME NEW g \in Goroutines,
             \/ \E n \in Requests : Refuse(g, n) \/ Begin(g, n)
             \/ Lock(g) \/ ReadBudget(g) \/ Unlock(g) \/ Derive(g)
      PROVE budget' >= budget
  BY <1>2 DEF Refuse, Begin, Lock, ReadBudget, Unlock, Derive
<1>3. QED
  BY <1>1, <1>2 DEF Next, Step

-----------------------------------------------------------------------------
(* The secure heap.                                                         *)

Secured(f) == {g \in Goroutines : f[g] = "secure"}

(* secureHeapMu is held exactly between LockHeap and UnlockHeap.            *)
HeapMutexHeld ==
  \A g \in Goroutines :
    heapPc[g] \in {"initCheck", "init", "done", "unlock"} <=> heapMu = g

(* A goroutine makes a buffer only if it has none, and has memory of its    *)
(* own only between the allocation and the check of it.                     *)
OneBufferEach ==
  \A g \in Goroutines :
    /\ heapPc[g] \in {"alloc", "verify"} => buf[g] = "none"
    /\ fresh[g] # "none" => heapPc[g] = "verify"
    /\ buf[g] # "ordinary"

(* An arena with allocations is not torn down.                              *)
UsedArenaStays == used > 0 => arena

HeapInv ==
  /\ Heap!TypeOK
  /\ HeapMutexHeld
  /\ OneBufferEach
  /\ UsedArenaStays
  /\ Heap!ArenaBalance
  /\ Heap!InitialisedOnce

(* Counting: writing one entry changes the number of secure entries by at   *)
(* most one.                                                                *)
LEMMA SecuredCount ==
  ASSUME NEW f \in [Goroutines -> Heap!Memory], NEW g \in Goroutines,
         NEW m \in Heap!Memory
  PROVE  LET n == Cardinality(Secured(f))
             k == Cardinality(Secured([f EXCEPT ![g] = m]))
         IN  /\ n \in Nat
             /\ f[g] = "secure" => n > 0
             /\ k = IF m = "secure" /\ f[g] # "secure" THEN n + 1
                    ELSE IF m # "secure" /\ f[g] = "secure" THEN n - 1
                    ELSE n
<1> DEFINE S == Secured(f)
           T == Secured([f EXCEPT ![g] = m])
<1>1. IsFiniteSet(S)
  BY GoroutinesAssumption, FS_Subset DEF Secured
<1>2. Cardinality(S) \in Nat
  BY <1>1, FS_CardinalityType
<1>3. f[g] = "secure" => Cardinality(S) > 0
  <2>1. f[g] = "secure" => S # {}
    BY DEF Secured
  <2>2. QED
    BY <1>1, <1>2, <2>1, FS_EmptySet
<1>4. CASE m = "secure"
  <2>1. T = S \cup {g} /\ (g \in S <=> f[g] = "secure")
    BY <1>4 DEF Secured
  <2>2. QED
    BY <1>1, <1>2, <1>3, <1>4, <2>1, FS_AddElement
<1>5. CASE m # "secure"
  <2>1. T = S \ {g} /\ (g \in S <=> f[g] = "secure")
    BY <1>5 DEF Secured
  <2>2. QED
    BY <1>1, <1>2, <1>3, <1>5, <2>1, FS_RemoveElement
<1>6. QED
  BY <1>4, <1>5

(* The arena's counter in terms of Secured, before a step and after it.     *)
LEMMA BalanceIsSecured ==
  /\ Heap!ArenaBalance <=>
       used = Cardinality(Secured(buf)) + Cardinality(Secured(fresh))
  /\ Heap!ArenaBalance' <=>
       used' = Cardinality(Secured(buf')) + Cardinality(Secured(fresh'))
  BY DEF Heap!ArenaBalance, Secured, Heap!Cardinality, Cardinality

(* The heap starts without an arena, and with nothing allocated.            *)
LEMMA HeapInit == Heap!Init => HeapInv
<1> SUFFICES ASSUME Heap!Init PROVE HeapInv
  OBVIOUS
<1> USE NobodyAssumption, SlotsAssumption DEF Heap!Init
<1>1. Heap!TypeOK
  <2>1. arena \in BOOLEAN
    OBVIOUS
  <2>2. QED
    BY <2>1 DEF Heap!TypeOK, Heap!Steps, Heap!Memory
<1>2. Secured(buf) = {} /\ Secured(fresh) = {}
  BY DEF Secured
<1>3. Heap!ArenaBalance
  BY <1>2, BalanceIsSecured, FS_EmptySet
<1>4. QED
  BY <1>1, <1>3
  DEF HeapInv, HeapMutexHeld, OneBufferEach, UsedArenaStays, Heap!InitialisedOnce

(* Closing takes a secure buffer, so there is something to take off.        *)
LEMMA CloseFreesSecure ==
  ASSUME HeapInv, NEW g \in Goroutines, Heap!Close(g)
  PROVE  buf[g] = "secure" /\ used > 0
<1>1. buf[g] = "secure" /\ buf \in [Goroutines -> Heap!Memory]
         /\ fresh \in [Goroutines -> Heap!Memory]
  BY DEF HeapInv, Heap!TypeOK, Heap!Memory, OneBufferEach, Heap!Close
<1>2. "none" \in Heap!Memory
  BY DEF Heap!Memory
<1>3. Cardinality(Secured(buf)) \in Nat /\ Cardinality(Secured(buf)) > 0
  BY <1>1, <1>2, SecuredCount
<1>4. Cardinality(Secured(fresh)) \in Nat
  BY <1>1, <1>2, SecuredCount
<1>5. QED
  BY <1>1, <1>3, <1>4, BalanceIsSecured DEF HeapInv

(* No step loses a slot of the arena or frees one twice.                    *)
LEMMA BalanceNext == HeapInv /\ [Heap!Next]_heapVars => Heap!ArenaBalance'
<1> SUFFICES ASSUME HeapInv, [Heap!Next]_heapVars PROVE Heap!ArenaBalance'
  OBVIOUS
<1> DEFINE b == Cardinality(Secured(buf))
           f == Cardinality(Secured(fresh))
<1>1. /\ buf \in [Goroutines -> Heap!Memory] /\ fresh \in [Goroutines -> Heap!Memory]
      /\ {"none", "secure", "ordinary"} \subseteq Heap!Memory
  BY DEF HeapInv, Heap!TypeOK, Heap!Memory
<1>2. used = b + f
  BY BalanceIsSecured DEF HeapInv
<1>3. CASE UNCHANGED <<used, buf, fresh>>
  BY <1>2, <1>3, BalanceIsSecured
<1>4. ASSUME NEW g \in Goroutines, Heap!Allocate(g) PROVE Heap!ArenaBalance'
  <2>1. fresh[g] = "none"
    BY <1>4 DEF HeapInv, OneBufferEach, Heap!Allocate, Heap!Goto
  <2>2. ASSUME fresh' = [fresh EXCEPT ![g] = "secure"], used' = used + 1, buf' = buf
        PROVE Heap!ArenaBalance'
    <3>1. Cardinality(Secured(fresh')) = f + 1 /\ f \in Nat
      BY <1>1, <2>1, <2>2, SecuredCount
    <3>2. b \in Nat
      BY <1>1, SecuredCount
    <3>3. QED
      BY <1>2, <2>2, <3>1, <3>2, BalanceIsSecured
  <2>3. ASSUME fresh' = [fresh EXCEPT ![g] = "ordinary"], used' = used, buf' = buf
        PROVE Heap!ArenaBalance'
    <3>1. Cardinality(Secured(fresh')) = f
      BY <1>1, <2>1, <2>3, SecuredCount
    <3>2. QED
      BY <1>2, <2>3, <3>1, BalanceIsSecured
  <2>4. QED
    BY <1>3, <1>4, <2>2, <2>3 DEF Heap!Allocate
<1>5. ASSUME NEW g \in Goroutines, Heap!Verify(g) PROVE Heap!ArenaBalance'
  <2> DEFINE m == IF fresh[g] = "secure" THEN "secure" ELSE "none"
  <2>1. /\ buf' = [buf EXCEPT ![g] = m] /\ fresh' = [fresh EXCEPT ![g] = "none"]
        /\ buf[g] = "none" /\ used' = used
    BY <1>5 DEF HeapInv, OneBufferEach, Heap!Verify, Heap!Goto
  <2>2. Cardinality(Secured(buf')) = IF m = "secure" THEN b + 1 ELSE b
    <3>1. m \in Heap!Memory
      BY <1>1
    <3>2. QED
      BY <1>1, <2>1, <3>1, SecuredCount
  <2>3. Cardinality(Secured(fresh')) = IF m = "secure" THEN f - 1 ELSE f
    <3>1. Cardinality(Secured([fresh EXCEPT ![g] = "none"]))
            = IF fresh[g] = "secure" THEN f - 1 ELSE f
      BY <1>1, SecuredCount
    <3>2. QED
      BY <2>1, <3>1
  <2>4. b \in Nat /\ f \in Nat
    BY <1>1, SecuredCount
  <2>5. QED
    BY <1>2, <2>1, <2>2, <2>3, <2>4, BalanceIsSecured
<1>6. ASSUME NEW g \in Goroutines, Heap!Close(g) PROVE Heap!ArenaBalance'
  <2>1. buf[g] = "secure"
    BY <1>6, CloseFreesSecure
  <2>2. buf' = [buf EXCEPT ![g] = "none"] /\ fresh' = fresh /\ used' = used - 1
    BY <1>6 DEF Heap!Close
  <2>3. Cardinality(Secured(buf')) = b - 1 /\ b \in Nat
    <3>1. b \in Nat /\ Cardinality(Secured([buf EXCEPT ![g] = "none"])) = b - 1
      BY <1>1, <2>1, SecuredCount, ZenonT(40)
    <3>2. QED
      BY <2>2, <3>1
  <2>4. f \in Nat
    BY <1>1, SecuredCount
  <2>5. QED
    BY <1>2, <2>2, <2>3, <2>4, BalanceIsSecured
<1>7. ASSUME NEW g \in Goroutines,
             \/ Heap!InitCall(g) \/ Heap!DoneCall(g) \/ Heap!LockHeap(g)
             \/ Heap!InitCheck(g) \/ Heap!InitHeap(g) \/ Heap!DoneHeap(g)
             \/ Heap!UnlockHeap(g) \/ Heap!NewCall(g)
             \/ Heap!UsedCall(g) \/ Heap!UsedCheck(g) \/ Heap!UsedRead(g)
      PROVE UNCHANGED <<used, buf, fresh>>
  BY <1>7 DEF Heap!InitCall, Heap!DoneCall, Heap!LockHeap, Heap!InitCheck, Heap!InitHeap,
     Heap!DoneHeap, Heap!UnlockHeap, Heap!NewCall, Heap!UsedCall, Heap!UsedCheck, Heap!UsedRead
<1>8. QED
  BY <1>3, <1>4, <1>5, <1>6, <1>7 DEF Heap!Next, heapVars

(* Every step of the heap preserves its invariant.                          *)
LEMMA HeapNext == HeapInv /\ [Heap!Next]_heapVars => HeapInv'
<1> USE NobodyAssumption, SlotsAssumption
<1> SUFFICES ASSUME HeapInv, [Heap!Next]_heapVars PROVE HeapInv'
  OBVIOUS
<1>0. Heap!ArenaBalance'
  BY BalanceNext
<1> USE <1>0 DEF HeapInv, Heap!TypeOK, Heap!Steps, Heap!Memory, HeapMutexHeld, OneBufferEach,
            UsedArenaStays, Heap!InitialisedOnce, Heap!Goto
<1>1. ASSUME NEW g \in Goroutines,
             \/ Heap!InitCall(g) \/ Heap!DoneCall(g) \/ Heap!NewCall(g)
             \/ Heap!UsedCall(g) \/ Heap!UsedCheck(g) \/ Heap!UsedRead(g)
      PROVE HeapInv'
  BY <1>1
  DEF Heap!InitCall, Heap!DoneCall, Heap!NewCall, Heap!UsedCall, Heap!UsedCheck, Heap!UsedRead
<1>2. ASSUME NEW g \in Goroutines, Heap!LockHeap(g) PROVE HeapInv'
  BY <1>2 DEF Heap!LockHeap
<1>3. ASSUME NEW g \in Goroutines, Heap!InitCheck(g) PROVE HeapInv'
  BY <1>3 DEF Heap!InitCheck
<1>4. ASSUME NEW g \in Goroutines, Heap!InitHeap(g) PROVE HeapInv'
  BY <1>4 DEF Heap!InitHeap
<1>5. ASSUME NEW g \in Goroutines, Heap!DoneHeap(g) PROVE HeapInv'
  BY <1>5 DEF Heap!DoneHeap
<1>6. ASSUME NEW g \in Goroutines, Heap!UnlockHeap(g) PROVE HeapInv'
  BY <1>6 DEF Heap!UnlockHeap
<1>7. ASSUME NEW g \in Goroutines, Heap!Allocate(g) PROVE HeapInv'
  <2>1. PICK m \in Heap!Memory :
             /\ heapPc[g] = "alloc"
             /\ \/ /\ heapPc' = [heapPc EXCEPT ![g] = "verify"]
                   /\ fresh' = [fresh EXCEPT ![g] = m]
                \/ heapPc' = [heapPc EXCEPT ![g] = "usedCheck"] /\ fresh' = fresh
             /\ used' \in 0..Slots
             /\ used' > 0 => arena
             /\ UNCHANGED <<heapMu, arena, buf>>
    BY <1>7 DEF Heap!Allocate
  <2>2. QED
    BY <2>1
<1>8. ASSUME NEW g \in Goroutines, Heap!Verify(g) PROVE HeapInv'
  <2>1. heapPc' = [heapPc EXCEPT ![g] = "idle"] /\ heapPc[g] = "verify"
    BY <1>8 DEF Heap!Verify
  <2>2. Heap!TypeOK'
    BY <1>8, <2>1 DEF Heap!Verify
  <2>3. HeapMutexHeld' /\ Heap!InitialisedOnce'
    BY <1>8, <2>1 DEF Heap!Verify
  <2>4. OneBufferEach'
    BY <1>8, <2>1 DEF Heap!Verify
  <2>5. QED
    BY <1>8, <2>2, <2>3, <2>4 DEF Heap!Verify
<1>9. ASSUME NEW g \in Goroutines, Heap!Close(g) PROVE HeapInv'
  <2>1. buf[g] = "secure" /\ used > 0
    BY <1>9, CloseFreesSecure
  <2>2. QED
    BY <1>9, <2>1 DEF Heap!Close
<1>10. CASE UNCHANGED heapVars
  BY <1>10 DEF heapVars
<1>11. QED
  BY <1>1, <1>2, <1>3, <1>4, <1>5, <1>6, <1>7, <1>8, <1>9, <1>10 DEF Heap!Next

-----------------------------------------------------------------------------
(* The memo.                                                                *)

(* What is remembered, what is about to be, and what is answered has been   *)
(* true.                                                                    *)
MemoInv ==
  /\ Memo!TypeOK
  /\ truth \in held
  /\ memo # "unasked" => memo \in held
  /\ \A g \in Goroutines : probePc[g] = "store" => found[g] \in held
  /\ Memo!AnswersWereTrue

(* Nothing is remembered, about to be, or answered at first.                *)
LEMMA MemoInit == Memo!Init => MemoInv
  BY MaxChangesAssumption
  DEF Memo!Init, MemoInv, Memo!TypeOK, Memo!Answers, Memo!AnswersWereTrue

(* Every step of the memo preserves its invariant, a reconfiguration        *)
(* between a probe and the storing of its answer included.                  *)
LEMMA MemoNext == MemoInv /\ [Memo!Next]_memoVars => MemoInv'
<1> USE MaxChangesAssumption
<1> SUFFICES ASSUME MemoInv, [Memo!Next]_memoVars PROVE MemoInv'
  OBVIOUS
<1> USE DEF MemoInv, Memo!TypeOK, Memo!Answers, Memo!AnswersWereTrue, Memo!Goto, Memo!Return
<1>1. CASE Memo!Reconfigure
  BY <1>1 DEF Memo!Reconfigure
<1>2. ASSUME NEW g \in Goroutines, Memo!Ask(g) PROVE MemoInv'
  BY <1>2 DEF Memo!Ask
<1>3. ASSUME NEW g \in Goroutines, Memo!Look(g) PROVE MemoInv'
  BY <1>3 DEF Memo!Look
<1>4. ASSUME NEW g \in Goroutines, Memo!Run(g) PROVE MemoInv'
  BY <1>4 DEF Memo!Run
<1>5. ASSUME NEW g \in Goroutines, Memo!Store(g) PROVE MemoInv'
  BY <1>5 DEF Memo!Store
<1>6. CASE UNCHANGED memoVars
  BY <1>6 DEF memoVars
<1>7. QED
  BY <1>1, <1>2, <1>3, <1>4, <1>5, <1>6 DEF Memo!Next

-----------------------------------------------------------------------------
(* The error queues.                                                        *)

(* Two goroutines never run on one thread.                                  *)
OneThreadEach ==
  \A g, h \in Goroutines : on[g] # Errs!Off /\ on[g] = on[h] => g = h

(* Without migration, a goroutine in a call runs, and its thread's queue    *)
(* has nothing but what the call has put there.                             *)
QueueIsOwn ==
  \A g \in Goroutines :
    /\ callPc[g] # "idle" => on[g] # Errs!Off
    /\ callPc[g] = "call" => queue[on[g]] = {}
    /\ callPc[g] = "newError" => queue[on[g]] = {g}

ErrsInv == Errs!TypeOK /\ OneThreadEach /\ QueueIsOwn /\ Errs!ErrorsAreOwn

(* Before the first call nothing runs and every queue is empty.             *)
LEMMA ErrsInit == Errs!Init => ErrsInv
  BY DEF Errs!Init, ErrsInv, Errs!TypeOK, Errs!NoReply, OneThreadEach, QueueIsOwn, Errs!ErrorsAreOwn

(* The types hold whether goroutines migrate or not.                        *)
LEMMA ErrsTypesNext == Errs!TypeOK /\ [Errs!Next]_errsVars => Errs!TypeOK'
<1> SUFFICES ASSUME Errs!TypeOK, [Errs!Next]_errsVars PROVE Errs!TypeOK'
  OBVIOUS
<1> USE DEF Errs!TypeOK
<1>1. ASSUME NEW g \in Goroutines, NEW t \in Threads, Errs!Resume(g, t) PROVE Errs!TypeOK'
  BY <1>1 DEF Errs!Resume
<1>2. ASSUME NEW g \in Goroutines, Errs!Preempt(g) PROVE Errs!TypeOK'
  BY <1>2 DEF Errs!Preempt
<1>3. ASSUME NEW g \in Goroutines, Errs!ClearErrors(g) PROVE Errs!TypeOK'
  BY <1>3 DEF Errs!ClearErrors
<1>4. ASSUME NEW g \in Goroutines, Errs!CCall(g) PROVE Errs!TypeOK'
  <2>1. PICK q \in {queue[on[g]], queue[on[g]] \cup {g}}, s \in {"idle", "newError"} :
             /\ on[g] \in Threads
             /\ queue' = [queue EXCEPT ![on[g]] = q]
             /\ callPc' = [callPc EXCEPT ![g] = s]
             /\ UNCHANGED <<on, failure>>
    BY <1>4 DEF Errs!CCall
  <2>2. q \in SUBSET Goroutines
    BY <2>1
  <2>3. QED
    BY <2>1, <2>2
<1>5. ASSUME NEW g \in Goroutines, Errs!NewError(g) PROVE Errs!TypeOK'
  <2> DEFINE r == [failed |-> TRUE, entries |-> queue[on[g]]]
  <2>1. on[g] \in Threads
    BY <1>5 DEF Errs!NewError
  <2>2. r \in [failed : {TRUE}, entries : SUBSET Goroutines]
    BY <2>1
  <2>3. failure' \in [Goroutines -> {Errs!NoReply}
                                     \cup [failed : {TRUE}, entries : SUBSET Goroutines]]
    <3>1. failure' = [failure EXCEPT ![g] = r]
      BY <1>5 DEF Errs!NewError
    <3> HIDE DEF r
    <3>2. QED
      BY <2>2, <3>1
  <2>4. QED
    BY <1>5, <2>1, <2>3 DEF Errs!NewError
<1>6. CASE UNCHANGED errsVars
  BY <1>6 DEF errsVars
<1>7. QED
  BY <1>1, <1>2, <1>3, <1>4, <1>5, <1>6 DEF Errs!Next

(* If no goroutine changes threads in a call, every step keeps the queue of *)
(* a calling goroutine's thread its own.                                    *)
LEMMA ErrsNext == ~Migrates /\ ErrsInv /\ [Errs!Next]_errsVars => ErrsInv'
<1> SUFFICES ASSUME ~Migrates, ErrsInv, [Errs!Next]_errsVars PROVE ErrsInv'
  OBVIOUS
<1>0. Errs!TypeOK'
  BY ErrsTypesNext DEF ErrsInv
<1> USE <1>0 DEF ErrsInv, Errs!TypeOK, OneThreadEach, QueueIsOwn, Errs!ErrorsAreOwn
<1>1. ASSUME NEW g \in Goroutines, NEW t \in Threads, Errs!Resume(g, t) PROVE ErrsInv'
  BY <1>1 DEF Errs!Resume
<1>2. ASSUME NEW g \in Goroutines, Errs!Preempt(g) PROVE ErrsInv'
  BY <1>2 DEF Errs!Preempt
<1>3. ASSUME NEW g \in Goroutines, Errs!ClearErrors(g) PROVE ErrsInv'
  BY <1>3 DEF Errs!ClearErrors
<1>4. ASSUME NEW g \in Goroutines, Errs!CCall(g) PROVE ErrsInv'
  <2>1. PICK q \in SUBSET Goroutines, s \in {"idle", "newError"} :
             /\ on[g] \in Threads /\ callPc[g] = "call"
             /\ s = "newError" => q = queue[on[g]] \cup {g}
             /\ queue' = [queue EXCEPT ![on[g]] = q]
             /\ callPc' = [callPc EXCEPT ![g] = s]
             /\ UNCHANGED <<on, failure>>
    <3>1. on[g] \in Threads /\ queue[on[g]] \in SUBSET Goroutines
      BY <1>4 DEF Errs!CCall
    <3>2. queue[on[g]] \cup {g} \in SUBSET Goroutines
      BY <3>1
    <3>3. queue = [queue EXCEPT ![on[g]] = queue[on[g]]]
      BY <3>1
    <3>4. QED
      BY <1>4, <3>1, <3>2, <3>3 DEF Errs!CCall
  <2>2. QED
    BY <2>1
<1>5. ASSUME NEW g \in Goroutines, Errs!NewError(g) PROVE ErrsInv'
  <2>1. /\ on[g] \in Threads /\ queue[on[g]] = {g}
        /\ callPc' = [callPc EXCEPT ![g] = "idle"] /\ on' = on
        /\ queue' = [queue EXCEPT ![on[g]] = {}]
    BY <1>5 DEF Errs!NewError
  <2>2. OneThreadEach' /\ QueueIsOwn'
    BY <2>1
  <2>3. ASSUME NEW h \in Goroutines, failure'[h] # Errs!NoReply
        PROVE failure'[h].entries = {h}
    <3>1. CASE h = g
      BY <1>5, <2>1, <3>1 DEF Errs!NewError
    <3>2. CASE h # g
      BY <1>5, <2>3, <3>2 DEF Errs!NewError
    <3>3. QED
      BY <3>1, <3>2
  <2>4. QED
    BY <2>2, <2>3
<1>6. CASE UNCHANGED errsVars
  BY <1>6 DEF errsVars
<1>7. QED
  BY <1>1, <1>2, <1>3, <1>4, <1>5, <1>6 DEF Errs!Next

-----------------------------------------------------------------------------
(* The process.                                                             *)

(* A step of the process is a step of one part and of no other.             *)
LEMMA Projection ==
  [ProcessNext]_processVars => /\ [Next]_vars
                               /\ [Heap!Next]_heapVars
                               /\ [Memo!Next]_memoVars
                               /\ [Errs!Next]_errsVars
  BY DEF ProcessNext, processVars, vars, heapVars, memoVars, errsVars

(* The types of all four parts.                                             *)
THEOREM ProcessTypes == ProcessSpec => []TypesOK
<1>1. ProcessInit => BudgetInv /\ HeapInv /\ MemoInv /\ Errs!TypeOK
  BY BudgetInit, HeapInit, MemoInit, ErrsInit DEF ProcessInit, ErrsInv
<1>2. BudgetInv /\ HeapInv /\ MemoInv /\ Errs!TypeOK /\ [ProcessNext]_processVars
        => (BudgetInv /\ HeapInv /\ MemoInv /\ Errs!TypeOK)'
  BY Projection, BudgetNext, HeapNext, MemoNext, ErrsTypesNext
<1>3. BudgetInv /\ HeapInv /\ MemoInv /\ Errs!TypeOK => TypesOK
  BY DEF BudgetInv, HeapInv, MemoInv, TypesOK
<1>4. QED
  BY <1>1, <1>2, <1>3, PTL DEF ProcessSpec

(* The budget's invariant holds in every state of the process.              *)
LEMMA BudgetInvariance == ProcessSpec => []BudgetInv
<1>1. ProcessInit => BudgetInv
  BY BudgetInit DEF ProcessInit
<1>2. BudgetInv /\ [ProcessNext]_processVars => BudgetInv'
  BY Projection, BudgetNext
<1>3. QED
  BY <1>1, <1>2, PTL DEF ProcessSpec

(* A derivation that needs a budget has it, however many goroutines raise   *)
(* the budget of one context at the same time (kdf.go:224-236).             *)
THEOREM BudgetHolds == ProcessSpec => []BudgetSuffices
<1>1. BudgetInv => BudgetSuffices
  BY DEF BudgetInv, Knowledge, BudgetSuffices
<1>2. QED
  BY <1>1, BudgetInvariance, PTL

(* No step of any goroutine lowers the budget (kdf.go:224).                 *)
THEOREM BudgetMonotone == ProcessSpec => NeverLowered
<1>1. BudgetInv /\ [ProcessNext]_processVars => [budget' >= budget]_vars
  BY Projection, BudgetRises
<1>2. QED
  BY <1>1, BudgetInvariance, PTL DEF ProcessSpec, NeverLowered

(* The heap's invariant holds in every state of the process.                *)
LEMMA HeapInvariance == ProcessSpec => []HeapInv
<1>1. ProcessInit => HeapInv
  BY HeapInit DEF ProcessInit
<1>2. HeapInv /\ [ProcessNext]_processVars => HeapInv'
  BY Projection, HeapNext
<1>3. QED
  BY <1>1, <1>2, PTL DEF ProcessSpec

(* A SecureBuffer is in the arena, and the arena is there, for any number   *)
(* of goroutines that initialise it, tear it down and allocate from it      *)
(* (secure.go:117-123).                                                     *)
THEOREM BuffersStaySecure == ProcessSpec => []BuffersAreSecure
<1>1. ASSUME HeapInv, NEW g \in Goroutines, buf[g] # "none" PROVE buf[g] = "secure" /\ arena
  <2>1. /\ buf[g] = "secure" /\ "none" \in Heap!Memory
        /\ buf \in [Goroutines -> Heap!Memory] /\ fresh \in [Goroutines -> Heap!Memory]
    BY <1>1 DEF HeapInv, Heap!TypeOK, Heap!Memory, OneBufferEach
  <2>2. Cardinality(Secured(buf)) \in Nat /\ Cardinality(Secured(buf)) > 0
    BY <2>1, SecuredCount
  <2>3. Cardinality(Secured(fresh)) \in Nat
    BY <2>1, SecuredCount
  <2>4. used > 0
    BY <1>1, <2>2, <2>3, BalanceIsSecured DEF HeapInv
  <2>5. QED
    BY <1>1, <2>1, <2>4 DEF HeapInv, UsedArenaStays
<1>2. HeapInv => BuffersAreSecure
  BY <1>1 DEF BuffersAreSecure, Heap!BuffersAreSecure
<1>3. QED
  BY <1>2, HeapInvariance, PTL

(* The counter of the arena is the number of SecureBuffers and of those on  *)
(* their way, and the arena is never initialised over another.              *)
THEOREM ArenaBalances == ProcessSpec => []ArenaBalance
<1>1. HeapInv => ArenaBalance
  BY DEF HeapInv, ArenaBalance
<1>2. QED
  BY <1>1, HeapInvariance, PTL

(* Every answer Supports gives has been true of the context, whoever else   *)
(* asks and whoever reconfigures the context, as often as they like.        *)
THEOREM AnswersHaveBeenTrue == ProcessSpec => []AnswersWereTrue
<1>1. ProcessInit => MemoInv
  BY MemoInit DEF ProcessInit
<1>2. MemoInv /\ [ProcessNext]_processVars => MemoInv'
  BY Projection, MemoNext
<1>3. MemoInv => AnswersWereTrue
  BY DEF MemoInv, AnswersWereTrue
<1>4. QED
  BY <1>1, <1>2, <1>3, PTL DEF ProcessSpec

(* If the scheduler moves no goroutine in the middle of a call, an Error    *)
(* has the entries of its own call, all and only, on any number of threads. *)
(* Without that hypothesis the run error_migration refutes it.              *)
THEOREM ErrorsStayOwn == ~Migrates => (ProcessSpec => []ErrorsAreOwn)
<1> SUFFICES ASSUME ~Migrates PROVE ProcessSpec => []ErrorsAreOwn
  OBVIOUS
<1>1. ProcessInit => ErrsInv
  BY ErrsInit DEF ProcessInit
<1>2. ErrsInv /\ [ProcessNext]_processVars => ErrsInv'
  BY Projection, ErrsNext
<1>3. ErrsInv => ErrorsAreOwn
  BY DEF ErrsInv, ErrorsAreOwn
<1>4. QED
  BY <1>1, <1>2, <1>3, PTL DEF ProcessSpec
=============================================================================

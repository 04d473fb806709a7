------------------------------ MODULE MCProcess ------------------------------
(* What the goroutines of one process share without sharing a handle: the   *)
(* thread budget of a Context, the secure heap, the memo behind Supports    *)
(* and the error queues of the threads.  The four have no variable and no   *)
(* lock in common, so how the steps of two of them interleave is of no      *)
(* consequence, and a behaviour here exercises one of them.                 *)
EXTENDS ThreadBudget

CONSTANTS
  Slots,
  MaxChanges,
  Threads,
  Migrates

ASSUME SlotsAssumption == Slots \in Nat
ASSUME MaxChangesAssumption == MaxChanges \in Nat

VARIABLES
  subject,                                   \* the one that is exercised
  heapPc, heapMu, arena, used, fresh, buf,
  probePc, truth, changes, memo, found, answer, held,
  callPc, on, queue, failure

heapVars == <<heapPc, heapMu, arena, used, fresh, buf>>
memoVars == <<probePc, truth, changes, memo, found, answer, held>>
errsVars == <<callPc, on, queue, failure>>

Heap == INSTANCE SecureHeap WITH pc <- heapPc, mutex <- heapMu
Memo == INSTANCE ProbeMemo WITH pc <- probePc, reply <- answer
Errs == INSTANCE ErrorQueue WITH pc <- callPc, reply <- failure

Subjects == {"budget", "heap", "memo", "errors"}

ProcessInit ==
  /\ subject \in Subjects
  /\ Init
  /\ Heap!Init
  /\ Memo!Init
  /\ Errs!Init

ProcessNext ==
  /\ UNCHANGED subject
  /\ \/ subject = "budget" /\ Next /\ UNCHANGED <<heapVars, memoVars, errsVars>>
     \/ subject = "heap" /\ Heap!Next /\ UNCHANGED <<vars, memoVars, errsVars>>
     \/ subject = "memo" /\ Memo!Next /\ UNCHANGED <<vars, heapVars, errsVars>>
     \/ subject = "errors" /\ Errs!Next /\ UNCHANGED <<vars, heapVars, memoVars>>

processVars == <<subject, vars, heapVars, memoVars, errsVars>>

ProcessSpec == ProcessInit /\ [][ProcessNext]_processVars /\ Fairness

(* All four are type correct.                                               *)
TypesOK == TypeOK /\ Heap!TypeOK /\ Memo!TypeOK /\ Errs!TypeOK

(* SecureHeap: a SecureBuffer is in the arena (secure.go:117-123).          *)
BuffersAreSecure == Heap!BuffersAreSecure

(* SecureHeap: no slot of the arena is lost or freed twice, and no arena is *)
(* initialised over another.                                                *)
ArenaBalance == Heap!ArenaBalance /\ Heap!InitialisedOnce

(* ProbeMemo: no answer was never true (libctx.go:35-39).                   *)
AnswersWereTrue == Memo!AnswersWereTrue

(* ErrorQueue: an Error has its own entries (errors.go:19-23).              *)
ErrorsAreOwn == Errs!ErrorsAreOwn
=============================================================================

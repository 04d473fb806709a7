----------------------------- MODULE ErrorQueue -----------------------------
(***************************************************************************)
(* clearErrors, a C call, newError (errors.go) as goroutines run them: the *)
(* OpenSSL error queue belongs to a thread, a goroutine runs on one thread *)
(* at a time, and no call of the package locks it to that thread.          *)
(*                                                                         *)
(* The Go scheduler is external.  It may preempt a goroutine between two C *)
(* calls and resume it on another thread.                                  *)
(***************************************************************************)
EXTENDS Naturals

CONSTANTS
  Goroutines,
  Threads,
  Migrates      \* BOOLEAN: may a goroutine change threads inside a call?

\* Not on any thread.
Off == "off"

VARIABLES
  pc,           \* where each goroutine is in a call
  on,           \* the thread it runs on, if any
  queue,        \* the error queue of each thread: whose entries it holds
  reply         \* the entries in the *Error of its last failed call

vars == <<pc, on, queue, reply>>

NoReply == [failed |-> FALSE]

TypeOK ==
  /\ pc \in [Goroutines -> {"idle", "call", "newError"}]
  /\ on \in [Goroutines -> Threads \cup {Off}]
  /\ queue \in [Threads -> SUBSET Goroutines]
  /\ reply \in [Goroutines -> {NoReply} \cup [failed : {TRUE}, entries : SUBSET Goroutines]]

Init ==
  /\ pc = [g \in Goroutines |-> "idle"]
  /\ on = [g \in Goroutines |-> Off]
  /\ queue = [t \in Threads |-> {}]
  /\ reply = [g \in Goroutines |-> NoReply]

-----------------------------------------------------------------------------
(* The scheduler.                                                           *)

Resume(g, t) ==
  /\ on[g] = Off
  /\ \A h \in Goroutines : on[h] # t
  /\ on' = [on EXCEPT ![g] = t]
  /\ UNCHANGED <<pc, queue, reply>>

(* A goroutine pinned to its thread keeps the thread to itself.             *)
Preempt(g) ==
  /\ on[g] # Off
  /\ pc[g] = "idle" \/ Migrates
  /\ on' = [on EXCEPT ![g] = Off]
  /\ UNCHANGED <<pc, queue, reply>>

-----------------------------------------------------------------------------
(* A call of the package.                                                   *)

\* Mutant of ClearErrors: the queue is left as it is.
ClearErrorsForgotten(g) ==
  /\ pc[g] = "idle"
  /\ on[g] # Off
  /\ pc' = [pc EXCEPT ![g] = "call"]
  /\ UNCHANGED <<on, queue, reply>>

ClearErrors(g) ==
  /\ pc[g] = "idle"
  /\ on[g] # Off
  /\ queue' = [queue EXCEPT ![on[g]] = {}]
  /\ pc' = [pc EXCEPT ![g] = "call"]
  /\ UNCHANGED <<on, reply>>

(* A failing C call queues an entry; one that succeeds may do so too.       *)
CCall(g) ==
  /\ pc[g] = "call"
  /\ on[g] # Off
  /\ \/ /\ pc' = [pc EXCEPT ![g] = "newError"]
        /\ queue' = [queue EXCEPT ![on[g]] = @ \cup {g}]
     \/ /\ pc' = [pc EXCEPT ![g] = "idle"]
        /\ queue' \in {queue, [queue EXCEPT ![on[g]] = @ \cup {g}]}
  /\ UNCHANGED <<on, reply>>

NewError(g) ==
  /\ pc[g] = "newError"
  /\ on[g] # Off
  /\ reply' = [reply EXCEPT ![g] = [failed |-> TRUE, entries |-> queue[on[g]]]]
  /\ queue' = [queue EXCEPT ![on[g]] = {}]
  /\ pc' = [pc EXCEPT ![g] = "idle"]
  /\ UNCHANGED on

Next ==
  \E g \in Goroutines :
    \/ \E t \in Threads : Resume(g, t)
    \/ Preempt(g) \/ ClearErrors(g) \/ CCall(g) \/ NewError(g)

Spec == Init /\ [][Next]_vars

-----------------------------------------------------------------------------
(* Correctness.                                                             *)

(* If no goroutine changes threads in the middle of a call, an Error has    *)
(* the entries of the call it reports, all of them and no others, though    *)
(* successful calls leave entries behind too (errors.go:19-23, 39-45).      *)
ErrorsAreOwn == \A g \in Goroutines : reply[g] # NoReply => reply[g].entries = {g}

(* concurrency_test.go: a failure on one goroutine must not be reported     *)
(* against an unrelated call on another.                                    *)
NoForeignErrors ==
  \A g \in Goroutines : reply[g] # NoReply => reply[g].entries \subseteq {g}
=============================================================================

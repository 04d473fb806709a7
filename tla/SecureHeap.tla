----------------------------- MODULE SecureHeap -----------------------------
(***************************************************************************)
(* The process-wide secure heap and its SecureBuffers (secure.go).         *)
(* InitSecureHeap and DoneSecureHeap exclude each other with secureHeapMu; *)
(* NewSecureBuffer, Close and SecureHeapUsed take no lock, so the arena    *)
(* may come and go between any two of their C calls.                       *)
(*                                                                         *)
(* OpenSSL is external: without an arena its allocator hands out ordinary  *)
(* memory, with a full one nothing; CRYPTO_secure_malloc_done fails while  *)
(* anything is allocated; CRYPTO_secure_used needs an arena to read.       *)
(***************************************************************************)
EXTENDS Integers, Goroutines

CONSTANT
  Slots         \* how many buffers fit in the arena, a natural number

VARIABLES
  pc,           \* where each goroutine is in the package
  mutex,        \* secureHeapMu: its holder
  arena,        \* OSSL: the arena is there
  used,         \* OSSL: allocations from the arena
  fresh,        \* the memory NewSecureBuffer has just been given
  buf           \* the memory of each goroutine's SecureBuffer

vars == <<pc, mutex, arena, used, fresh, buf>>

Steps == {"idle", "initLock", "initCheck", "init", "doneLock", "done", "unlock",
          "alloc", "verify", "usedCheck", "usedRead"}
Memory == {"none", "secure", "ordinary"}

TypeOK ==
  /\ pc \in [Goroutines -> Steps]
  /\ mutex \in Goroutines \cup {Nobody}
  /\ arena \in BOOLEAN
  /\ used \in 0..Slots
  /\ fresh \in [Goroutines -> Memory]
  /\ buf \in [Goroutines -> Memory]

Init ==
  /\ pc = [g \in Goroutines |-> "idle"]
  /\ mutex = Nobody
  /\ arena = FALSE
  /\ used = 0
  /\ fresh = [g \in Goroutines |-> "none"]
  /\ buf = [g \in Goroutines |-> "none"]

Goto(g, from, to) == pc[g] = from /\ pc' = [pc EXCEPT ![g] = to]

-----------------------------------------------------------------------------
(* InitSecureHeap and DoneSecureHeap.                                       *)

InitCall(g) == Goto(g, "idle", "initLock") /\ UNCHANGED <<mutex, arena, used, fresh, buf>>
DoneCall(g) == Goto(g, "idle", "doneLock") /\ UNCHANGED <<mutex, arena, used, fresh, buf>>

\* Mutant of LockHeap: the mutex excludes nobody.
LockHeapShared(g) ==
  /\ \/ Goto(g, "initLock", "initCheck")
     \/ Goto(g, "doneLock", "done")
  /\ mutex' = g
  /\ UNCHANGED <<arena, used, fresh, buf>>

LockHeap(g) ==
  /\ \/ Goto(g, "initLock", "initCheck")
     \/ Goto(g, "doneLock", "done")
  /\ mutex = Nobody
  /\ mutex' = g
  /\ UNCHANGED <<arena, used, fresh, buf>>

(* A second initialisation is refused here.                                 *)
InitCheck(g) ==
  /\ Goto(g, "initCheck", IF arena THEN "unlock" ELSE "init")
  /\ UNCHANGED <<mutex, arena, used, fresh, buf>>

InitHeap(g) ==
  /\ Goto(g, "init", "unlock")
  /\ arena' \in {TRUE, arena}
  /\ UNCHANGED <<mutex, used, fresh, buf>>

DoneHeap(g) ==
  /\ Goto(g, "done", "unlock")
  /\ arena' = (arena /\ used # 0)
  /\ UNCHANGED <<mutex, used, fresh, buf>>

UnlockHeap(g) ==
  /\ Goto(g, "unlock", "idle")
  /\ mutex' = Nobody
  /\ UNCHANGED <<arena, used, fresh, buf>>

-----------------------------------------------------------------------------
(* NewSecureBuffer and Close.                                               *)

(* Refused at once when there is no arena.                                  *)
NewCall(g) ==
  /\ buf[g] = "none"
  /\ arena
  /\ Goto(g, "idle", "alloc")
  /\ UNCHANGED <<mutex, arena, used, fresh, buf>>

(* Nothing from a full arena: the error message reads SecureHeapUsed.       *)
Allocate(g) ==
  /\ \/ /\ arena /\ used < Slots
        /\ Goto(g, "alloc", "verify")
        /\ fresh' = [fresh EXCEPT ![g] = "secure"]
        /\ used' = used + 1
     \/ /\ ~arena
        /\ Goto(g, "alloc", "verify")
        /\ fresh' = [fresh EXCEPT ![g] = "ordinary"]
        /\ UNCHANGED used
     \/ /\ arena => used = Slots
        /\ Goto(g, "alloc", "usedCheck")
        /\ UNCHANGED <<fresh, used>>
  /\ UNCHANGED <<mutex, arena, buf>>

\* Mutant of Verify: CRYPTO_secure_allocated is not asked.
VerifyTrusting(g) ==
  /\ Goto(g, "verify", "idle")
  /\ buf' = [buf EXCEPT ![g] = fresh[g]]
  /\ fresh' = [fresh EXCEPT ![g] = "none"]
  /\ UNCHANGED <<mutex, arena, used>>

(* Ordinary memory is given back.                                           *)
Verify(g) ==
  /\ Goto(g, "verify", "idle")
  /\ buf' = [buf EXCEPT ![g] = IF fresh[g] = "secure" THEN "secure" ELSE "none"]
  /\ fresh' = [fresh EXCEPT ![g] = "none"]
  /\ UNCHANGED <<mutex, arena, used>>

\* Mutant of Close: the pointer is cleared and the memory kept.
CloseKeeps(g) ==
  /\ pc[g] = "idle"
  /\ buf[g] # "none"
  /\ buf' = [buf EXCEPT ![g] = "none"]
  /\ UNCHANGED <<pc, mutex, arena, used, fresh>>

Close(g) ==
  /\ pc[g] = "idle"
  /\ buf[g] # "none"
  /\ buf' = [buf EXCEPT ![g] = "none"]
  /\ used' = used - 1
  /\ UNCHANGED <<pc, mutex, arena, fresh>>

-----------------------------------------------------------------------------
(* SecureHeapUsed: a check, and then a read, with no lock around them.      *)

UsedCall(g) == Goto(g, "idle", "usedCheck") /\ UNCHANGED <<mutex, arena, used, fresh, buf>>

UsedCheck(g) ==
  /\ Goto(g, "usedCheck", IF arena THEN "usedRead" ELSE "idle")
  /\ UNCHANGED <<mutex, arena, used, fresh, buf>>

UsedRead(g) ==
  /\ Goto(g, "usedRead", "idle")
  /\ UNCHANGED <<mutex, arena, used, fresh, buf>>

-----------------------------------------------------------------------------
Next ==
  \E g \in Goroutines :
    \/ InitCall(g) \/ DoneCall(g) \/ LockHeap(g)
    \/ InitCheck(g) \/ InitHeap(g) \/ DoneHeap(g) \/ UnlockHeap(g)
    \/ NewCall(g) \/ Allocate(g) \/ Verify(g) \/ Close(g)
    \/ UsedCall(g) \/ UsedCheck(g) \/ UsedRead(g)

Spec == Init /\ [][Next]_vars

-----------------------------------------------------------------------------
(* Correctness.                                                             *)

(* A SecureBuffer is in the arena, and the arena is there, even if it was   *)
(* torn down between the check and the allocation (secure.go:117-123).      *)
BuffersAreSecure ==
  \A g \in Goroutines : buf[g] # "none" => buf[g] = "secure" /\ arena

(* The arena's counter is the number of SecureBuffers and of allocations on *)
(* their way to one: no path leaks a slot or frees one twice.               *)
ArenaBalance ==
  used = Cardinality({g \in Goroutines : buf[g] = "secure"})
       + Cardinality({g \in Goroutines : fresh[g] = "secure"})

(* CRYPTO_secure_malloc_init is only called when there is no arena, though  *)
(* several goroutines may initialise at once.                               *)
InitialisedOnce == \A g \in Goroutines : pc[g] = "init" => ~arena

(* secure.go:92-96: the guard keeps CRYPTO_secure_used from an arena that   *)
(* is not there.                                                            *)
UsedReadsAnArena == \A g \in Goroutines : pc[g] = "usedRead" => arena
=============================================================================

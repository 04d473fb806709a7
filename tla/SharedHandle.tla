---------------------------- MODULE SharedHandle ----------------------------
(***************************************************************************)
(* An AEAD, Cipher or KeyWrap shared by goroutines (cipher.go,             *)
(* cipher_sym.go).  The three types follow one discipline: an operation    *)
(* takes the read lock, looks at closed, checks its arguments, builds an   *)
(* EVP_CIPHER_CTX of its own and hands it the shared EVP_CIPHER and the    *)
(* shared key bytes; Close takes the write lock, frees the cipher, zeroes  *)
(* the key and sets closed.                                                *)
(*                                                                         *)
(* The reference count of the EVP_CIPHER is the set of its holders: the    *)
(* handle itself, and each goroutine whose context took a reference when   *)
(* it was initialised.                                                     *)
(***************************************************************************)
EXTENDS GoRWMutex

CONSTANT
  Handle        \* the handle, as a holder of the EVP_CIPHER

ASSUME HandleAssumption == Handle \notin Goroutines

VARIABLES
  pc,           \* where each goroutine is inside the package
  result,       \* what its last call returned
  created,      \* the constructor has returned a handle
  closed,       \* the closed field
  cipher,       \* the cipher field: is the pointer non-nil?
  key,          \* the key field: does it still hold the key bytes?
  holders       \* who holds a reference to the EVP_CIPHER

vars == <<pc, result, created, closed, cipher, key, holders, rwVars>>

\* Inside the constructor, an operation, and Close.
NewSteps   == {"fetch", "validate"}
GuardSteps == {"rlock", "check"}
UseSteps   == {"args", "newctx", "cipherInit", "keyInit", "process", "freectx"}
OpSteps    == GuardSteps \cup UseSteps \cup {"runlock"}
FreeSteps  == {"free", "zero", "mark"}
CloseSteps == {"announce", "wlock", "unlock"} \cup FreeSteps
Steps      == {"idle"} \cup NewSteps \cup OpSteps \cup CloseSteps

Results == {"none", "ok", "err", "ErrClosed"}

TypeOK ==
  /\ RWTypeOK
  /\ pc \in [Goroutines -> Steps]
  /\ result \in [Goroutines -> Results]
  /\ created \in BOOLEAN
  /\ closed \in BOOLEAN
  /\ cipher \in BOOLEAN
  /\ key \in BOOLEAN
  /\ holders \in SUBSET (Goroutines \cup {Handle})

Init ==
  /\ RWInit
  /\ pc = [g \in Goroutines |-> "idle"]
  /\ result = [g \in Goroutines |-> "none"]
  /\ created = FALSE
  /\ closed = FALSE
  /\ cipher = FALSE
  /\ key = FALSE
  /\ holders = {}

Goto(g, from, to) == pc[g] = from /\ pc' = [pc EXCEPT ![g] = to]
Return(g, r) == result' = [result EXCEPT ![g] = r]

-----------------------------------------------------------------------------
(* The constructors: NewAEAD, NewCipher, NewKeyWrap.                        *)

NewCall(g) ==
  /\ ~created
  /\ \A h \in Goroutines : pc[h] \notin NewSteps
  /\ Goto(g, "idle", "fetch")
  /\ UNCHANGED <<result, created, closed, cipher, key, holders, rwVars>>

\* Mutant of Fetch: a failed fetch returns neither a handle nor an error.
FetchSilent(g) ==
  /\ \/ Goto(g, "fetch", "validate") /\ holders' = {Handle} /\ UNCHANGED result
     \/ Goto(g, "fetch", "idle") /\ Return(g, "nil") /\ UNCHANGED holders
  /\ UNCHANGED <<created, closed, cipher, key, rwVars>>

Fetch(g) ==
  /\ \/ Goto(g, "fetch", "validate") /\ holders' = {Handle} /\ UNCHANGED result
     \/ Goto(g, "fetch", "idle") /\ Return(g, "err") /\ UNCHANGED holders
  /\ UNCHANGED <<created, closed, cipher, key, rwVars>>

\* Mutant of Refuse: an early return without EVP_CIPHER_free.
RefuseLeaks(g) ==
  /\ Goto(g, "validate", "idle")
  /\ Return(g, "err")
  /\ UNCHANGED <<created, closed, cipher, key, holders, rwVars>>

(* Key length, mode, sizes and padding are checked against the fetched      *)
(* cipher, and each refusal gives the fetched cipher back.                  *)
Refuse(g) ==
  /\ Goto(g, "validate", "idle")
  /\ Return(g, "err")
  /\ holders' = holders \ {Handle}
  /\ UNCHANGED <<created, closed, cipher, key, rwVars>>

Accept(g) ==
  /\ Goto(g, "validate", "idle")
  /\ Return(g, "ok")
  /\ created' = TRUE
  /\ cipher' = TRUE
  /\ key' = TRUE
  /\ UNCHANGED <<closed, holders, rwVars>>

-----------------------------------------------------------------------------
(* An operation: SealErr, Open, Encrypt, Decrypt, Wrap, Unwrap.             *)

(* A nil receiver, which is what a caller has before the constructor        *)
(* succeeds, answers ErrClosed without touching the lock.                   *)
OpOnNil(g) ==
  /\ ~created
  /\ pc[g] = "idle"
  /\ Return(g, "ErrClosed")
  /\ UNCHANGED <<pc, created, closed, cipher, key, holders, rwVars>>

OpCall(g) ==
  /\ created
  /\ Goto(g, "idle", "rlock")
  /\ Return(g, "none")
  /\ UNCHANGED <<created, closed, cipher, key, holders, rwVars>>

OpRLock(g) ==
  /\ Goto(g, "rlock", "check")
  /\ RLock(g)
  /\ UNCHANGED <<result, created, closed, cipher, key, holders>>

\* Mutant of OpRefused: an early return without the deferred RUnlock.
OpRefusedLocked(g) ==
  /\ Goto(g, "check", "idle")
  /\ g \in readers
  /\ closed
  /\ Return(g, "ErrClosed")
  /\ UNCHANGED <<created, closed, cipher, key, holders, rwVars>>

OpRefused(g) ==
  /\ Goto(g, "check", "runlock")
  /\ g \in readers
  /\ closed
  /\ Return(g, "ErrClosed")
  /\ UNCHANGED <<created, closed, cipher, key, holders, rwVars>>

\* Mutant of OpAdmitted: the closed check is missing.
OpAdmittedUnchecked(g) ==
  /\ Goto(g, "check", "args")
  /\ g \in readers
  /\ UNCHANGED <<result, created, closed, cipher, key, holders, rwVars>>

OpAdmitted(g) ==
  /\ Goto(g, "check", "args")
  /\ g \in readers
  /\ ~closed
  /\ UNCHANGED <<result, created, closed, cipher, key, holders, rwVars>>

(* Wrong nonce, IV or input length, or a tag that cannot be there.          *)
ArgsRefused(g) ==
  /\ Goto(g, "args", "runlock")
  /\ Return(g, "err")
  /\ UNCHANGED <<created, closed, cipher, key, holders, rwVars>>

ArgsAccepted(g) ==
  /\ Goto(g, "args", "newctx")
  /\ UNCHANGED <<result, created, closed, cipher, key, holders, rwVars>>

NewCtx(g) ==
  /\ \/ Goto(g, "newctx", "cipherInit") /\ UNCHANGED result
     \/ Goto(g, "newctx", "runlock") /\ Return(g, "err")
  /\ UNCHANGED <<created, closed, cipher, key, holders, rwVars>>

(* EVP_*Init_ex2 given the shared cipher: the context takes a reference.    *)
CipherInit(g) ==
  /\ \/ /\ Goto(g, "cipherInit", "keyInit")
        /\ holders' = holders \cup {g}
        /\ UNCHANGED result
     \/ /\ Goto(g, "cipherInit", "freectx")
        /\ Return(g, "err")
        /\ UNCHANGED holders
  /\ UNCHANGED <<created, closed, cipher, key, rwVars>>

(* EVP_*Init_ex2 reading the shared key bytes, in the same call as the      *)
(* cipher or, for CCM, in a second one.                                     *)
KeyInit(g) ==
  /\ \/ Goto(g, "keyInit", "process") /\ UNCHANGED result
     \/ Goto(g, "keyInit", "freectx") /\ Return(g, "err")
  /\ UNCHANGED <<created, closed, cipher, key, holders, rwVars>>

(* Update and Final work on the context alone.                              *)
Process(g) ==
  /\ Goto(g, "process", "freectx")
  /\ Return(g, "ok") \/ Return(g, "err")
  /\ UNCHANGED <<created, closed, cipher, key, holders, rwVars>>

(* The deferred calls run last to first: the context, then the lock.        *)
FreeCtx(g) ==
  /\ Goto(g, "freectx", "runlock")
  /\ holders' = holders \ {g}
  /\ UNCHANGED <<result, created, closed, cipher, key, rwVars>>

OpRUnlock(g) ==
  /\ Goto(g, "runlock", "idle")
  /\ RUnlock(g)
  /\ UNCHANGED <<result, created, closed, cipher, key, holders>>

-----------------------------------------------------------------------------
(* Close.                                                                   *)

CloseCall(g) ==
  /\ created
  /\ Goto(g, "idle", "announce")
  /\ Return(g, "none")
  /\ UNCHANGED <<created, closed, cipher, key, holders, rwVars>>

CloseAnnounce(g) ==
  /\ Goto(g, "announce", "wlock")
  /\ LockAnnounce(g)
  /\ UNCHANGED <<result, created, closed, cipher, key, holders>>

\* Mutant of CloseWLock: Close does not wait for the readers.
CloseWLockEarly(g) ==
  /\ Goto(g, "wlock", IF closed THEN "unlock" ELSE "free")
  /\ writer = g
  /\ UNCHANGED <<result, created, closed, cipher, key, holders, rwVars>>

CloseWLock(g) ==
  /\ Goto(g, "wlock", IF closed THEN "unlock" ELSE "free")
  /\ WriteLocked(g)
  /\ UNCHANGED <<result, created, closed, cipher, key, holders, rwVars>>

CloseFree(g) ==
  /\ Goto(g, "free", "zero")
  /\ holders' = holders \ {Handle}
  /\ cipher' = FALSE
  /\ UNCHANGED <<result, created, closed, key, rwVars>>

CloseZero(g) ==
  /\ Goto(g, "zero", "mark")
  /\ key' = FALSE
  /\ UNCHANGED <<result, created, closed, cipher, holders, rwVars>>

\* Mutant of CloseMark: closed is never set.
CloseMarkForgotten(g) ==
  /\ Goto(g, "mark", "unlock")
  /\ UNCHANGED <<result, created, closed, cipher, key, holders, rwVars>>

CloseMark(g) ==
  /\ Goto(g, "mark", "unlock")
  /\ closed' = TRUE
  /\ UNCHANGED <<result, created, cipher, key, holders, rwVars>>

CloseUnlock(g) ==
  /\ Goto(g, "unlock", "idle")
  /\ Unlock(g)
  /\ Return(g, "ok")
  /\ UNCHANGED <<created, closed, cipher, key, holders>>

-----------------------------------------------------------------------------
Call(g) == NewCall(g) \/ OpOnNil(g) \/ OpCall(g) \/ CloseCall(g)

NewStep(g) == Fetch(g) \/ Refuse(g) \/ Accept(g)

OpStep(g) ==
  \/ OpRLock(g) \/ OpRefused(g) \/ OpAdmitted(g)
  \/ ArgsRefused(g) \/ ArgsAccepted(g) \/ NewCtx(g)
  \/ CipherInit(g) \/ KeyInit(g) \/ Process(g)
  \/ FreeCtx(g) \/ OpRUnlock(g)

CloseStep(g) ==
  \/ CloseAnnounce(g) \/ CloseWLock(g) \/ CloseFree(g)
  \/ CloseZero(g) \/ CloseMark(g) \/ CloseUnlock(g)

Next == \E g \in Goroutines : Call(g) \/ NewStep(g) \/ OpStep(g) \/ CloseStep(g)

Spec == Init /\ [][Next]_vars

(* A goroutine inside the package is always runnable or waiting for the     *)
(* lock, and every C call it makes returns.  CloseAnnounce competes with    *)
(* other writers for a sync.Mutex, whose starvation mode hands it over in   *)
(* arrival order: a writer cannot lose that race for ever.                  *)
Fairness ==
  \A g \in Goroutines :
    /\ WF_vars(NewStep(g))
    /\ WF_vars(OpStep(g))
    /\ WF_vars(CloseStep(g))
    /\ SF_vars(CloseAnnounce(g))

FairSpec == Spec /\ Fairness

-----------------------------------------------------------------------------
(* Correctness.                                                             *)

InUse(g) == pc[g] \in UseSteps

(* While EVP_*Init_ex2 runs, the shared EVP_CIPHER it was given has not     *)
(* been freed (cipher.go:35-39: a Close elsewhere is not a use-after-free). *)
NoUseAfterFree ==
  \A g \in Goroutines :
    pc[g] = "cipherInit" => cipher /\ Handle \in holders

(* While a context reads the shared key, Close has not begun to zero it: no *)
(* call ever encrypts under an all-zero key.                                *)
NoZeroedKey == \A g \in Goroutines : pc[g] \in {"cipherInit", "keyInit"} => key

(* Close waits for the operations in flight: while it takes the handle      *)
(* apart no goroutine is between its closed check and its RUnlock, and no   *)
(* second Close is taking it apart too.                                     *)
CloseIsAlone ==
  \A g, h \in Goroutines :
    pc[g] \in FreeSteps /\ h # g => ~InUse(h) /\ pc[h] \notin FreeSteps

(* When nobody is inside the package, the EVP_CIPHER is held exactly if     *)
(* there is an open handle: no constructor failure, failed operation or     *)
(* Close leaks it or drops it too early.                                    *)
CipherBalanced ==
  (\A g \in Goroutines : pc[g] = "idle") =>
    holders = IF created /\ ~closed THEN {Handle} ELSE {}

(* Once closed the handle stays closed, and no goroutine gets past the      *)
(* closed check any more (cipher.go:480-483: later calls get ErrClosed).    *)
ClosedIsFinal == [][closed => closed' /\ (\A g \in Goroutines :
                     InUse(g)' => InUse(g))]_vars

(* Every call returns, readers and closers alike: the lock deadlocks nobody *)
(* and starves nobody.                                                      *)
CallsReturn == \A g \in Goroutines : pc[g] # "idle" ~> pc[g] = "idle"

-----------------------------------------------------------------------------
(* The contract of module ClosableHandle, and how this state maps to it: an *)
(* operation is admitted or refused at its closed check, and Close takes    *)
(* effect when it sets closed, or finds it set.                             *)

Standing(g) ==
  CASE pc[g] = "idle" -> "idle"
    [] pc[g] \in NewSteps -> "making"
    [] pc[g] \in GuardSteps -> "asking"
    [] InUse(g) -> "admitted"
    [] pc[g] = "runlock" ->
         IF result[g] = "ErrClosed" THEN "refused" ELSE "admitted"
    [] pc[g] = "unlock" -> "closed"
    [] OTHER -> "closing"

Visible(g) == IF pc[g] = "idle" THEN result[g] ELSE "none"

Contract == INSTANCE ClosableHandle WITH
  status <- [g \in Goroutines |-> Standing(g)],
  answer <- [g \in Goroutines |-> Visible(g)]

(* Every behaviour of the handle is one the contract allows.                *)
KeepsContract == Contract!Spec
=============================================================================

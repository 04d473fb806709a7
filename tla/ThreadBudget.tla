---------------------------- MODULE ThreadBudget ----------------------------
(***************************************************************************)
(* Context.Argon2 (kdf.go) on one Context shared by goroutines: the        *)
(* bounds on the lanes, the raising of the context's thread budget under   *)
(* the package's threadBudget mutex, and the derivation that relies on it. *)
(*                                                                         *)
(* The budget is OpenSSL's, one number per library context; a derivation   *)
(* with more than one lane fails if the budget is smaller.                 *)
(***************************************************************************)
EXTENDS Integers, Goroutines

CONSTANTS
  MaxLanes,     \* maxArgon2Lanes
  Requests      \* the lanes callers ask for

ASSUME LanesAssumption == MaxLanes \in Nat \ {0}
ASSUME RequestsAssumption == Requests \subseteq Nat

VARIABLES
  pc,           \* where each goroutine is in Argon2
  lanes,        \* its lanes, after validation
  reply,        \* what its last call returned
  mutex,        \* threadBudget: its holder
  budget        \* OSSL_get_max_threads

vars == <<pc, lanes, reply, mutex, budget>>

Steps   == {"idle", "lock", "read", "set", "unlock", "derive"}
Replies == {"none", "ok", "tooMany", "noBudget", "notRaised"}

TypeOK ==
  /\ pc \in [Goroutines -> Steps]
  /\ lanes \in [Goroutines -> 1..MaxLanes]
  /\ reply \in [Goroutines -> Replies]
  /\ mutex \in Goroutines \cup {Nobody}
  /\ budget \in 0..MaxLanes

Init ==
  /\ pc = [g \in Goroutines |-> "idle"]
  /\ lanes = [g \in Goroutines |-> 1]
  /\ reply = [g \in Goroutines |-> "none"]
  /\ mutex = Nobody
  /\ budget = 0

Goto(g, from, to) == pc[g] = from /\ pc' = [pc EXCEPT ![g] = to]
Return(g, r) == reply' = [reply EXCEPT ![g] = r]

-----------------------------------------------------------------------------
(* Too many lanes are refused before anything else happens.                 *)
Refuse(g, n) ==
  /\ pc[g] = "idle"
  /\ n > MaxLanes
  /\ Return(g, "tooMany")
  /\ UNCHANGED <<pc, lanes, mutex, budget>>

\* Mutant of Begin: the bound is not checked.
BeginUnbounded(g, n) ==
  /\ lanes' = [lanes EXCEPT ![g] = IF n = 0 THEN 1 ELSE n]
  /\ Goto(g, "idle", IF n > 1 THEN "lock" ELSE "derive")
  /\ Return(g, "none")
  /\ UNCHANGED <<mutex, budget>>

(* No lanes mean one; one lane needs no budget.                             *)
Begin(g, n) ==
  /\ n <= MaxLanes
  /\ lanes' = [lanes EXCEPT ![g] = IF n = 0 THEN 1 ELSE n]
  /\ Goto(g, "idle", IF n > 1 THEN "lock" ELSE "derive")
  /\ Return(g, "none")
  /\ UNCHANGED <<mutex, budget>>

\* Mutant of Lock: the mutex excludes nobody.
LockShared(g) ==
  /\ Goto(g, "lock", "read")
  /\ mutex' = g
  /\ UNCHANGED <<lanes, reply, budget>>

Lock(g) ==
  /\ Goto(g, "lock", "read")
  /\ mutex = Nobody
  /\ mutex' = g
  /\ UNCHANGED <<lanes, reply, budget>>

ReadBudget(g) ==
  /\ Goto(g, "read", IF budget < lanes[g] THEN "set" ELSE "unlock")
  /\ UNCHANGED <<lanes, reply, mutex, budget>>

\* Mutant of SetBudget: a failure to raise the budget is not reported.
SetBudgetUnreported(g) ==
  /\ Goto(g, "set", "unlock")
  /\ budget' \in {lanes[g], budget}
  /\ UNCHANGED <<lanes, reply, mutex>>

SetBudget(g) ==
  /\ Goto(g, "set", "unlock")
  /\ \/ budget' = lanes[g] /\ UNCHANGED reply
     \/ Return(g, "notRaised") /\ UNCHANGED budget
  /\ UNCHANGED <<lanes, mutex>>

\* Mutant of Unlock: the early return comes before the Unlock.
UnlockForgotten(g) ==
  /\ Goto(g, "unlock", IF reply[g] = "notRaised" THEN "idle" ELSE "derive")
  /\ mutex' = IF reply[g] = "notRaised" THEN mutex ELSE Nobody
  /\ UNCHANGED <<lanes, reply, budget>>

Unlock(g) ==
  /\ Goto(g, "unlock", IF reply[g] = "notRaised" THEN "idle" ELSE "derive")
  /\ mutex' = Nobody
  /\ UNCHANGED <<lanes, reply, budget>>

(* EVP_KDF_derive, external: it needs the budget when lanes > 1.            *)
Derive(g) ==
  /\ Goto(g, "derive", "idle")
  /\ Return(g, IF lanes[g] > 1 /\ budget < lanes[g] THEN "noBudget" ELSE "ok")
  /\ UNCHANGED <<lanes, mutex, budget>>

Step(g) ==
  Lock(g) \/ ReadBudget(g) \/ SetBudget(g) \/ Unlock(g) \/ Derive(g)

Next == \E g \in Goroutines : (\E n \in Requests : Refuse(g, n) \/ Begin(g, n)) \/ Step(g)

Spec == Init /\ [][Next]_vars

(* Every call makes progress; sync.Mutex starves nobody.                    *)
Fairness == \A g \in Goroutines : WF_vars(Step(g)) /\ SF_vars(Lock(g))
FairSpec == Spec /\ Fairness

-----------------------------------------------------------------------------
(* Correctness.                                                             *)

(* kdf.go:224-236: the ceiling a call has made sure of never drops below    *)
(* what it asked for before its derivation runs, whoever else is raising    *)
(* the budget meanwhile.                                                    *)
BudgetSuffices ==
  \A g \in Goroutines : pc[g] = "derive" /\ lanes[g] > 1 => budget >= lanes[g]

(* The budget is only ever raised (kdf.go:224).                             *)
NeverLowered == [][budget' >= budget]_vars

(* Every call returns: no early return keeps the mutex.                     *)
CallsReturn == \A g \in Goroutines : pc[g] # "idle" ~> pc[g] = "idle"
=============================================================================

------------------------- MODULE SharedHandleProofs -------------------------
(***************************************************************************)
(* Proofs about SharedHandle, for any number of goroutines.                *)
(*                                                                         *)
(* The properties follow from an inductive invariant in three parts:       *)
(* LockInv ties the position of each goroutine to what it holds of the     *)
(* lock, LifeInv ties the fields of the handle and the references to its   *)
(* cipher to those positions, and ResultInv says which answers a call can  *)
(* be carrying on its way out.                                             *)
(***************************************************************************)
EXTENDS SharedHandle, TLAPS

HoldsRead(g) == InUse(g) \/ pc[g] = "runlock" \/ (pc[g] = "check" /\ g \notin parked)
HoldsWrite(g) == pc[g] \in FreeSteps \cup {"wlock", "unlock"}

LockInv ==
  /\ \A g \in Goroutines : g \in readers <=> HoldsRead(g)
  /\ \A g \in Goroutines : g \in parked => pc[g] = "check"
  /\ \A g \in Goroutines : HoldsWrite(g) <=> writer = g
  /\ \A g \in Goroutines : pc[g] \in FreeSteps \cup {"unlock"} => readers = {}

Intact ==
  /\ created
  /\ ~closed
  /\ \A g \in Goroutines : pc[g] \notin {"zero", "mark"}

LifeInv ==
  /\ Intact => cipher
  /\ created /\ ~closed /\ (\A g \in Goroutines : pc[g] # "mark") => key
  /\ Handle \in holders <=> Intact \/ \E g \in Goroutines : pc[g] = "validate"
  /\ \A g \in Goroutines :
       /\ pc[g] \in OpSteps \cup CloseSteps => created
       /\ pc[g] \in NewSteps => ~created /\ ~closed
       /\ pc[g] \in NewSteps => \A h \in Goroutines : pc[h] \in NewSteps => h = g
       /\ InUse(g) \/ pc[g] \in FreeSteps => ~closed
       /\ g \in holders => pc[g] \in {"keyInit", "process", "freectx"}
  /\ closed => created

ResultInv ==
  \A g \in Goroutines :
    /\ pc[g] = "freectx" => result[g] \in {"ok", "err"}
    /\ pc[g] = "runlock" => result[g] \in {"ok", "err", "ErrClosed"}
    /\ pc[g] = "runlock" /\ result[g] # "ErrClosed" => ~closed

IndInv == TypeOK /\ LockInv /\ LifeInv /\ ResultInv

\* The definitions that spell out where a goroutine can be.
USE DEF Steps, NewSteps, GuardSteps, UseSteps, OpSteps, FreeSteps, CloseSteps,
        Results, Goto, Return, InUse

(* The invariant holds of a handle that is not yet constructed.             *)
LEMMA InitIndInv == Init => IndInv
BY NobodyAssumption, HandleAssumption
DEF Init, RWInit, IndInv, TypeOK, RWTypeOK, LockInv, HoldsRead, HoldsWrite,
    LifeInv, Intact, ResultInv

(* Every step preserves the invariant, action by action.                    *)
LEMMA NextIndInv == IndInv /\ [Next]_vars => IndInv'
<1> SUFFICES ASSUME IndInv, [Next]_vars PROVE IndInv'
  OBVIOUS
<1> USE NobodyAssumption, HandleAssumption DEF IndInv, rwVars
<1>1. ASSUME NEW g \in Goroutines, NewCall(g) PROVE IndInv'
  <2>1. TypeOK'
    BY <1>1 DEF NewCall, TypeOK, RWTypeOK
  <2>2. LockInv'
    BY <1>1 DEF NewCall, TypeOK, RWTypeOK, LockInv, HoldsRead, HoldsWrite
  <2>3. LifeInv'
    BY <1>1 DEF NewCall, TypeOK, RWTypeOK, LockInv, HoldsRead, HoldsWrite, LifeInv, Intact
  <2>4. ResultInv'
    BY <1>1 DEF NewCall, TypeOK, RWTypeOK, LockInv, HoldsRead, HoldsWrite, LifeInv, ResultInv
  <2> QED
    BY <2>1, <2>2, <2>3, <2>4
<1>2. ASSUME NEW g \in Goroutines, Fetch(g) PROVE IndInv'
  <2>1. TypeOK'
    BY <1>2 DEF Fetch, TypeOK, RWTypeOK
  <2>2. LockInv'
    BY <1>2 DEF Fetch, TypeOK, RWTypeOK, LockInv, HoldsRead, HoldsWrite
  <2>3. LifeInv'
    BY <1>2 DEF Fetch, TypeOK, RWTypeOK, LockInv, HoldsRead, HoldsWrite, LifeInv, Intact
  <2>4. ResultInv'
    BY <1>2 DEF Fetch, TypeOK, RWTypeOK, LockInv, HoldsRead, HoldsWrite, LifeInv, ResultInv
  <2> QED
    BY <2>1, <2>2, <2>3, <2>4
<1>3. ASSUME NEW g \in Goroutines, Refuse(g) PROVE IndInv'
  <2>1. TypeOK'
    BY <1>3 DEF Refuse, TypeOK, RWTypeOK
  <2>2. LockInv'
    BY <1>3 DEF Refuse, TypeOK, RWTypeOK, LockInv, HoldsRead, HoldsWrite
  <2>3. LifeInv'
    BY <1>3 DEF Refuse, TypeOK, RWTypeOK, LockInv, HoldsRead, HoldsWrite, LifeInv, Intact
  <2>4. ResultInv'
    BY <1>3 DEF Refuse, TypeOK, RWTypeOK, LockInv, HoldsRead, HoldsWrite, LifeInv, ResultInv
  <2> QED
    BY <2>1, <2>2, <2>3, <2>4
<1>4. ASSUME NEW g \in Goroutines, Accept(g) PROVE IndInv'
  <2>1. TypeOK'
    BY <1>4 DEF Accept, TypeOK, RWTypeOK
  <2>2. LockInv'
    BY <1>4 DEF Accept, TypeOK, RWTypeOK, LockInv, HoldsRead, HoldsWrite
  <2>3. LifeInv'
    BY <1>4 DEF Accept, TypeOK, RWTypeOK, LockInv, HoldsRead, HoldsWrite, LifeInv, Intact
  <2>4. ResultInv'
    BY <1>4 DEF Accept, TypeOK, RWTypeOK, LockInv, HoldsRead, HoldsWrite, LifeInv, ResultInv
  <2> QED
    BY <2>1, <2>2, <2>3, <2>4
<1>5. ASSUME NEW g \in Goroutines, OpOnNil(g) PROVE IndInv'
  <2>1. TypeOK'
    BY <1>5 DEF OpOnNil, TypeOK, RWTypeOK
  <2>2. LockInv'
    BY <1>5 DEF OpOnNil, TypeOK, RWTypeOK, LockInv, HoldsRead, HoldsWrite
  <2>3. LifeInv'
    BY <1>5 DEF OpOnNil, TypeOK, RWTypeOK, LockInv, HoldsRead, HoldsWrite, LifeInv, Intact
  <2>4. ResultInv'
    BY <1>5 DEF OpOnNil, TypeOK, RWTypeOK, LockInv, HoldsRead, HoldsWrite, LifeInv, ResultInv
  <2> QED
    BY <2>1, <2>2, <2>3, <2>4
<1>6. ASSUME NEW g \in Goroutines, OpCall(g) PROVE IndInv'
  <2>1. TypeOK'
    BY <1>6 DEF OpCall, TypeOK, RWTypeOK
  <2>2. LockInv'
    BY <1>6 DEF OpCall, TypeOK, RWTypeOK, LockInv, HoldsRead, HoldsWrite
  <2>3. LifeInv'
    BY <1>6 DEF OpCall, TypeOK, RWTypeOK, LockInv, HoldsRead, HoldsWrite, LifeInv, Intact
  <2>4. ResultInv'
    BY <1>6 DEF OpCall, TypeOK, RWTypeOK, LockInv, HoldsRead, HoldsWrite, LifeInv, ResultInv
  <2> QED
    BY <2>1, <2>2, <2>3, <2>4
<1>7. ASSUME NEW g \in Goroutines, OpRLock(g) PROVE IndInv'
  <2>1. TypeOK'
    BY <1>7 DEF OpRLock, RLock, TypeOK, RWTypeOK
  <2>2. LockInv'
    BY <1>7 DEF OpRLock, RLock, TypeOK, RWTypeOK, LockInv, HoldsRead, HoldsWrite
  <2>3. LifeInv'
    BY <1>7 DEF OpRLock, RLock, TypeOK, RWTypeOK, LockInv, HoldsRead, HoldsWrite, LifeInv, Intact
  <2>4. ResultInv'
    BY <1>7 DEF OpRLock, RLock, TypeOK, RWTypeOK, LockInv, HoldsRead, HoldsWrite, LifeInv, ResultInv
  <2> QED
    BY <2>1, <2>2, <2>3, <2>4
<1>8. ASSUME NEW g \in Goroutines, OpRefused(g) PROVE IndInv'
  <2>1. TypeOK'
    BY <1>8 DEF OpRefused, TypeOK, RWTypeOK
  <2>2. LockInv'
    BY <1>8 DEF OpRefused, TypeOK, RWTypeOK, LockInv, HoldsRead, HoldsWrite
  <2>3. LifeInv'
    BY <1>8 DEF OpRefused, TypeOK, RWTypeOK, LockInv, HoldsRead, HoldsWrite, LifeInv, Intact
  <2>4. ResultInv'
    BY <1>8 DEF OpRefused, TypeOK, RWTypeOK, LockInv, HoldsRead, HoldsWrite, LifeInv, ResultInv
  <2> QED
    BY <2>1, <2>2, <2>3, <2>4
<1>9. ASSUME NEW g \in Goroutines, OpAdmitted(g) PROVE IndInv'
  <2>1. TypeOK'
    BY <1>9 DEF OpAdmitted, TypeOK, RWTypeOK
  <2>2. LockInv'
    BY <1>9 DEF OpAdmitted, TypeOK, RWTypeOK, LockInv, HoldsRead, HoldsWrite
  <2>3. LifeInv'
    BY <1>9 DEF OpAdmitted, TypeOK, RWTypeOK, LockInv, HoldsRead, HoldsWrite, LifeInv, Intact
  <2>4. ResultInv'
    BY <1>9 DEF OpAdmitted, TypeOK, RWTypeOK, LockInv, HoldsRead, HoldsWrite, LifeInv, ResultInv
  <2> QED
    BY <2>1, <2>2, <2>3, <2>4
<1>10. ASSUME NEW g \in Goroutines, ArgsRefused(g) PROVE IndInv'
  <2>1. TypeOK'
    BY <1>10 DEF ArgsRefused, TypeOK, RWTypeOK
  <2>2. LockInv'
    BY <1>10 DEF ArgsRefused, TypeOK, RWTypeOK, LockInv, HoldsRead, HoldsWrite
  <2>3. LifeInv'
    BY <1>10 DEF ArgsRefused, TypeOK, RWTypeOK, LockInv, HoldsRead, HoldsWrite, LifeInv, Intact
  <2>4. ResultInv'
    BY <1>10 DEF ArgsRefused, TypeOK, RWTypeOK, LockInv, HoldsRead, HoldsWrite, LifeInv, ResultInv
  <2> QED
    BY <2>1, <2>2, <2>3, <2>4
<1>11. ASSUME NEW g \in Goroutines, ArgsAccepted(g) PROVE IndInv'
  <2>1. TypeOK'
    BY <1>11 DEF ArgsAccepted, TypeOK, RWTypeOK
  <2>2. LockInv'
    BY <1>11 DEF ArgsAccepted, TypeOK, RWTypeOK, LockInv, HoldsRead, HoldsWrite
  <2>3. LifeInv'
    BY <1>11 DEF ArgsAccepted, TypeOK, RWTypeOK, LockInv, HoldsRead, HoldsWrite, LifeInv, Intact
  <2>4. ResultInv'
    BY <1>11 DEF ArgsAccepted, TypeOK, RWTypeOK, LockInv, HoldsRead, HoldsWrite, LifeInv, ResultInv
  <2> QED
    BY <2>1, <2>2, <2>3, <2>4
<1>12. ASSUME NEW g \in Goroutines, NewCtx(g) PROVE IndInv'
  <2>1. TypeOK'
    BY <1>12 DEF NewCtx, TypeOK, RWTypeOK
  <2>2. LockInv'
    BY <1>12 DEF NewCtx, TypeOK, RWTypeOK, LockInv, HoldsRead, HoldsWrite
  <2>3. LifeInv'
    BY <1>12 DEF NewCtx, TypeOK, RWTypeOK, LockInv, HoldsRead, HoldsWrite, LifeInv, Intact
  <2>4. ResultInv'
    BY <1>12 DEF NewCtx, TypeOK, RWTypeOK, LockInv, HoldsRead, HoldsWrite, LifeInv, ResultInv
  <2> QED
    BY <2>1, <2>2, <2>3, <2>4
<1>13. ASSUME NEW g \in Goroutines, CipherInit(g) PROVE IndInv'
  <2>1. TypeOK'
    BY <1>13 DEF CipherInit, TypeOK, RWTypeOK
  <2>2. LockInv'
    BY <1>13 DEF CipherInit, TypeOK, RWTypeOK, LockInv, HoldsRead, HoldsWrite
  <2>3. LifeInv'
    BY <1>13 DEF CipherInit, TypeOK, RWTypeOK, LockInv, HoldsRead, HoldsWrite, LifeInv, Intact
  <2>4. ResultInv'
    BY <1>13 DEF CipherInit, TypeOK, RWTypeOK, LockInv, HoldsRead, HoldsWrite, LifeInv, ResultInv
  <2> QED
    BY <2>1, <2>2, <2>3, <2>4
<1>14. ASSUME NEW g \in Goroutines, KeyInit(g) PROVE IndInv'
  <2>1. TypeOK'
    BY <1>14 DEF KeyInit, TypeOK, RWTypeOK
  <2>2. LockInv'
    BY <1>14 DEF KeyInit, TypeOK, RWTypeOK, LockInv, HoldsRead, HoldsWrite
  <2>3. LifeInv'
    BY <1>14 DEF KeyInit, TypeOK, RWTypeOK, LockInv, HoldsRead, HoldsWrite, LifeInv, Intact
  <2>4. ResultInv'
    BY <1>14 DEF KeyInit, TypeOK, RWTypeOK, LockInv, HoldsRead, HoldsWrite, LifeInv, ResultInv
  <2> QED
    BY <2>1, <2>2, <2>3, <2>4
<1>15. ASSUME NEW g \in Goroutines, Process(g) PROVE IndInv'
  <2>1. TypeOK'
    BY <1>15 DEF Process, TypeOK, RWTypeOK
  <2>2. LockInv'
    BY <1>15 DEF Process, TypeOK, RWTypeOK, LockInv, HoldsRead, HoldsWrite
  <2>3. LifeInv'
    BY <1>15 DEF Process, TypeOK, RWTypeOK, LockInv, HoldsRead, HoldsWrite, LifeInv, Intact
  <2>4. ResultInv'
    BY <1>15 DEF Process, TypeOK, RWTypeOK, LockInv, HoldsRead, HoldsWrite, LifeInv, ResultInv
  <2> QED
    BY <2>1, <2>2, <2>3, <2>4
<1>16. ASSUME NEW g \in Goroutines, FreeCtx(g) PROVE IndInv'
  <2>1. TypeOK'
    BY <1>16 DEF FreeCtx, TypeOK, RWTypeOK
  <2>2. LockInv'
    BY <1>16 DEF FreeCtx, TypeOK, RWTypeOK, LockInv, HoldsRead, HoldsWrite
  <2>3. LifeInv'
    BY <1>16 DEF FreeCtx, TypeOK, RWTypeOK, LockInv, HoldsRead, HoldsWrite, LifeInv, Intact
  <2>4. ResultInv'
    BY <1>16 DEF FreeCtx, TypeOK, RWTypeOK, LockInv, HoldsRead, HoldsWrite, LifeInv, ResultInv
  <2> QED
    BY <2>1, <2>2, <2>3, <2>4
<1>17. ASSUME NEW g \in Goroutines, OpRUnlock(g) PROVE IndInv'
  <2>1. TypeOK'
    BY <1>17 DEF OpRUnlock, RUnlock, TypeOK, RWTypeOK
  <2>2. LockInv'
    BY <1>17 DEF OpRUnlock, RUnlock, TypeOK, RWTypeOK, LockInv, HoldsRead, HoldsWrite
  <2>3. LifeInv'
    BY <1>17 DEF OpRUnlock, RUnlock, TypeOK, RWTypeOK, LockInv, HoldsRead, HoldsWrite, LifeInv, Intact
  <2>4. ResultInv'
    BY <1>17 DEF OpRUnlock, RUnlock, TypeOK, RWTypeOK, LockInv, HoldsRead, HoldsWrite, LifeInv, ResultInv
  <2> QED
    BY <2>1, <2>2, <2>3, <2>4
<1>18. ASSUME NEW g \in Goroutines, CloseCall(g) PROVE IndInv'
  <2>1. TypeOK'
    BY <1>18 DEF CloseCall, TypeOK, RWTypeOK
  <2>2. LockInv'
    BY <1>18 DEF CloseCall, TypeOK, RWTypeOK, LockInv, HoldsRead, HoldsWrite
  <2>3. LifeInv'
    BY <1>18 DEF CloseCall, TypeOK, RWTypeOK, LockInv, HoldsRead, HoldsWrite, LifeInv, Intact
  <2>4. ResultInv'
    BY <1>18 DEF CloseCall, TypeOK, RWTypeOK, LockInv, HoldsRead, HoldsWrite, LifeInv, ResultInv
  <2> QED
    BY <2>1, <2>2, <2>3, <2>4
<1>19. ASSUME NEW g \in Goroutines, CloseAnnounce(g) PROVE IndInv'
  <2>1. TypeOK'
    BY <1>19 DEF CloseAnnounce, LockAnnounce, TypeOK, RWTypeOK
  <2>2. LockInv'
    BY <1>19 DEF CloseAnnounce, LockAnnounce, TypeOK, RWTypeOK, LockInv, HoldsRead, HoldsWrite
  <2>3. LifeInv'
    BY <1>19 DEF CloseAnnounce, LockAnnounce, TypeOK, RWTypeOK, LockInv, HoldsRead, HoldsWrite, LifeInv, Intact
  <2>4. ResultInv'
    BY <1>19 DEF CloseAnnounce, LockAnnounce, TypeOK, RWTypeOK, LockInv, HoldsRead, HoldsWrite, LifeInv, ResultInv
  <2> QED
    BY <2>1, <2>2, <2>3, <2>4
<1>20. ASSUME NEW g \in Goroutines, CloseWLock(g) PROVE IndInv'
  <2>1. TypeOK'
    BY <1>20 DEF CloseWLock, WriteLocked, TypeOK, RWTypeOK
  <2>2. LockInv'
    BY <1>20 DEF CloseWLock, WriteLocked, TypeOK, RWTypeOK, LockInv, HoldsRead, HoldsWrite
  <2>3. LifeInv'
    BY <1>20 DEF CloseWLock, WriteLocked, TypeOK, RWTypeOK, LockInv, HoldsRead, HoldsWrite, LifeInv, Intact
  <2>4. ResultInv'
    BY <1>20 DEF CloseWLock, WriteLocked, TypeOK, RWTypeOK, LockInv, HoldsRead, HoldsWrite, LifeInv, ResultInv
  <2> QED
    BY <2>1, <2>2, <2>3, <2>4
<1>21. ASSUME NEW g \in Goroutines, CloseFree(g) PROVE IndInv'
  <2>1. TypeOK'
    BY <1>21 DEF CloseFree, TypeOK, RWTypeOK
  <2>2. LockInv'
    BY <1>21 DEF CloseFree, TypeOK, RWTypeOK, LockInv, HoldsRead, HoldsWrite
  <2>3. LifeInv'
    BY <1>21 DEF CloseFree, TypeOK, RWTypeOK, LockInv, HoldsRead, HoldsWrite, LifeInv, Intact
  <2>4. ResultInv'
    BY <1>21 DEF CloseFree, TypeOK, RWTypeOK, LockInv, HoldsRead, HoldsWrite, LifeInv, ResultInv
  <2> QED
    BY <2>1, <2>2, <2>3, <2>4
<1>22. ASSUME NEW g \in Goroutines, CloseZero(g) PROVE IndInv'
  <2>1. TypeOK'
    BY <1>22 DEF CloseZero, TypeOK, RWTypeOK
  <2>2. LockInv'
    BY <1>22 DEF CloseZero, TypeOK, RWTypeOK, LockInv, HoldsRead, HoldsWrite
  <2>3. LifeInv'
    BY <1>22 DEF CloseZero, TypeOK, RWTypeOK, LockInv, HoldsRead, HoldsWrite, LifeInv, Intact
  <2>4. ResultInv'
    BY <1>22 DEF CloseZero, TypeOK, RWTypeOK, LockInv, HoldsRead, HoldsWrite, LifeInv, ResultInv
  <2> QED
    BY <2>1, <2>2, <2>3, <2>4
<1>23. ASSUME NEW g \in Goroutines, CloseMark(g) PROVE IndInv'
  <2>1. TypeOK'
    BY <1>23 DEF CloseMark, TypeOK, RWTypeOK
  <2>2. LockInv'
    BY <1>23 DEF CloseMark, TypeOK, RWTypeOK, LockInv, HoldsRead, HoldsWrite
  <2>3. LifeInv'
    BY <1>23 DEF CloseMark, TypeOK, RWTypeOK, LockInv, HoldsRead, HoldsWrite, LifeInv, Intact
  <2>4. ResultInv'
    BY <1>23 DEF CloseMark, TypeOK, RWTypeOK, LockInv, HoldsRead, HoldsWrite, LifeInv, ResultInv
  <2> QED
    BY <2>1, <2>2, <2>3, <2>4
<1>24. ASSUME NEW g \in Goroutines, CloseUnlock(g) PROVE IndInv'
  <2>1. TypeOK'
    BY <1>24 DEF CloseUnlock, Unlock, TypeOK, RWTypeOK
  <2>2. LockInv'
    BY <1>24 DEF CloseUnlock, Unlock, TypeOK, RWTypeOK, LockInv, HoldsRead, HoldsWrite
  <2>3. LifeInv'
    BY <1>24 DEF CloseUnlock, Unlock, TypeOK, RWTypeOK, LockInv, HoldsRead, HoldsWrite, LifeInv, Intact
  <2>4. ResultInv'
    BY <1>24 DEF CloseUnlock, Unlock, TypeOK, RWTypeOK, LockInv, HoldsRead, HoldsWrite, LifeInv, ResultInv
  <2> QED
    BY <2>1, <2>2, <2>3, <2>4
<1>25. CASE UNCHANGED vars
  BY <1>25 DEF vars, TypeOK, RWTypeOK, LockInv, HoldsRead, HoldsWrite, LifeInv,
     Intact, ResultInv
<1> QED
  BY <1>1, <1>2, <1>3, <1>4, <1>5, <1>6, <1>7, <1>8, <1>9, <1>10, <1>11, <1>12, <1>13, <1>14, <1>15, <1>16, <1>17, <1>18, <1>19, <1>20, <1>21, <1>22, <1>23, <1>24, <1>25
  DEF Next, Call, NewStep, OpStep, CloseStep

(* The invariant holds of every behaviour: this is what the rest rests on.  *)
THEOREM Invariance == Spec => []IndInv
BY InitIndInv, NextIndInv, PTL DEF Spec

(* Every field keeps its type, whatever the goroutines do.                  *)
THEOREM TypeCorrect == Spec => []TypeOK
<1>1. IndInv => TypeOK
  BY DEF IndInv
<1> QED
  BY <1>1, Invariance, PTL

(* A Close never frees the EVP_CIPHER under an EVP_*Init_ex2 that uses it   *)
(* (cipher.go:35-39).                                                       *)
THEOREM UseAfterFreeImpossible == Spec => []NoUseAfterFree
<1>1. IndInv => NoUseAfterFree
  BY DEF IndInv, LockInv, LifeInv, Intact, HoldsRead, NoUseAfterFree
<1> QED
  BY <1>1, Invariance, PTL

(* No context is ever initialised with key bytes that Close is zeroing.     *)
THEOREM ZeroedKeyImpossible == Spec => []NoZeroedKey
<1>1. IndInv => NoZeroedKey
  BY DEF IndInv, LockInv, LifeInv, Intact, HoldsRead, NoZeroedKey
<1> QED
  BY <1>1, Invariance, PTL

(* Close takes the handle apart alone.                                      *)
THEOREM CloseExcludesAll == Spec => []CloseIsAlone
<1>1. IndInv => CloseIsAlone
  BY NobodyAssumption
  DEF IndInv, LockInv, HoldsRead, HoldsWrite, CloseIsAlone
<1> QED
  BY <1>1, Invariance, PTL

(* No reference to the EVP_CIPHER is leaked or dropped early.               *)
THEOREM ReferencesBalance == Spec => []CipherBalanced
<1>1. IndInv => CipherBalanced
  BY HandleAssumption DEF IndInv, TypeOK, LifeInv, Intact, CipherBalanced
<1> QED
  BY <1>1, Invariance, PTL

(* A closed handle stays closed and admits nobody.                          *)
THEOREM ClosedForGood == Spec => ClosedIsFinal
<1>1. IndInv /\ [Next]_vars =>
        [closed => closed' /\ (\A g \in Goroutines : InUse(g)' => InUse(g))]_vars
  <2> SUFFICES ASSUME IndInv, [Next]_vars, closed
               PROVE  closed' /\ \A g \in Goroutines : InUse(g)' => InUse(g)
    OBVIOUS
  <2>1. ASSUME NEW g \in Goroutines, Call(g) PROVE
          closed' /\ \A h \in Goroutines : InUse(h)' => InUse(h)
    BY <2>1 DEF Call, NewCall, OpOnNil, OpCall, CloseCall, IndInv, TypeOK
  <2>2. ASSUME NEW g \in Goroutines, NewStep(g) PROVE
          closed' /\ \A h \in Goroutines : InUse(h)' => InUse(h)
    BY <2>2 DEF NewStep, Fetch, Refuse, Accept, IndInv, TypeOK
  <2>3. ASSUME NEW g \in Goroutines, OpStep(g) PROVE
          closed' /\ \A h \in Goroutines : InUse(h)' => InUse(h)
    BY <2>3 DEF OpStep, OpRLock, OpRefused, OpAdmitted, ArgsRefused,
       ArgsAccepted, NewCtx, CipherInit, KeyInit, Process, FreeCtx, OpRUnlock,
       IndInv, TypeOK
  <2>4. ASSUME NEW g \in Goroutines, CloseStep(g) PROVE
          closed' /\ \A h \in Goroutines : InUse(h)' => InUse(h)
    BY <2>4 DEF CloseStep, CloseAnnounce, CloseWLock, CloseFree, CloseZero,
       CloseMark, CloseUnlock, IndInv, TypeOK
  <2>5. CASE UNCHANGED vars
    BY <2>5 DEF vars
  <2> QED
    BY <2>1, <2>2, <2>3, <2>4, <2>5 DEF Next
<1> QED
  BY <1>1, Invariance, PTL DEF Spec, ClosedIsFinal

-----------------------------------------------------------------------------
(* The refinement.  A step by g moves nobody else's standing, so each step  *)
(* is either the contract's step by g or leaves the contract's state alone. *)

Stands  == [g \in Goroutines |-> Standing(g)]
Answers == [g \in Goroutines |-> Visible(g)]

(* A handle that is not yet constructed is one of the contract.             *)
LEMMA RefineInit == Init => Contract!Init
BY DEF Init, Contract!Init, Standing, Visible

(* Every step is a step of the contract, or changes nothing the contract    *)
(* sees.                                                                    *)
LEMMA RefineNext ==
  IndInv /\ [Next]_vars => [Contract!Next]_(Contract!vars)
<1> SUFFICES ASSUME IndInv, [Next]_vars
             PROVE  [Contract!Next]_(Contract!vars)
  OBVIOUS
<1> USE DEF IndInv, Standing, Visible
<1>1. ASSUME NEW g \in Goroutines, NewCall(g) PROVE Contract!Call(g)
  <2>1. ~created /\ Stands[g] = "idle"
    BY <1>1 DEF NewCall, TypeOK, LifeInv, Stands
  <2>2. Stands' = [Stands EXCEPT ![g] = "making"]
    BY <1>1 DEF NewCall, TypeOK, RWTypeOK, LifeInv, ResultInv, Stands
  <2>3. Answers' = [Answers EXCEPT ![g] = "none"]
    BY <1>1 DEF NewCall, TypeOK, Answers
  <2> QED
    BY <1>1, <2>1, <2>2, <2>3
    DEF NewCall, Stands, Answers, Contract!Call, Contract!Move, Contract!Answer
<1>2. ASSUME NEW g \in Goroutines, Fetch(g)
      PROVE Contract!Make(g) \/ UNCHANGED Contract!vars
  <2>1. CASE Goto(g, "fetch", "validate") /\ UNCHANGED result
    BY <1>2, <2>1 DEF Fetch, TypeOK, Contract!vars
  <2>2. CASE Goto(g, "fetch", "idle") /\ Return(g, "err")
    <3>1. Stands[g] = "making"
      BY <2>2 DEF Stands
    <3>2. Stands' = [Stands EXCEPT ![g] = "idle"]
      BY <2>2 DEF TypeOK, Stands
    <3>3. Answers' = [Answers EXCEPT ![g] = "err"]
      BY <2>2 DEF TypeOK, Answers
    <3> QED
      BY <1>2, <3>1, <3>2, <3>3
      DEF Fetch, Stands, Answers, Contract!Make, Contract!Move, Contract!Answer
  <2> QED
    BY <1>2, <2>1, <2>2 DEF Fetch
<1>3. ASSUME NEW g \in Goroutines, Refuse(g) PROVE Contract!Make(g)
  <2>1. Stands[g] = "making"
    BY <1>3 DEF Refuse, TypeOK, LifeInv, Stands
  <2>2. Stands' = [Stands EXCEPT ![g] = "idle"]
    BY <1>3 DEF Refuse, TypeOK, RWTypeOK, LifeInv, ResultInv, Stands
  <2>3. Answers' = [Answers EXCEPT ![g] = "err"]
    BY <1>3 DEF Refuse, TypeOK, Answers
  <2> QED
    BY <1>3, <2>1, <2>2, <2>3
    DEF Refuse, Stands, Answers, Contract!Make, Contract!Move, Contract!Answer
<1>4. ASSUME NEW g \in Goroutines, Accept(g) PROVE Contract!Make(g)
  <2>1. Stands[g] = "making"
    BY <1>4 DEF Accept, TypeOK, LifeInv, Stands
  <2>2. Stands' = [Stands EXCEPT ![g] = "idle"]
    BY <1>4 DEF Accept, TypeOK, RWTypeOK, LifeInv, ResultInv, Stands
  <2>3. Answers' = [Answers EXCEPT ![g] = "ok"]
    BY <1>4 DEF Accept, TypeOK, Answers
  <2> QED
    BY <1>4, <2>1, <2>2, <2>3
    DEF Accept, Stands, Answers, Contract!Make, Contract!Move, Contract!Answer
<1>5. ASSUME NEW g \in Goroutines, OpOnNil(g) PROVE Contract!AskNil(g)
  <2>1. ~created /\ Stands[g] = "idle"
    BY <1>5 DEF OpOnNil, TypeOK, LifeInv, Stands
  <2>2. Stands' = Stands
    BY <1>5 DEF OpOnNil, TypeOK, Stands
  <2>3. Answers' = [Answers EXCEPT ![g] = "ErrClosed"]
    BY <1>5 DEF OpOnNil, TypeOK, Answers
  <2> QED
    BY <1>5, <2>1, <2>2, <2>3
    DEF OpOnNil, Stands, Answers, Contract!AskNil, Contract!Answer
<1>6. ASSUME NEW g \in Goroutines, OpCall(g) PROVE Contract!Call(g)
  <2>1. created /\ Stands[g] = "idle"
    BY <1>6 DEF OpCall, TypeOK, LifeInv, Stands
  <2>2. Stands' = [Stands EXCEPT ![g] = "asking"]
    BY <1>6 DEF OpCall, TypeOK, RWTypeOK, LifeInv, ResultInv, Stands
  <2>3. Answers' = [Answers EXCEPT ![g] = "none"]
    BY <1>6 DEF OpCall, TypeOK, Answers
  <2> QED
    BY <1>6, <2>1, <2>2, <2>3
    DEF OpCall, Stands, Answers, Contract!Call, Contract!Move, Contract!Answer
<1>7. ASSUME NEW g \in Goroutines, OpRLock(g) PROVE UNCHANGED Contract!vars
  BY <1>7 DEF OpRLock, TypeOK, LifeInv, ResultInv, Contract!vars
<1>8. ASSUME NEW g \in Goroutines, OpRefused(g) PROVE Contract!RefuseClosed(g)
  <2>1. closed /\ Stands[g] = "asking"
    BY <1>8 DEF OpRefused, TypeOK, LifeInv, Stands
  <2>2. Stands' = [Stands EXCEPT ![g] = "refused"]
    BY <1>8 DEF OpRefused, TypeOK, RWTypeOK, LifeInv, ResultInv, Stands
  <2>3. Answers' = Answers
    BY <1>8 DEF OpRefused, TypeOK, Answers
  <2> QED
    BY <1>8, <2>1, <2>2, <2>3
    DEF OpRefused, Stands, Answers, Contract!RefuseClosed, Contract!Move
<1>9. ASSUME NEW g \in Goroutines, OpAdmitted(g) PROVE Contract!Admit(g)
  <2>1. ~closed /\ Stands[g] = "asking"
    BY <1>9 DEF OpAdmitted, TypeOK, LifeInv, Stands
  <2>2. Stands' = [Stands EXCEPT ![g] = "admitted"]
    BY <1>9 DEF OpAdmitted, TypeOK, RWTypeOK, LifeInv, ResultInv, Stands
  <2>3. Answers' = Answers
    BY <1>9 DEF OpAdmitted, TypeOK, Answers
  <2> QED
    BY <1>9, <2>1, <2>2, <2>3
    DEF OpAdmitted, Stands, Answers, Contract!Admit, Contract!Move
<1>10. ASSUME NEW g \in Goroutines, ArgsRefused(g) PROVE UNCHANGED Contract!vars
  BY <1>10 DEF ArgsRefused, TypeOK, LifeInv, ResultInv, Contract!vars
<1>11. ASSUME NEW g \in Goroutines, ArgsAccepted(g) PROVE UNCHANGED Contract!vars
  BY <1>11 DEF ArgsAccepted, TypeOK, LifeInv, ResultInv, Contract!vars
<1>12. ASSUME NEW g \in Goroutines, NewCtx(g) PROVE UNCHANGED Contract!vars
  BY <1>12 DEF NewCtx, TypeOK, LifeInv, ResultInv, Contract!vars
<1>13. ASSUME NEW g \in Goroutines, CipherInit(g) PROVE UNCHANGED Contract!vars
  BY <1>13 DEF CipherInit, TypeOK, LifeInv, ResultInv, Contract!vars
<1>14. ASSUME NEW g \in Goroutines, KeyInit(g) PROVE UNCHANGED Contract!vars
  BY <1>14 DEF KeyInit, TypeOK, LifeInv, ResultInv, Contract!vars
<1>15. ASSUME NEW g \in Goroutines, Process(g) PROVE UNCHANGED Contract!vars
  BY <1>15 DEF Process, TypeOK, LifeInv, ResultInv, Contract!vars
<1>16. ASSUME NEW g \in Goroutines, FreeCtx(g) PROVE UNCHANGED Contract!vars
  BY <1>16 DEF FreeCtx, TypeOK, LifeInv, ResultInv, Contract!vars
<1>17. ASSUME NEW g \in Goroutines, OpRUnlock(g) PROVE Contract!Reply(g)
  <2>1. Stands[g] = IF result[g] = "ErrClosed" THEN "refused" ELSE "admitted"
    BY <1>17 DEF OpRUnlock, Stands
  <2>2. Stands' = [Stands EXCEPT ![g] = "idle"]
    BY <1>17 DEF OpRUnlock, TypeOK, RWTypeOK, LifeInv, ResultInv, Stands
  <2>3. /\ Answers' = [Answers EXCEPT ![g] = result[g]]
        /\ result[g] \in {"ok", "err", "ErrClosed"}
    BY <1>17 DEF OpRUnlock, TypeOK, ResultInv, Answers
  <2> QED
    BY <1>17, <2>1, <2>2, <2>3
    DEF OpRUnlock, Stands, Answers, Contract!Reply, Contract!Move, Contract!Answer
<1>18. ASSUME NEW g \in Goroutines, CloseCall(g) PROVE Contract!Call(g)
  <2>1. created /\ Stands[g] = "idle"
    BY <1>18 DEF CloseCall, TypeOK, LifeInv, Stands
  <2>2. Stands' = [Stands EXCEPT ![g] = "closing"]
    BY <1>18 DEF CloseCall, TypeOK, RWTypeOK, LifeInv, ResultInv, Stands
  <2>3. Answers' = [Answers EXCEPT ![g] = "none"]
    BY <1>18 DEF CloseCall, TypeOK, Answers
  <2> QED
    BY <1>18, <2>1, <2>2, <2>3
    DEF CloseCall, Stands, Answers, Contract!Call, Contract!Move, Contract!Answer
<1>19. ASSUME NEW g \in Goroutines, CloseAnnounce(g) PROVE UNCHANGED Contract!vars
  BY <1>19 DEF CloseAnnounce, TypeOK, LifeInv, ResultInv, Contract!vars
<1>20. ASSUME NEW g \in Goroutines, CloseWLock(g)
       PROVE Contract!TakeEffect(g) \/ UNCHANGED Contract!vars
  <2>1. CASE ~closed
    BY <1>20, <2>1 DEF CloseWLock, TypeOK, Contract!vars
  <2>2. CASE closed
    <3>1. Stands[g] = "closing" /\ \A h \in Goroutines : Stands[h] # "admitted"
      BY <1>20 DEF CloseWLock, WriteLocked, LockInv, HoldsRead, Stands
    <3>2. Stands' = [Stands EXCEPT ![g] = "closed"]
      BY <1>20, <2>2 DEF CloseWLock, TypeOK, Stands
    <3>3. Answers' = Answers
      BY <1>20, <2>2 DEF CloseWLock, TypeOK, Answers
    <3> QED
      BY <1>20, <2>2, <3>1, <3>2, <3>3
      DEF CloseWLock, TypeOK, Stands, Answers, Contract!TakeEffect, Contract!Move
  <2> QED
    BY <2>1, <2>2
<1>21. ASSUME NEW g \in Goroutines, CloseFree(g) PROVE UNCHANGED Contract!vars
  BY <1>21 DEF CloseFree, TypeOK, LifeInv, ResultInv, Contract!vars
<1>22. ASSUME NEW g \in Goroutines, CloseZero(g) PROVE UNCHANGED Contract!vars
  BY <1>22 DEF CloseZero, TypeOK, LifeInv, ResultInv, Contract!vars
<1>23. ASSUME NEW g \in Goroutines, CloseMark(g) PROVE Contract!TakeEffect(g)
  <2>1. Stands[g] = "closing" /\ \A h \in Goroutines : Stands[h] # "admitted"
    BY <1>23 DEF CloseMark, TypeOK, LockInv, HoldsRead, LifeInv, Stands
  <2>2. Stands' = [Stands EXCEPT ![g] = "closed"]
    BY <1>23 DEF CloseMark, TypeOK, RWTypeOK, LifeInv, ResultInv, Stands
  <2>3. Answers' = Answers
    BY <1>23 DEF CloseMark, TypeOK, Answers
  <2> QED
    BY <1>23, <2>1, <2>2, <2>3
    DEF CloseMark, Stands, Answers, Contract!TakeEffect, Contract!Move
<1>24. ASSUME NEW g \in Goroutines, CloseUnlock(g) PROVE Contract!CloseReturn(g)
  <2>1. Stands[g] = "closed"
    BY <1>24 DEF CloseUnlock, TypeOK, LifeInv, Stands
  <2>2. Stands' = [Stands EXCEPT ![g] = "idle"]
    BY <1>24 DEF CloseUnlock, TypeOK, RWTypeOK, LifeInv, ResultInv, Stands
  <2>3. Answers' = [Answers EXCEPT ![g] = "ok"]
    BY <1>24 DEF CloseUnlock, TypeOK, Answers
  <2> QED
    BY <1>24, <2>1, <2>2, <2>3
    DEF CloseUnlock, Stands, Answers, Contract!CloseReturn, Contract!Move, Contract!Answer
<1>25. CASE UNCHANGED vars
  BY <1>25 DEF vars, Contract!vars
<1> QED
  BY <1>1, <1>2, <1>3, <1>4, <1>5, <1>6, <1>7, <1>8, <1>9, <1>10, <1>11, <1>12, <1>13, <1>14, <1>15, <1>16, <1>17, <1>18, <1>19, <1>20, <1>21, <1>22, <1>23, <1>24, <1>25
  DEF Next, Call, NewStep, OpStep, CloseStep, Contract!Next

(* For every number of goroutines, a shared AEAD, Cipher or KeyWrap behaves *)
(* as the contract says: operations and Close each take effect at one       *)
(* instant, and Close only when no admitted operation is running.           *)
THEOREM Refinement == Spec => KeepsContract
BY RefineInit, RefineNext, Invariance, PTL DEF Spec, Contract!Spec, KeepsContract
=============================================================================

----------------------------- MODULE GoRWMutex -----------------------------
(***************************************************************************)
(* sync.RWMutex of the Go runtime, as AEAD, Cipher and KeyWrap use it.     *)
(*                                                                         *)
(* The part that matters to them is writer preference: once a writer has   *)
(* announced itself, a goroutine that calls RLock is parked even though    *)
(* only readers hold the lock, and every parked reader is let in by the    *)
(* Unlock of that writer, ahead of the next one.                           *)
(***************************************************************************)
EXTENDS Goroutines

VARIABLES
  readers,      \* goroutines that hold the read lock
  parked,       \* readers that arrived after a writer announced itself
  writer        \* the writer that announced itself, or Nobody

rwVars == <<readers, parked, writer>>

RWTypeOK ==
  /\ readers \in SUBSET Goroutines
  /\ parked \in SUBSET Goroutines
  /\ writer \in Goroutines \cup {Nobody}

RWInit ==
  /\ readers = {}
  /\ parked = {}
  /\ writer = Nobody

(* RLock enters at once when no writer is pending, and parks otherwise.     *)
RLock(g) ==
  /\ \/ writer = Nobody /\ readers' = readers \cup {g} /\ UNCHANGED parked
     \/ writer # Nobody /\ parked' = parked \cup {g} /\ UNCHANGED readers
  /\ UNCHANGED writer

RUnlock(g) ==
  /\ readers' = readers \ {g}
  /\ UNCHANGED <<parked, writer>>

(* The first half of Lock: win the mutex among writers and announce.        *)
LockAnnounce(g) ==
  /\ writer = Nobody
  /\ writer' = g
  /\ UNCHANGED <<readers, parked>>

(* The second half of Lock waits until the readers that were in are out.    *)
WriteLocked(g) == writer = g /\ readers = {}

Unlock(g) ==
  /\ writer' = Nobody
  /\ readers' = readers \cup parked
  /\ parked' = {}
=============================================================================

-------------------------------- MODULE Params --------------------------------
(***************************************************************************)
(* The OSSL_PARAM builder (params.go) and how its callers use it: entries   *)
(* whose key and value are copies in C memory that the builder owns, an    *)
(* array that c() terminates and hands to OpenSSL, and one free for all.   *)
(*                                                                         *)
(* A one-shot caller (kdf.go, sign.go, pkey.go, cipher.go) builds, hands    *)
(* over once and frees on its way out, whatever failed.  A MAC keeps the   *)
(* builder: it hands the same array over at every Reset and frees it with  *)
(* Close, or when its constructor fails.                                   *)
(***************************************************************************)
EXTENDS Naturals, FiniteSets, SequencesExt

CONSTANTS
  MaxEntries,   \* bound: parameters a caller sets
  MaxHandovers  \* bound: how often a MAC is initialised

VARIABLES
  list,         \* the array: entries that refer to allocations, and the end
  arena,        \* the allocations the builder owns
  heap,         \* the allocations that are live
  ended, freed, \* its flags
  asked,        \* how many parameters the caller has set
  user,         \* the caller, and where it is
  handed        \* the array as OpenSSL last saw it, and what was live then

vars == <<list, arena, heap, ended, freed, asked, user, handed>>

Blocks  == 0..2 * MaxEntries
NULL    == 0
End     == [end |-> TRUE]
Entries == [key : Blocks, data : Blocks]
Users   == {"once", "mac"}
Nothing == [n |-> 0]

TypeOK ==
  /\ ToSet(list) \subseteq Entries \cup {End}
  /\ arena \subseteq Blocks /\ heap \subseteq Blocks
  /\ ended \in BOOLEAN /\ freed \in BOOLEAN
  /\ asked \in 0..MaxEntries
  /\ user \in [kind : Users, at : {"build", "use", "done", "panicked"}]
  /\ handed.n \in 0..MaxHandovers

\* newParams.
Init ==
  /\ list = <<>>
  /\ arena = {}
  /\ heap = {}
  /\ ended = FALSE
  /\ freed = FALSE
  /\ asked = 0
  /\ user \in [kind : Users, at : {"build"}]
  /\ handed = Nothing

\* The next allocations of the arena.
Fresh(n) == {Cardinality(arena) + i : i \in 1..n}

\* UTF8, Octets, Int, UInt, SizeT and OctetsOut allocate a key and a value;
\* the OctetsNilData that declares a length has a key and no value.
Append1(n) ==
  LET new == Fresh(n)
      base == Cardinality(arena)
  IN /\ user.at = "build"
     /\ asked < MaxEntries
     /\ arena' = arena \cup new
     /\ heap' = heap \cup new
     /\ list' = Append(list, [key |-> base + 1, data |-> IF n = 2 THEN base + 2 ELSE NULL])
     /\ asked' = asked + 1
     /\ UNCHANGED <<ended, freed, user, handed>>

\* Mutant of Terminated: the end is appended at every call.
TerminatedAgain == Append(list, End)

Terminated == IF ended THEN list ELSE Append(list, End)

\* c(), and the C call that reads the array; it panics after free.
Handover ==
  /\ user.at \in {"build", "use"}
  /\ handed.n < IF user.kind = "mac" THEN MaxHandovers ELSE 1
  /\ IF freed
     THEN /\ user' = [user EXCEPT !.at = "panicked"]
          /\ UNCHANGED <<list, ended, handed>>
     ELSE /\ list' = Terminated
          /\ ended' = TRUE
          /\ handed' = [n |-> handed.n + 1, list |-> Terminated, live |-> heap]
          /\ user' = [user EXCEPT !.at = "use"]
  /\ UNCHANGED <<arena, heap, freed, asked>>

\* Mutant of Free: the values are freed, the keys are forgotten.
FreeHalf ==
  /\ user.at \in {"build", "use"}
  /\ heap' = heap \ {e.data : e \in ToSet(list) \ {End}}
  /\ arena' = {}
  /\ list' = <<>>
  /\ freed' = TRUE
  /\ user' = [user EXCEPT !.at = "done"]
  /\ UNCHANGED <<ended, asked, handed>>

\* free, the caller's last use: the deferred one, that of a failed newMAC,
\* or Close's.
Free ==
  /\ user.at \in {"build", "use"}
  /\ heap' = heap \ arena
  /\ arena' = {}
  /\ list' = <<>>
  /\ freed' = TRUE
  /\ user' = [user EXCEPT !.at = "done"]
  /\ UNCHANGED <<ended, asked, handed>>

Next == (\E n \in 1..2 : Append1(n)) \/ Handover \/ Free

Spec == Init /\ [][Next]_vars

-----------------------------------------------------------------------------
(* Correctness.                                                             *)

(* Every time OpenSSL is given the array, at the first init and at every    *)
(* Reset, it finds all the parameters that were set, each in memory that is *)
(* still allocated, and one terminator behind them (params.go:161-173).     *)
ArrayIsWhole ==
  handed # Nothing =>
    /\ Len(handed.list) = asked + 1 /\ Last(handed.list) = End
    /\ \A i \in 1..asked : LET e == handed.list[i]
         IN e # End /\ e.key \in handed.live /\ e.data \in handed.live \cup {NULL}

(* Nothing the builder allocated outlives its caller, and no caller reaches *)
(* the panic of c().                                                        *)
ArenaFreed == user.at # "panicked" /\ (user.at = "done" => heap = {})
=============================================================================

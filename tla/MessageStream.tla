--------------------------- MODULE MessageStream ---------------------------
(***************************************************************************)
(* Hash (digest.go) and MAC (mac.go): handles that satisfy hash.Hash, whose *)
(* Sum and Reset return no error, so that failures are latched in err and   *)
(* the caller asks Err.  The module follows what each EVP context has       *)
(* really absorbed beside what the caller offered it, the C objects each    *)
(* handle owns through a constructor that may fail at every call, and the   *)
(* key a MAC keeps for Reset.                                               *)
(*                                                                          *)
(* Neither type is safe for concurrent use: one goroutine makes all calls.  *)
(* Every call into OpenSSL may fail; a failed Update absorbs nothing.       *)
(***************************************************************************)
EXTENDS Integers, Sequences

CONSTANTS
  Handles,      \* Go handles, each built at most once
  Chunks,       \* what one Write offers
  MaxWrites     \* bound: how many chunks a caller offers between two Resets

ASSUME BoundAssumption == MaxWrites \in Nat

VARIABLES
  handle,       \* the fields of each Hash or MAC
  live,         \* the C objects that are allocated, by owner
  pc,           \* where a constructor is
  callerKey,    \* what the caller's key slice holds now
  given,        \* what it held when the MAC was built
  offered,      \* what the caller has written since construction or Reset
  consumed,     \* the handles finalised in place by SumXOF since then
  out,          \* the last Sum, and what Err said after it
  oneShot       \* the last Digest or HMACSum

vars == <<handle, live, pc, callerKey, given, offered, consumed, out, oneShot>>

Kinds    == {"hash", "xof", "mac"}
KeyBytes == {"secret", "scribble"}
Errors   == {"nil", "ErrClosed", "useSumXOF", "openssl"}
Messages == UNION {[1..n -> Chunks] : n \in 0..MaxWrites}

Contexts == [state : {"absorbing", "final"}, msg : Messages,
             key : KeyBytes \cup {"none"}]

\* key is the private copy a MAC keeps; Zero leaves "zeroed" behind.
HandleState == [life : {"open", "closed"}, kind : Kinds, evp : Contexts,
                key : KeyBytes \cup {"none", "zeroed"}, err : Errors]
Unbuilt == [life |-> "unbuilt"]

Objects == {"alg", "ctx", "params"}
Stages  == {"fetch", "ctx", "init"}
Idle    == [at |-> "idle"]

NoSum     == [none |-> TRUE]
Sums      == [of : Handles, ok : BOOLEAN, msg : Messages, key : KeyBytes \cup {"none"},
              offered : Messages, err : Errors]
OneShots  == [data : Messages, ok : BOOLEAN, msg : Messages]

TypeOK ==
  /\ handle \in [Handles -> HandleState \cup {Unbuilt}]
  /\ live \subseteq Handles \X Objects
  /\ pc \in [at : Stages, h : Handles, kind : Kinds] \cup {Idle}
  /\ callerKey \in KeyBytes
  /\ given \in [Handles -> KeyBytes \cup {"none"}]
  /\ offered \in [Handles -> Messages]
  /\ consumed \subseteq Handles
  /\ out \in Sums \cup {NoSum}
  /\ oneShot \in OneShots \cup {NoSum}

Init ==
  /\ handle = [h \in Handles |-> Unbuilt]
  /\ live = {}
  /\ pc = Idle
  /\ callerKey = "secret"
  /\ given = [h \in Handles |-> "none"]
  /\ offered = [h \in Handles |-> <<>>]
  /\ consumed = {}
  /\ out = NoSum
  /\ oneShot = NoSum

idle == pc = Idle
Built(h) == handle[h].life # "unbuilt"
IsOpen(h) == handle[h].life = "open"

-----------------------------------------------------------------------------
(* NewHash and newMAC.                                                      *)

\* The named constructors build a MAC's params before newMAC is entered.
Begin(h, kind) ==
  /\ idle
  /\ ~Built(h)
  /\ live' = live \cup {x \in {<<h, "params">>} : kind = "mac"}
  /\ pc' = [at |-> "fetch", h |-> h, kind |-> kind]
  /\ oneShot' = NoSum
  /\ UNCHANGED <<handle, callerKey, given, offered, consumed, out>>

\* Mutant of Freed: no context, no params released.
FreedHalf(at, kind) ==
  {x \in Objects : /\ x = "alg" => at # "fetch"
                   /\ x = "ctx" => at = "init"
                   /\ x = "params" => kind = "mac" /\ at # "ctx"}

\* What the error path of each stage frees.
Freed(at, kind) ==
  {x \in Objects : /\ x = "alg" => at # "fetch"
                   /\ x = "ctx" => at = "init"
                   /\ x = "params" => kind = "mac"}

Fails ==
  /\ live' = live \ ({pc.h} \X Freed(pc.at, pc.kind))
  /\ pc' = Idle
  /\ UNCHANGED <<handle, callerKey, given, offered, consumed, out, oneShot>>

Acquire(at, object, next) ==
  /\ pc.at = at
  /\ \/ /\ live' = live \cup {<<pc.h, object>>}
        /\ pc' = [pc EXCEPT !.at = next]
        /\ UNCHANGED <<handle, callerKey, given, offered, consumed, out, oneShot>>
     \/ Fails

Fetch  == Acquire("fetch", "alg", "ctx")
NewCtx == Acquire("ctx", "ctx", "init")

\* The context after (re)initialisation under a key.
Fresh(key) == [state |-> "absorbing", msg |-> <<>>, key |-> key]

\* The MAC keeps a copy of the caller's key, so that Reset can use it.
FirstInit ==
  /\ pc.at = "init"
  /\ \/ LET k == IF pc.kind = "mac" THEN callerKey ELSE "none"
        IN  /\ handle' = [handle EXCEPT ![pc.h] =
                            [life |-> "open", kind |-> pc.kind,
                             evp |-> Fresh(k), key |-> k, err |-> "nil"]]
            /\ given' = [given EXCEPT ![pc.h] = k]
            /\ pc' = Idle
            /\ UNCHANGED <<live, callerKey, offered, consumed, out, oneShot>>
     \/ Fails

\* The caller reuses the slice it passed as key.
Scribble ==
  /\ callerKey' = "scribble"
  /\ UNCHANGED <<handle, live, pc, given, offered, consumed, out, oneShot>>

-----------------------------------------------------------------------------
(* Write, Sum and Reset as functions of the handle's fields; ok says that   *)
(* OpenSSL, given a usable context, does what it is asked.                  *)

Absorbs(f, ok) == ok /\ f.evp.state = "absorbing"

\* Mutant of Written: the failure is returned but not latched.
WrittenUnlatched(f, m, ok) ==
  IF f.life = "open" /\ Absorbs(f, ok) THEN [f EXCEPT !.evp.msg = @ \o m] ELSE f

\* Mutant of Written: the chunk is fed to the context twice.
WrittenTwice(f, m, ok) ==
  IF f.life = "closed" THEN f
  ELSE IF Absorbs(f, ok) THEN [f EXCEPT !.evp.msg = @ \o m \o m]
  ELSE [f EXCEPT !.err = "openssl"]

\* A closed handle refuses and latches nothing; an empty chunk does nothing.
Written(f, m, ok) ==
  IF f.life = "closed" \/ m = <<>> THEN f
  ELSE IF Absorbs(f, ok) THEN [f EXCEPT !.evp.msg = @ \o m]
  ELSE [f EXCEPT !.err = "openssl"]

\* A digest comes from a copy of the context, never from an XOF.
Summable(f, ok) == f.life = "open" /\ f.kind # "xof" /\ Absorbs(f, ok)

\* Mutant of Summed: the context itself is finalised.
SummedInPlace(f, ok) ==
  IF Summable(f, ok) THEN [f EXCEPT !.evp.state = "final"]
  ELSE [f EXCEPT !.err = "openssl"]

Summed(f, ok) ==
  IF Summable(f, ok) THEN f
  ELSE [f EXCEPT !.err = IF f.life = "closed" THEN "ErrClosed"
                         ELSE IF f.kind = "xof" THEN "useSumXOF" ELSE "openssl"]

Write(h, c) ==
  /\ idle
  /\ Built(h)
  /\ Len(offered[h]) < MaxWrites
  /\ Len(handle[h].evp.msg) < MaxWrites
  /\ \E ok \in BOOLEAN : handle' = [handle EXCEPT ![h] = Written(@, <<c>>, ok)]
  /\ offered' = [offered EXCEPT ![h] = IF IsOpen(h) THEN Append(@, c) ELSE @]
  /\ out' = NoSum
  /\ UNCHANGED <<live, pc, callerKey, given, consumed, oneShot>>

Sum(h) ==
  /\ idle
  /\ Built(h)
  /\ \E ok \in BOOLEAN :
       LET f == handle[h]
           g == Summed(f, ok)
       IN  /\ handle' = [handle EXCEPT ![h] = g]
           /\ out' = [of |-> h, ok |-> Summable(f, ok),
                      msg |-> IF Summable(f, ok) THEN f.evp.msg ELSE <<>>,
                      key |-> IF Summable(f, ok) THEN f.evp.key ELSE "none",
                      offered |-> offered[h], err |-> g.err]
  /\ UNCHANGED <<live, pc, callerKey, given, offered, consumed, oneShot>>

\* Hash only.  With a length in range the context itself is finalised; a
\* refused call may leave it either way, and its error is not latched.
SumXOF(h) ==
  /\ idle
  /\ IsOpen(h)
  /\ handle[h].kind # "mac"
  /\ \E state \in {"final", handle[h].evp.state} :
       handle' = [handle EXCEPT ![h].evp.state = state]
  /\ consumed' = consumed \cup {h}
  /\ out' = NoSum
  /\ UNCHANGED <<live, pc, callerKey, given, offered, oneShot>>

\* Initialises again with the kept key and params; a closed handle returns
\* at once.  After a failed init the context may be in any state.
Reset(h) ==
  /\ idle
  /\ IsOpen(h)
  /\ \/ handle' = [handle EXCEPT ![h].evp = Fresh(handle[h].key)]
     \/ \E state \in {"final", handle[h].evp.state} :
          handle' = [handle EXCEPT ![h].evp.state = state, ![h].err = "openssl"]
  /\ offered' = [offered EXCEPT ![h] = <<>>]
  /\ consumed' = consumed \ {h}
  /\ out' = NoSum
  /\ UNCHANGED <<live, pc, callerKey, given, oneShot>>

Close(h) ==
  /\ idle
  /\ IsOpen(h)
  /\ handle' = [handle EXCEPT ![h].life = "closed",
                              ![h].key = IF @ = "none" THEN @ ELSE "zeroed"]
  /\ live' = live \ ({h} \X Objects)
  /\ out' = NoSum
  /\ UNCHANGED <<pc, callerKey, given, offered, consumed, oneShot>>

-----------------------------------------------------------------------------
(* Digest and HMACSum: construct, Write, Sum, Err, Close, on a handle that  *)
(* nobody else sees.  They are enumerated while no other handle is built.   *)

\* Mutant of Concluded: the latched error is not collected.
ConcludedUnchecked(wrote, g) == wrote

Concluded(wrote, g) == wrote /\ g.err = "nil"

Digest(kind, m) ==
  /\ idle
  /\ \A h \in Handles : ~Built(h)
  /\ \E made, wok, sok \in BOOLEAN :
       LET key   == IF kind = "mac" THEN callerKey ELSE "none"
           new   == [life |-> "open", kind |-> kind, evp |-> Fresh(key),
                     key |-> key, err |-> "nil"]
           f     == Written(new, m, wok)
           wrote == m = <<>> \/ Absorbs(new, wok)
       IN  oneShot' =
             [data |-> m, ok |-> made /\ Concluded(wrote, Summed(f, sok)),
              msg |-> IF Summable(f, sok) THEN f.evp.msg ELSE <<>>]
  /\ out' = NoSum
  /\ UNCHANGED <<handle, live, pc, callerKey, given, offered, consumed>>

-----------------------------------------------------------------------------
Next ==
  \/ \E h \in Handles, kind \in Kinds : Begin(h, kind)
  \/ Fetch \/ NewCtx \/ FirstInit
  \/ Scribble
  \/ \E h \in Handles, c \in Chunks : Write(h, c)
  \/ \E h \in Handles : Sum(h) \/ SumXOF(h) \/ Reset(h) \/ Close(h)
  \/ \E kind \in Kinds, m \in Messages : Digest(kind, m)

Spec == Init /\ [][Next]_vars

-----------------------------------------------------------------------------
(* Correctness.                                                             *)

Owned(h) ==
  IF ~Built(h) \/ ~IsOpen(h) THEN {}
  ELSE {x \in Objects : x = "params" => handle[h].kind = "mac"}

(* Between calls the C heap holds exactly what the open handles own: no     *)
(* failure of a constructor leaks a fetched algorithm, a context or a       *)
(* MAC's parameters, Close leaves nothing, and the parameters outlive every *)
(* Reset that hands them to EVP_MAC_init again (mac.go:28).                 *)
Balanced == idle => live = UNION {{h} \X Owned(h) : h \in Handles}

(* While no error is latched, the context has absorbed exactly what the     *)
(* caller wrote and can go on: only SumXOF finalises in place, Sum leaves   *)
(* the state alone (digest.go:101-102, mac.go:218).                         *)
TracksMessage ==
  \A h \in Handles :
    Built(h) /\ IsOpen(h) /\ handle[h].err = "nil" =>
      /\ handle[h].evp.msg = offered[h]
      /\ handle[h].evp.state = "final" => h \in consumed

(* A caller who ignores what Write and Reset return, as hash.Hash invites,  *)
(* and asks Err after Sum is never misled: a nil Err means that Sum gave    *)
(* the digest of everything offered since the last Reset, under the key as  *)
(* it was at construction, whatever became of the caller's slice since.     *)
NilErrMeansComplete ==
  out # NoSum /\ out.err = "nil" =>
    /\ out.ok
    /\ out.msg = out.offered
    /\ out.key = given[out.of]

(* The one-shot forms never return success without the digest of the data:  *)
(* an empty result would compare equal to every other failed digest         *)
(* (digest.go:226-229).                                                     *)
OneShotHonest ==
  oneShot # NoSum /\ oneShot.ok => oneShot.msg = oneShot.data
=============================================================================

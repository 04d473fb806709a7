------------------------------ MODULE StoreWalk ------------------------------
(***************************************************************************)
(* Keys by URI (store.go): LoadKey, LoadPublicKey and ListStore walk what  *)
(* an OSSL_STORE_CTX yields, after telling it, in the first two, which     *)
(* kind of object they expect.                                             *)
(*                                                                         *)
(* The store is external.  It delivers its objects in order; under an      *)
(* expectation it skips objects of another kind, names of further URIs     *)
(* excepted; an object it cannot read gives NULL, or is skipped unread     *)
(* where it is not expected.  It may know that it is at its end with its   *)
(* last object, or only when asked for one more.                           *)
(***************************************************************************)
EXTENDS Naturals, FiniteSets, SequencesExt

CONSTANT MaxObjects     \* bound: objects at one URI

VARIABLES
  store,        \* the objects at the URI
  pos, eof,     \* how many are consumed, and whether the end is known
  expect,       \* the kind OpenSSL narrows the walk to
  pc,           \* the call under way
  item,         \* the object of the OSSL_STORE_INFO in hand
  live,         \* allocated C objects
  out,          \* what ListStore has collected
  reply         \* how the last call ended

vars == <<store, pos, eof, expect, pc, item, live, out, reply>>

\* "bad" is what the loader cannot read, "other" what the package does not
\* model; a "name" is the URI of a directory entry.
KeyKinds  == {"pkey", "pubkey"}
Objects == KeyKinds \cup {"cert", "name", "other", "bad"}
Stores  == UNION {[1..n -> Objects] : n \in 0..MaxObjects}

\* What each call is after.
Calls == [LoadKey |-> "pkey", LoadPublicKey |-> "pubkey", ListStore |-> "any"]
Idle  == [at |-> "idle"]
None  == [kind |-> "none"]

TypeOK ==
  /\ store \in Stores
  /\ pos \in 0..Len(store) /\ eof \in BOOLEAN
  /\ expect \in KeyKinds \cup {"any"}
  /\ pc # Idle => pc.at \in {"open", "expect", "walk", "take"} /\ pc.call \in DOMAIN Calls
  /\ item \in 0..Len(store)
  /\ live \subseteq {"ctx", "info", "pkey"}
  /\ ToSet(out) \subseteq Objects \ {"bad"}
  /\ reply # None => reply.kind \in {"key", "not found", "list", "Error"}

Init ==
  /\ store \in Stores
  /\ pos = 0
  /\ eof = FALSE
  /\ expect = "any"
  /\ pc = Idle
  /\ item = 0
  /\ live = {}
  /\ out = <<>>
  /\ reply = None

Begin(c) ==
  /\ pc = Idle
  /\ reply = None
  /\ pc' = [at |-> "open", call |-> c]
  /\ UNCHANGED <<store, pos, eof, expect, item, live, out, reply>>

\* Every return closes the OSSL_STORE_CTX, if there is one.
Return(kind, at, held) ==
  /\ reply' = [call |-> pc.call, kind |-> kind, at |-> at, list |-> out]
  /\ pc' = Idle
  /\ live' = held \ {"ctx"}
  /\ out' = <<>>

Open ==
  /\ pc.at = "open"
  /\ \/ /\ live' = {"ctx"}
        /\ pos' = 0 /\ eof' \in {FALSE, store = <<>>} /\ expect' = "any"
        /\ pc' = [pc EXCEPT !.at = IF pc.call = "ListStore" THEN "walk" ELSE "expect"]
        /\ UNCHANGED <<out, reply>>
     \/ Return("Error", 0, live) /\ UNCHANGED <<pos, eof, expect>>
  /\ UNCHANGED <<store, item>>

\* Mutant of Expect: the walk is not narrowed.
ExpectAnything ==
  /\ pc.at = "expect"
  /\ pc' = [pc EXCEPT !.at = "walk"]
  /\ UNCHANGED <<store, pos, eof, expect, item, live, out, reply>>

Expect ==
  /\ pc.at = "expect"
  /\ \/ /\ expect' = Calls[pc.call]
        /\ pc' = [pc EXCEPT !.at = "walk"]
        /\ UNCHANGED <<live, out, reply>>
     \/ Return("Error", 0, live) /\ UNCHANGED expect
  /\ UNCHANGED <<store, pos, eof, item>>

-----------------------------------------------------------------------------
\* What the loader may do with an object.
Delivers(o) == o = "name" \/ (o # "bad" /\ expect \in {"any", o})
Skips(o)    == expect # "any" /\ o \notin {expect, "name"}

\* The objects it can come to next, and whether it can come to the end.
Reachable == {i \in pos + 1..Len(store) : \A j \in pos + 1..i - 1 : Skips(store[j])}
Runs      == \A j \in pos + 1..Len(store) : Skips(store[j])

Ended == pc.at = "walk" /\ eof

Load ==
  /\ pc.at = "walk" /\ ~eof
  /\ \E i \in Reachable :
       /\ Delivers(store[i])
       /\ item' = i
       /\ pos' = i
       /\ eof' \in {FALSE, i = Len(store)}
       /\ live' = live \cup {"info"}
       /\ pc' = [pc EXCEPT !.at = "take"]
  /\ UNCHANGED <<store, expect, out, reply>>

\* NULL: an error, unless the loader is at its end after it, which is where
\* an unreadable last object leaves it too.
LoadNull ==
  /\ pc.at = "walk" /\ ~eof
  /\ \/ Runs /\ pos' = Len(store) /\ eof' = TRUE /\ UNCHANGED <<pc, live, out, reply>>
     \/ \E i \in Reachable :
          /\ store[i] = "bad"
          /\ pos' = i
          /\ eof' \in {FALSE, i = Len(store)}
          /\ IF eof' THEN UNCHANGED <<pc, live, out, reply>> ELSE Return("Error", 0, live)
  /\ UNCHANGED <<store, expect, item>>

\* Mutant of Take: an object that is passed over is not freed.
TakeUnfreed ==
  /\ pc.at = "take"
  /\ IF pc.call = "ListStore"
     THEN /\ out' = Append(out, store[item])
          /\ pc' = [pc EXCEPT !.at = "walk"]
          /\ live' = live \ {"info"}
          /\ UNCHANGED reply
     ELSE IF store[item] \in KeyKinds
          THEN Return("key", item, (live \ {"info"}) \cup {"pkey"})
          ELSE pc' = [pc EXCEPT !.at = "walk"] /\ UNCHANGED <<live, out, reply>>
  /\ UNCHANGED <<store, pos, eof, expect, item>>

\* Any kind of key ends LoadKey; the info is freed in every case.
Take ==
  /\ pc.at = "take"
  /\ IF pc.call # "ListStore" /\ store[item] \in KeyKinds
     THEN Return("key", item, (live \ {"info"}) \cup {"pkey"})
     ELSE /\ out' = IF pc.call = "ListStore" THEN Append(out, store[item]) ELSE out
          /\ pc' = [pc EXCEPT !.at = "walk"]
          /\ live' = live \ {"info"}
          /\ UNCHANGED reply
  /\ UNCHANGED <<store, pos, eof, expect, item>>

End ==
  /\ Ended
  /\ Return(IF pc.call = "ListStore" THEN "list" ELSE "not found", 0, live)
  /\ UNCHANGED <<store, pos, eof, expect, item>>

\* The caller closes the Key it was given.
Taken ==
  /\ reply # None
  /\ reply' = None
  /\ live' = live \ {"pkey"}
  /\ UNCHANGED <<store, pos, eof, expect, pc, item, out>>

Next ==
  \/ \E c \in DOMAIN Calls : Begin(c)
  \/ Open \/ Expect \/ Load \/ LoadNull \/ Take \/ End \/ Taken

Spec == Init /\ [][Next]_vars

-----------------------------------------------------------------------------
(* Correctness.                                                             *)

(* A loaded key is the first of the asked kind, whatever else the URI holds *)
(* before it, keys of the other kind included (store.go:71-72, :94-96); "not*)
(* found" is said only where there is none; and a list has every object, in *)
(* order, but for an unreadable last one.                                   *)
FirstMatch ==
  reply # None =>
    LET asked == {i \in 1..Len(store) : store[i] = Calls[reply.call]}
    IN /\ reply.kind = "key" => reply.at \in asked /\ \A i \in asked : reply.at <= i
       /\ reply.kind = "not found" => asked = {}
       /\ reply.kind = "list" =>
            store = reply.list \/ store = Append(reply.list, "bad")

(* Between calls nothing is allocated but the EVP_PKEY of a returned Key.   *)
NothingLeaks ==
  pc = Idle => live = (IF reply # None /\ reply.kind = "key" THEN {"pkey"} ELSE {})
=============================================================================

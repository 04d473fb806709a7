------------------------------ MODULE Enumerate ------------------------------
(***************************************************************************)
(* The lists of what a Context has (enumerate.go, provider.go): a C        *)
(* callback appends names to an array of fixed capacity while OpenSSL      *)
(* walks its providers, Go copies the array, and ListDigests and           *)
(* ListCiphers confirm each name with a fetch.  Which names can be fetched *)
(* depends on the property query, which other goroutines may change.       *)
(***************************************************************************)
EXTENDS Naturals, SequencesExt

CONSTANTS
  Names,        \* of algorithms or providers
  NoName,       \* an algorithm without a name
  Room,         \* OSSL_MAX_NAMES or MAX_PROVIDERS
  MaxWalk,      \* bound: the longest walk
  MaxQueries    \* bound: changes of the property query during a call

VARIABLES
  usable,       \* the names a fetch finds
  queries,      \* changes of usable during the call
  always, ever, \* what was usable all through the call, and at some point of it
  call,         \* the call under way, and what OpenSSL has yet to walk
  list,         \* the C array: its strings, and whether it overflowed
  names,        \* Go's copy, as far as it is not confirmed
  reply         \* how the last call ended

vars == <<usable, queries, always, ever, call, list, names, reply>>

Lists == {"digests", "macs", "providers", "parse mac"}
Idle  == [op |-> "none"]
Empty == [items |-> <<>>, overflow |-> FALSE]
None  == [kind |-> "none"]

\* Two providers may have one algorithm; a provider is walked once.
Walks(op) ==
  {w \in UNION {[1..n -> Names \cup {NoName}] : n \in 0..MaxWalk} :
     op = "providers" => IsInjective(w) /\ NoName \notin ToSet(w)}

TypeOK ==
  /\ usable \subseteq Names /\ always \subseteq ever /\ ever \subseteq Names
  /\ queries \in 0..MaxQueries
  /\ call # Idle => call.op \in Lists /\ call.at \in {"walk", "confirm"}
  /\ Len(list.items) <= Room /\ list.overflow \in BOOLEAN
  /\ ToSet(names) \subseteq Names
  /\ reply # None => reply.op \in Lists /\ reply.kind \in {"ok", "truncated", "unknown", "failed"}

Init ==
  /\ usable \in SUBSET Names
  /\ queries = 0
  /\ always = usable
  /\ ever = usable
  /\ call = Idle
  /\ list = Empty
  /\ names = <<>>
  /\ reply = None

\* What ParseMACName is asked for.
Asked(op) == IF op = "parse mac" THEN Names ELSE {NoName}

Begin(op, walk, name) ==
  /\ call = Idle
  /\ reply = None
  /\ call' = [op |-> op, at |-> "walk", walk |-> walk, left |-> walk, name |-> name, out |-> <<>>]
  /\ UNCHANGED <<usable, queries, always, ever, list, names, reply>>

\* SetDefaultProperties, by another goroutine.
Query ==
  /\ call # Idle
  /\ queries < MaxQueries
  /\ usable' \in SUBSET Names
  /\ queries' = queries + 1
  /\ always' = always \cap usable'
  /\ ever' = ever \cup usable'
  /\ UNCHANGED <<call, list, names, reply>>

\* ossl_name_append refuses before it looks for the name, and
\* ossl_collect_provider stops counting.
AppendName(op, l, n) ==
  IF op = "providers"
  THEN IF Len(l.items) < Room THEN [l EXCEPT !.items = Append(@, n)] ELSE l
  ELSE CASE n = NoName           -> l
         [] n # NoName /\ Len(l.items) >= Room -> [l EXCEPT !.overflow = TRUE]
         [] n # NoName /\ Len(l.items) < Room  ->
              [l EXCEPT !.items = IF n \in ToSet(@) THEN @ ELSE Append(@, n)]

Collect ==
  /\ call # Idle /\ call.at = "walk" /\ call.left # <<>>
  /\ list' = AppendName(call.op, list, Head(call.left))
  /\ call' = [call EXCEPT !.left = Tail(@)]
  /\ UNCHANGED <<usable, queries, always, ever, names, reply>>

End(kind, out) ==
  /\ reply' = [op |-> call.op, walk |-> call.walk, name |-> call.name, kind |-> kind,
               out |-> out, always |-> always, ever |-> ever]
  /\ call' = Idle

\* Mutant of Truncated: Providers trusts its count.
TruncatedSilently == call.op # "providers" /\ list.overflow

Truncated ==
  IF call.op = "providers" THEN Len(list.items) >= Room ELSE list.overflow

\* The walk is over: an overflow is an error; otherwise the strings are copied
\* and freed, and only ListDigests and ListCiphers go on to confirm them.
\* Providers then asks each provider for its name, which may fail.
Collected ==
  /\ call # Idle /\ call.at = "walk" /\ call.left = <<>>
  /\ list' = Empty
  /\ CASE Truncated -> End("truncated", <<>>) /\ UNCHANGED names
       [] ~Truncated /\ call.op = "digests" ->
            /\ names' = list.items
            /\ call' = [call EXCEPT !.at = "confirm"]
            /\ UNCHANGED reply
       [] ~Truncated /\ call.op = "parse mac" ->
            /\ IF call.name \in ToSet(list.items)
                 THEN End("ok", <<call.name>>) ELSE End("unknown", <<>>)
            /\ UNCHANGED names
       [] ~Truncated /\ call.op = "macs" -> End("ok", list.items) /\ UNCHANGED names
       [] ~Truncated /\ call.op = "providers" ->
            /\ End("ok", list.items) \/ End("failed", <<>>)
            /\ UNCHANGED names
  /\ UNCHANGED <<usable, queries, always, ever>>

\* Mutant of Confirm: every name is reported.
ConfirmNot ==
  /\ names # <<>>
  /\ call' = [call EXCEPT !.out = Append(@, Head(names))]
  /\ names' = Tail(names)
  /\ UNCHANGED <<usable, queries, always, ever, list, reply>>

\* DigestAvailable, CipherAvailable: a fetch of one name.
Confirm ==
  /\ names # <<>>
  /\ call' = [call EXCEPT !.out = IF Head(names) \in usable THEN Append(@, Head(names)) ELSE @]
  /\ names' = Tail(names)
  /\ UNCHANGED <<usable, queries, always, ever, list, reply>>

Confirmed ==
  /\ call # Idle /\ call.at = "confirm" /\ names = <<>>
  /\ End("ok", call.out)
  /\ UNCHANGED <<usable, queries, always, ever, list, names>>

Next ==
  \/ \E op \in Lists : \E w \in Walks(op) : \E n \in Asked(op) : Begin(op, w, n)
  \/ Query \/ Collect \/ Collected \/ Confirm \/ Confirmed

Spec == Init /\ [][Next]_vars

-----------------------------------------------------------------------------
(* Correctness.                                                             *)

Supplied == ToSet(reply.walk) \cap Names

(* A list that is returned is the whole list, once each, and never one that *)
(* was cut off at the capacity of the array (provider.go:150-154): every    *)
(* provider, every MAC and every digest that could be fetched throughout;   *)
(* and no digest that could not be fetched at any point of the call         *)
(* (enumerate.go:112-120).  A call that gives up for want of room had at    *)
(* least as many names as there is room for.                                *)
ListsAreExact ==
  reply # None =>
    /\ reply.kind = "ok" =>
         /\ IsInjective(reply.out)
         /\ reply.op \in {"macs", "providers"} => ToSet(reply.out) = Supplied
         /\ reply.op = "digests" => /\ Supplied \cap reply.always \subseteq ToSet(reply.out)
                                    /\ ToSet(reply.out) \subseteq Supplied \cap reply.ever
    /\ reply.kind = "truncated" => Cardinality(Supplied) >= Room
    /\ reply.op = "parse mac" => \/ reply.name \in Supplied <=> reply.kind = "ok"
                                 \/ reply.kind = "truncated"

(* What ListMACs reports and ParseMACName accepts is reachable through the  *)
(* Context (enumerate.go:157, :275).                                        *)
ListedIsReachable ==
  reply # None /\ reply.op \in {"macs", "parse mac"} /\ reply.kind = "ok" =>
    ToSet(reply.out) \subseteq reply.ever
=============================================================================

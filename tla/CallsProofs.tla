----------------------------- MODULE CallsProofs -----------------------------
(***************************************************************************)
(* Of the subjects of MCCalls: parameters (Params) and lists (Enumerate);  *)
(* and what all the subjects have in common.                               *)
(***************************************************************************)
EXTENDS CipherProofs

(* To each of these a step of MCCalls is a step of its own or a stutter.    *)
LEMMA ListProjection ==
  [CallsNext]_callsVars => [Pars!Next]_paramVars /\ [Enum!Next]_listVars
BY DEF CallsNext, callsVars, Of

-----------------------------------------------------------------------------
(* Params.                                                                  *)

(* The allocations of the arena are numbered from 1, at most two to an      *)
(* entry; entries refer to them, and the end comes with the first use.      *)
ParamTypes ==
  /\ asked \in 0..MaxEntries
  /\ \E k \in 0..2 * asked : arena = 1..k
  /\ user \in [kind : Pars!Users, at : {"build", "use", "done", "panicked"}]
  /\ list \in Seq(Pars!Entries \cup {Pars!End})
  /\ ended \in BOOLEAN /\ freed \in BOOLEAN

Refers(l) ==
  /\ Len(l) >= asked
  /\ \A i \in 1..asked : /\ l[i] \in Pars!Entries
                         /\ l[i].key \in arena /\ l[i].data \in arena \cup {Pars!NULL}

ParamStage ==
  /\ user.at # "panicked"
  /\ user.at = "build" => /\ ~ended /\ ~freed /\ handed = Pars!Nothing
                          /\ heap = arena /\ Len(list) = asked /\ Refers(list)
  /\ user.at = "use" =>
       /\ ended /\ ~freed /\ heap = arena
       /\ Len(list) = asked + 1 /\ list[asked + 1] = Pars!End /\ Refers(list)
  /\ user.at = "done" => heap = {} /\ list = <<>>

ParamHanded ==
  /\ handed.n \in 0..MaxHandovers
  /\ handed = Pars!Nothing
       \/ /\ user.at # "build"
          /\ handed.list \in Seq(Pars!Entries \cup {Pars!End})

ParamInv == ParamTypes /\ ParamStage /\ ParamHanded /\ Pars!ArrayIsWhole

(* An entry is no end of an array.                                          *)
LEMMA EntryIsNoEnd == \A e \in Pars!Entries : e # Pars!End
<1> SUFFICES ASSUME NEW e \in Pars!Entries, e = Pars!End PROVE FALSE
  OBVIOUS
<1>1. DOMAIN e = {"key", "data"} /\ DOMAIN e = {"end"}
  BY DEF Pars!Entries, Pars!End
<1>2. QED
  BY <1>1

(* The initial states satisfy the invariant.                                *)
LEMMA ParamInit == Pars!Init => ParamInv
<1> SUFFICES ASSUME Pars!Init PROVE ParamInv
  OBVIOUS
<1>1. ParamTypes
  <2>1. arena = 1..0
    BY DEF Pars!Init
  <2>2. ended \in BOOLEAN /\ freed \in BOOLEAN
    BY DEF Pars!Init
  <2>3. list \in Seq(Pars!Entries \cup {Pars!End})
    BY EmptySeq DEF Pars!Init
  <2>4. asked = 0 /\ asked \in 0..MaxEntries
    BY BoundsAssumption DEF Pars!Init
  <2>5. \E k \in 0..2 * asked : arena = 1..k
    BY <2>1, <2>4
  <2>6. QED
    BY <2>2, <2>3, <2>4, <2>5 DEF Pars!Init, ParamTypes
<1>2. ParamStage /\ ParamHanded /\ Pars!ArrayIsWhole
  BY BoundsAssumption, EmptySeq
     DEF Pars!Init, ParamStage, ParamHanded, Pars!ArrayIsWhole, Refers, Pars!Nothing
<1>3. QED
  BY <1>1, <1>2 DEF ParamInv

(* A parameter is appended: its copies are the next allocations.            *)
LEMMA ParamAppends ==
  ASSUME ParamInv, NEW n \in 1..2, Pars!Append1(n)
  PROVE  ParamInv'
<1> DEFINE base == Pars!Cardinality(arena)
           e == [key |-> base + 1, data |-> IF n = 2 THEN base + 2 ELSE Pars!NULL]
<1>0. /\ ParamTypes /\ ParamStage /\ ParamHanded /\ asked \in Nat /\ MaxEntries \in Nat
      /\ user.at = "build" /\ asked < MaxEntries
      /\ UNCHANGED <<ended, freed, user, handed>>
      /\ ~ended /\ ~freed /\ handed = Pars!Nothing
      /\ heap = arena /\ Len(list) = asked /\ Refers(list)
  BY BoundsAssumption DEF ParamInv, ParamTypes, ParamStage, Pars!Append1
<1>1. PICK k \in 0..2 * asked : arena = 1..k
  BY <1>0 DEF ParamTypes
<1>2. base = k
  <2>1. Cardinality(arena) = k
    BY <1>0, <1>1, FS_Interval
  <2>2. QED
    BY <2>1 DEF Pars!Cardinality, Cardinality
<1>3. /\ arena' = arena \cup {base + i : i \in 1..n}
      /\ heap' = heap \cup {base + i : i \in 1..n}
      /\ list' = Append(list, e) /\ asked' = asked + 1
  BY DEF Pars!Append1, Pars!Fresh
<1>4. arena' = 1..k + n /\ heap' = arena' /\ k + n \in 0..2 * asked'
  <2>1. {k + i : i \in 1..n} = k + 1..k + n
    <3>1. \A x \in k + 1..k + n : x - k \in 1..n /\ x = k + (x - k)
      BY <1>0, <1>1
    <3>2. \A i \in 1..n : k + i \in k + 1..k + n
      BY <1>0, <1>1
    <3>3. QED
      BY <3>1, <3>2
  <2>2. (1..k) \cup (k + 1..k + n) = 1..k + n
    BY <1>0, <1>1
  <2>3. arena' = (1..k) \cup {k + i : i \in 1..n}
    BY <1>1, <1>2, <1>3
  <2>4. heap' = arena'
    BY <1>0, <1>3
  <2>5. k + n \in 0..2 * asked'
    BY <1>0, <1>1, <1>3
  <2>6. QED
    BY <2>1, <2>2, <2>3, <2>4, <2>5
<1>5. e \in Pars!Entries /\ e.key \in arena' /\ e.data \in arena' \cup {Pars!NULL}
  <2>1. k + 2 <= 2 * MaxEntries /\ k \in Nat
    BY <1>0, <1>1
  <2>2. e.key = k + 1 /\ e.data = IF n = 2 THEN k + 2 ELSE 0
    BY <1>2 DEF Pars!NULL
  <2>3. e.key \in Pars!Blocks /\ e.data \in Pars!Blocks
    BY <1>0, <2>1, <2>2 DEF Pars!Blocks
  <2>4. QED
    BY <1>4, <2>1, <2>2, <2>3 DEF Pars!Entries, Pars!NULL
<1> HIDE DEF e, base
<1>6. /\ list' \in Seq(Pars!Entries \cup {Pars!End}) /\ Len(list') = asked'
      /\ \A i \in 1..asked : list'[i] = list[i]
      /\ list'[asked'] = e
  BY <1>0, <1>3, <1>5, AppendProperties DEF ParamTypes
<1>7. Refers(list)'
  <2>1. asked' = asked + 1 /\ arena \subseteq arena'
    BY <1>3
  <2>2. \A i \in 1..asked' : /\ list'[i] \in Pars!Entries
                             /\ list'[i].key \in arena' /\ list'[i].data \in arena' \cup {Pars!NULL}
    <3> SUFFICES ASSUME NEW i \in 1..asked'
                 PROVE /\ list'[i] \in Pars!Entries
                       /\ list'[i].key \in arena' /\ list'[i].data \in arena' \cup {Pars!NULL}
      OBVIOUS
    <3>1. CASE i = asked'
      BY <1>5, <1>6, <3>1
    <3>2. CASE i \in 1..asked
      BY <1>0, <1>6, <2>1, <3>2 DEF Refers
    <3>3. QED
      BY <1>0, <2>1, <3>1, <3>2
  <2>3. QED
    BY <1>0, <1>6, <2>1, <2>2 DEF Refers
<1>8. ParamTypes'
  <2>1. asked' \in 0..MaxEntries
    BY <1>0, <1>3
  <2>2. \E j \in 0..2 * asked' : arena' = 1..j
    BY <1>4
  <2>3. QED
    BY <1>0, <1>6, <2>1, <2>2 DEF ParamTypes
<1>9. ParamStage' /\ ParamHanded' /\ (Pars!ArrayIsWhole)'
  BY <1>0, <1>4, <1>6, <1>7 DEF ParamStage, ParamHanded, Pars!ArrayIsWhole
<1>10. QED
  BY <1>8, <1>9 DEF ParamInv

(* The array is terminated, once, and handed over whole.                    *)
LEMMA ParamHandsOver == ParamInv /\ Pars!Handover => ParamInv'
<1> SUFFICES ASSUME ParamInv, Pars!Handover PROVE ParamInv'
  OBVIOUS
<1> DEFINE t == Pars!Terminated
<1>0. /\ ParamTypes /\ ParamStage /\ ParamHanded /\ asked \in Nat
      /\ user.at \in {"build", "use"} /\ heap = arena /\ ~freed
      /\ UNCHANGED <<arena, heap, freed, asked>>
      /\ list \in Seq(Pars!Entries \cup {Pars!End})
  BY BoundsAssumption DEF ParamInv, ParamTypes, ParamStage, Pars!Handover
<1>1. /\ list' = t /\ ended' = TRUE
      /\ handed' = [n |-> handed.n + 1, list |-> t, live |-> heap]
      /\ user' = [user EXCEPT !.at = "use"]
      /\ handed.n < IF user.kind = "mac" THEN MaxHandovers ELSE 1
  BY <1>0 DEF Pars!Handover
<1>2. /\ t \in Seq(Pars!Entries \cup {Pars!End}) /\ Len(t) = asked + 1
      /\ t[asked + 1] = Pars!End
      /\ \A i \in 1..asked : /\ t[i] \in Pars!Entries
                             /\ t[i].key \in arena /\ t[i].data \in arena \cup {Pars!NULL}
  <2>1. CASE user.at = "build"
    <3>1. t = Append(list, Pars!End) /\ Len(list) = asked /\ Refers(list)
      BY <1>0, <2>1 DEF ParamStage, Pars!Terminated
    <3>2. /\ Append(list, Pars!End) \in Seq(Pars!Entries \cup {Pars!End})
          /\ Len(Append(list, Pars!End)) = asked + 1
          /\ Append(list, Pars!End)[asked + 1] = Pars!End
          /\ \A i \in 1..asked : Append(list, Pars!End)[i] = list[i]
      BY <1>0, <3>1, AppendProperties
    <3>3. QED
      BY <3>1, <3>2 DEF Refers
  <2>2. CASE user.at = "use"
    BY <1>0, <2>2 DEF ParamStage, Pars!Terminated, Refers
  <2>3. QED
    BY <1>0, <2>1, <2>2
<1> HIDE DEF t
<1>3. handed'.n = handed.n + 1 /\ handed'.list = t /\ handed'.live = heap
  BY <1>1
<1>4. user' \in [kind : Pars!Users, at : {"build", "use", "done", "panicked"}] /\ user'.at = "use"
  BY <1>0, <1>1 DEF ParamTypes
<1>5. handed'.n \in 0..MaxHandovers
  BY <1>0, <1>1, <1>3, BoundsAssumption DEF ParamHanded
<1>6. ParamTypes'
  <2>1. \E k \in 0..2 * asked' : arena' = 1..k
    BY <1>0 DEF ParamTypes
  <2>2. QED
    BY <1>0, <1>1, <1>2, <1>4, <2>1 DEF ParamTypes
<1>7. ParamStage'
  BY <1>0, <1>1, <1>2, <1>4 DEF ParamStage, Refers
<1>8. ParamHanded'
  BY <1>2, <1>3, <1>4, <1>5 DEF ParamHanded
<1>9. (Pars!ArrayIsWhole)'
  <2>1. Len(handed'.list) = asked' + 1 /\ handed'.list[asked' + 1] = Pars!End
    BY <1>0, <1>2, <1>3
  <2>2. \A i \in 1..asked' : /\ handed'.list[i] # Pars!End
                             /\ handed'.list[i].key \in handed'.live
                             /\ handed'.list[i].data \in handed'.live \cup {Pars!NULL}
    BY <1>0, <1>2, <1>3, EntryIsNoEnd
  <2>3. QED
    BY <2>1, <2>2 DEF Pars!ArrayIsWhole, Pars!Last
<1>10. QED
  BY <1>6, <1>7, <1>8, <1>9 DEF ParamInv

(* Every step of the builder's caller preserves the invariant.              *)
LEMMA ParamNext == ParamInv /\ [Pars!Next]_paramVars => ParamInv'
<1> SUFFICES ASSUME ParamInv, [Pars!Next]_paramVars PROVE ParamInv'
  OBVIOUS
<1>1. CASE Pars!Free
  <2>1. /\ heap' = {} /\ arena' = {} /\ list' = <<>> /\ freed' = TRUE
        /\ user' = [user EXCEPT !.at = "done"] /\ UNCHANGED <<ended, asked, handed>>
    BY <1>1 DEF Pars!Free, ParamInv, ParamStage
  <2>2. /\ user' \in [kind : Pars!Users, at : {"build", "use", "done", "panicked"}]
        /\ user'.at = "done"
    BY <2>1 DEF ParamInv, ParamTypes
  <2>3. ParamTypes'
    <3>1. arena' = 1..0 /\ 0 \in 0..2 * asked'
      BY <2>1, BoundsAssumption DEF ParamInv, ParamTypes
    <3>2. \E k \in 0..2 * asked' : arena' = 1..k
      BY <3>1
    <3>3. QED
      BY <2>1, <2>2, <3>2, EmptySeq DEF ParamInv, ParamTypes
  <2>4. QED
    BY <2>1, <2>2, <2>3 DEF ParamInv, ParamStage, ParamHanded, Pars!ArrayIsWhole
<1>2. CASE UNCHANGED paramVars
  BY <1>2
     DEF paramVars, ParamInv, ParamTypes, ParamStage, ParamHanded, Refers, Pars!ArrayIsWhole
<1>3. QED
  BY <1>1, <1>2, ParamAppends, ParamHandsOver DEF Pars!Next

(* Callers of the builder keep the invariant whatever the subject.          *)
THEOREM ParamInvariance == CallsSpec => []ParamInv
<1>1. CallsInit => ParamInv
  BY ParamInit DEF CallsInit
<1>2. ParamInv /\ [CallsNext]_callsVars => ParamInv'
  BY ParamNext, ListProjection
<1>3. QED
  BY <1>1, <1>2, PTL DEF CallsSpec, callsVars

(* At every init and Reset, however many parameters were set, OpenSSL finds *)
(* all of them in live memory and one terminator (params.go:161-173).       *)
THEOREM ArraysAreWhole == CallsSpec => []ArrayIsWhole
<1>1. ParamInv => ArrayIsWhole
  BY DEF ParamInv, ArrayIsWhole
<1>2. QED
  BY <1>1, ParamInvariance, PTL

-----------------------------------------------------------------------------
(* Enumerate.                                                               *)

Items  == [items : Seq(Names), overflow : BOOLEAN]
Walked == Seq(Names \cup {NoName})

EnumTypes ==
  /\ usable \subseteq Names /\ ever \subseteq Names
  /\ always \subseteq usable /\ usable \subseteq ever
  /\ queries \in 0..MaxQueries
  /\ collected \in Items /\ Len(collected.items) <= Room
  /\ names \in Seq(Names)
  /\ listCall \in [op : Enum!Lists, at : {"walk", "confirm"}, walk : Walked, left : Walked,
                   name : Names \cup {NoName}, out : Seq(Names)] \cup {Enum!Idle}
  /\ listReply # Enum!None => /\ listReply.op \in Enum!Lists
                              /\ listReply.kind \in {"ok", "truncated", "unknown", "failed"}

(* What OpenSSL has walked so far, and all that there is to be walked.      *)
Come == Len(listCall.walk) - Len(listCall.left)
Seen == {listCall.walk[i] : i \in 1..Come}
All  == Enum!ToSet(listCall.walk) \cap Names

(* The array has every name that was walked, or is full.                    *)
Collecting ==
  /\ names = <<>> /\ listCall.out = <<>>
  /\ Come \in 0..Len(listCall.walk)
  /\ \A i \in 1..Len(listCall.left) : listCall.left[i] = listCall.walk[Come + i]
  /\ Enum!IsInjective(collected.items)
  /\ Enum!ToSet(collected.items) \subseteq Seen \cap Names
  /\ IF Enum!Truncated THEN Len(collected.items) >= Room
     ELSE Seen \cap Names \subseteq Enum!ToSet(collected.items)

(* The names that are confirmed and those that are still to be.             *)
Confirming ==
  /\ listCall.op = "digests" /\ collected = Enum!Empty
  /\ Enum!IsInjective(listCall.out) /\ Enum!IsInjective(names)
  /\ Enum!ToSet(listCall.out) \cap Enum!ToSet(names) = {}
  /\ Enum!ToSet(names) \subseteq All
  /\ Enum!ToSet(listCall.out) \subseteq All \cap ever
  /\ All \cap always \subseteq Enum!ToSet(listCall.out) \cup Enum!ToSet(names)

EnumStage ==
  IF listCall = Enum!Idle THEN names = <<>> /\ collected = Enum!Empty
  ELSE /\ listReply = Enum!None
       /\ listCall.op = "providers" => /\ Enum!IsInjective(listCall.walk)
                                       /\ NoName \notin Enum!ToSet(listCall.walk)
       /\ listCall.op # "parse mac" \/ listCall.name \in Names
       /\ IF listCall.at = "walk" THEN Collecting ELSE Confirming

EnumInv == EnumTypes /\ EnumStage /\ Enum!ListsAreExact

-----------------------------------------------------------------------------
(* The elements of a sequence, and of one that is an element longer.        *)
LEMMA Elements ==
  ASSUME NEW S, NEW s \in Seq(S)
  PROVE  /\ Enum!ToSet(s) = {s[i] : i \in 1..Len(s)}
         /\ Enum!ToSet(s) \subseteq S
         /\ s = <<>> => Enum!ToSet(s) = {} /\ Enum!IsInjective(s)
         /\ \A x \in S : /\ Append(s, x) \in Seq(S) /\ Len(Append(s, x)) = Len(s) + 1
                         /\ Enum!ToSet(Append(s, x)) = Enum!ToSet(s) \cup {x}
                         /\ Enum!IsInjective(s) /\ x \notin Enum!ToSet(s) =>
                              Enum!IsInjective(Append(s, x))
<1>0. Len(s) \in Nat /\ DOMAIN s = 1..Len(s) /\ \A i \in 1..Len(s) : s[i] \in S
  BY LenProperties
<1>1. Enum!ToSet(s) = {s[i] : i \in 1..Len(s)}
  BY <1>0 DEF Enum!ToSet
<1>2. Enum!ToSet(s) \subseteq S
  BY <1>0, <1>1
<1>3. s = <<>> => Enum!ToSet(s) = {} /\ Enum!IsInjective(s)
  BY <1>0, <1>1 DEF Enum!IsInjective
<1>4. ASSUME NEW x \in S
      PROVE  /\ Append(s, x) \in Seq(S) /\ Len(Append(s, x)) = Len(s) + 1
             /\ Enum!ToSet(Append(s, x)) = Enum!ToSet(s) \cup {x}
             /\ Enum!IsInjective(s) /\ x \notin Enum!ToSet(s) => Enum!IsInjective(Append(s, x))
  <2> DEFINE t == Append(s, x)
  <2>1. /\ t \in Seq(S) /\ Len(t) = Len(s) + 1
        /\ \A i \in 1..Len(s) : t[i] = s[i]
        /\ t[Len(s) + 1] = x
    BY <1>0, AppendProperties
  <2>2. DOMAIN t = 1..Len(s) + 1
    BY <2>1, LenProperties
  <2> HIDE DEF t
  <2>3. Enum!ToSet(t) = Enum!ToSet(s) \cup {x}
    <3>1. \A y \in Enum!ToSet(t) : y \in Enum!ToSet(s) \cup {x}
      BY <1>0, <1>1, <2>1, <2>2 DEF Enum!ToSet
    <3>2. \A i \in 1..Len(s) : s[i] \in Enum!ToSet(t)
      <4> SUFFICES ASSUME NEW i \in 1..Len(s) PROVE s[i] \in Enum!ToSet(t)
        OBVIOUS
      <4>1. i \in DOMAIN t /\ t[i] = s[i]
        BY <1>0, <2>1, <2>2
      <4>2. QED
        BY <4>1 DEF Enum!ToSet
    <3>3. x \in Enum!ToSet(t)
      <4>1. Len(s) + 1 \in DOMAIN t
        BY <1>0, <2>2
      <4>2. QED
        BY <2>1, <4>1 DEF Enum!ToSet
    <3>4. QED
      BY <1>1, <3>1, <3>2, <3>3
  <2>4. ASSUME Enum!IsInjective(s), x \notin Enum!ToSet(s) PROVE Enum!IsInjective(t)
    <3> SUFFICES ASSUME NEW i \in DOMAIN t, NEW j \in DOMAIN t, t[i] = t[j] PROVE i = j
      BY DEF Enum!IsInjective
    <3>1. \A k \in 1..Len(s) : s[k] # x
      BY <1>1, <2>4
    <3>2. CASE i \in 1..Len(s) /\ j \in 1..Len(s)
      BY <1>0, <2>1, <2>4, <3>2 DEF Enum!IsInjective
    <3>3. CASE i = Len(s) + 1 \/ j = Len(s) + 1
      BY <1>0, <2>1, <2>2, <3>1, <3>3
    <3>4. QED
      BY <1>0, <2>2, <3>2, <3>3
  <2>5. QED
    BY <2>1, <2>3, <2>4 DEF t
<1>5. QED
  BY <1>1, <1>2, <1>3, <1>4

(* A sequence without repetitions is no longer than a set of its elements   *)
(* is large.                                                                *)
LEMMA InjectiveIsShort ==
  ASSUME NEW S, NEW s \in Seq(S), Enum!IsInjective(s),
         NEW T, IsFiniteSet(T), Enum!ToSet(s) \subseteq T
  PROVE  Cardinality(T) >= Len(s)
<1>1. Len(s) \in Nat /\ DOMAIN s = 1..Len(s) /\ s \in [1..Len(s) -> S]
  BY LenProperties
<1>2. s \in Injection(1..Len(s), T)
  BY <1>1, Elements DEF Injection, IsInjective, Enum!IsInjective
<1>3. Cardinality(1..Len(s)) = Len(s)
  BY <1>1, FS_Interval
<1>4. Cardinality(T) \in Nat
  BY FS_CardinalityType
<1>5. QED
  BY <1>1, <1>2, <1>3, <1>4, FS_Injection

(* The empty array fits.                                                    *)
LEMMA EmptyFits ==
  /\ Enum!Empty \in Items /\ Enum!Empty.items = <<>> /\ ~Enum!Empty.overflow
  /\ Len(Enum!Empty.items) <= Room
<1>1. Enum!Empty.items = <<>> /\ ~Enum!Empty.overflow
  BY DEF Enum!Empty
<1>2. FALSE \in BOOLEAN
  OBVIOUS
<1>3. Enum!Empty \in Items
  BY <1>2, EmptySeq DEF Enum!Empty, Items
<1>4. Len(Enum!Empty.items) = 0
  BY <1>1
<1>5. Room \in Nat
  BY BoundsAssumption
<1>6. QED
  BY <1>1, <1>3, <1>4, <1>5

(* The elements of a sequence are finitely many.                            *)
LEMMA RangeFinite ==
  ASSUME NEW S, NEW s \in Seq(S)
  PROVE  IsFiniteSet(Enum!ToSet(s))
<1>1. Len(s) \in Nat /\ DOMAIN s = 1..Len(s)
  BY LenProperties
<1>2. IsFiniteSet(1..Len(s))
  BY <1>1, FS_Interval
<1>3. s \in Surjection(1..Len(s), Enum!ToSet(s))
  BY <1>1 DEF Surjection, Enum!ToSet
<1>4. QED
  BY <1>2, <1>3, FS_Surjection

(* The first element of a sequence and the rest of it.                      *)
LEMMA HeadIsFirst ==
  ASSUME NEW S, NEW s \in Seq(S), s # <<>>, Enum!IsInjective(s)
  PROVE  /\ Head(s) \in S /\ Tail(s) \in Seq(S) /\ Enum!IsInjective(Tail(s))
         /\ Enum!ToSet(s) = {Head(s)} \cup Enum!ToSet(Tail(s))
         /\ Head(s) \notin Enum!ToSet(Tail(s))
<1>1. /\ Len(s) \in Nat /\ DOMAIN s = 1..Len(s) /\ \A i \in 1..Len(s) : s[i] \in S
      /\ Len(s) > 0
  BY LenProperties, EmptySeq
<1>2. /\ Head(s) = s[1] /\ Tail(s) \in Seq(S) /\ Len(Tail(s)) = Len(s) - 1
      /\ \A i \in 1..Len(s) - 1 : Tail(s)[i] = s[i + 1]
  BY <1>1
<1>3. DOMAIN Tail(s) = 1..Len(s) - 1
  BY <1>2, LenProperties
<1>4. /\ Enum!ToSet(s) = {s[i] : i \in 1..Len(s)}
      /\ Enum!ToSet(Tail(s)) = {Tail(s)[i] : i \in 1..Len(s) - 1}
  BY <1>1, <1>3 DEF Enum!ToSet
<1>5. Enum!IsInjective(Tail(s))
  BY <1>1, <1>2, <1>3 DEF Enum!IsInjective
<1>6. Enum!ToSet(s) = {Head(s)} \cup Enum!ToSet(Tail(s))
  <2>1. \A i \in 1..Len(s) : i = 1 \/ (i - 1 \in 1..Len(s) - 1 /\ s[i] = Tail(s)[i - 1])
    BY <1>1, <1>2
  <2>2. \A i \in 1..Len(s) - 1 : i + 1 \in 1..Len(s) /\ Tail(s)[i] = s[i + 1]
    BY <1>1, <1>2
  <2>3. 1 \in 1..Len(s)
    BY <1>1
  <2>4. ASSUME NEW i \in 1..Len(s) PROVE s[i] \in {Head(s)} \cup Enum!ToSet(Tail(s))
    <3>1. CASE i = 1
      BY <1>2, <3>1
    <3>2. CASE i # 1
      BY <1>4, <2>1, <3>2
    <3>3. QED
      BY <3>1, <3>2
  <2>5. ASSUME NEW i \in 1..Len(s) - 1 PROVE Tail(s)[i] \in Enum!ToSet(s)
    BY <1>4, <2>2
  <2>6. Head(s) \in Enum!ToSet(s)
    BY <1>2, <1>4, <2>3
  <2>7. QED
    BY <1>4, <2>4, <2>5, <2>6
<1>7. Head(s) \notin Enum!ToSet(Tail(s))
  <2>1. \A i \in 1..Len(s) - 1 : s[i + 1] # s[1]
    BY <1>1 DEF Enum!IsInjective
  <2>2. QED
    BY <1>2, <1>4, <2>1
<1>8. QED
  BY <1>1, <1>2, <1>5, <1>6, <1>7

(* The initial states satisfy the invariant.                                *)
LEMMA EnumInit == Enum!Init => EnumInv
<1> SUFFICES ASSUME Enum!Init PROVE EnumInv
  OBVIOUS
<1>1. names = <<>> /\ <<>> \in Seq(Names) /\ listCall = Enum!Idle /\ listReply = Enum!None
  BY EmptySeq DEF Enum!Init
<1>2. /\ collected = Enum!Empty /\ collected \in Items /\ collected.items = <<>>
      /\ Len(collected.items) = 0
  <2>1. FALSE \in BOOLEAN
    OBVIOUS
  <2>2. QED
    BY <1>1, <2>1 DEF Enum!Init, Enum!Empty, Items
<1>3. EnumTypes
  BY <1>1, <1>2, BoundsAssumption DEF Enum!Init, EnumTypes
<1>4. QED
  BY <1>1, <1>2, <1>3 DEF EnumInv, EnumStage, Enum!ListsAreExact

(* A call that ends, and what its answer must be.                           *)
LEMMA EnumAnswers ==
  ASSUME EnumInv, listCall # Enum!Idle,
         NEW kind \in {"ok", "truncated", "unknown", "failed"}, NEW o \in Seq(Names),
         Enum!End(kind, o), names' = <<>>, collected' = Enum!Empty,
         UNCHANGED <<usable, queries, always, ever>>,
         kind = "ok" =>
           /\ Enum!IsInjective(o)
           /\ listCall.op \in {"macs", "providers"} => Enum!ToSet(o) = All
           /\ listCall.op = "digests" => /\ All \cap always \subseteq Enum!ToSet(o)
                                         /\ Enum!ToSet(o) \subseteq All \cap ever,
         kind = "truncated" => Cardinality(All) >= Room,
         listCall.op = "parse mac" =>
           (listCall.name \in All <=> kind = "ok") \/ kind = "truncated"
  PROVE  EnumInv'
<1> DEFINE r == [op |-> listCall.op, walk |-> listCall.walk, name |-> listCall.name, kind |-> kind,
                 out |-> o, always |-> always, ever |-> ever]
<1>1. listReply' = r /\ listCall' = Enum!Idle
  BY DEF Enum!End
<1>2. /\ r.op = listCall.op /\ r.walk = listCall.walk /\ r.name = listCall.name /\ r.kind = kind
      /\ r.out = o /\ r.always = always /\ r.ever = ever
  OBVIOUS
<1> HIDE DEF r
<1>3. listCall.op \in Enum!Lists
  BY DEF EnumInv, EnumTypes
<1>4. EnumTypes'
  <2>1. names' \in Seq(Names)
    BY EmptySeq
  <2>2. collected' \in Items
    BY EmptyFits
  <2>3. Len((collected.items)') <= Room
    BY EmptyFits
  <2>4. QED
    BY <1>1, <1>2, <1>3, <2>1, <2>2, <2>3 DEF EnumInv, EnumTypes
<1>5. EnumStage'
  BY <1>1 DEF EnumStage
<1>6. (Enum!ListsAreExact)'
  <2>1. (Enum!Supplied)' = All
    BY <1>1, <1>2 DEF Enum!Supplied, All
  <2>2. Enum!Cardinality(All) = Cardinality(All)
    BY DEF Enum!Cardinality, Cardinality
  <2>3. kind # "ok" \/ kind # "truncated"
    OBVIOUS
  <2>4. (listReply.op)' = listCall.op /\ (listReply.kind)' = kind /\ (listReply.out)' = o
    BY <1>1, <1>2
  <2>5. (listReply.name)' = listCall.name /\ (listReply.always)' = always /\ (listReply.ever)' = ever
    BY <1>1, <1>2
  <2>6. (Enum!Cardinality(Enum!Supplied))' = Cardinality(All)
    BY <2>1, <2>2
  <2>7. kind = "truncated" => Cardinality(All) >= Room
    OBVIOUS
  <2>8. listCall.op = "parse mac" => \/ listCall.name \in All <=> kind = "ok"
                                     \/ kind = "truncated"
    OBVIOUS
  <2>9. kind = "ok" =>
          /\ Enum!IsInjective(o)
          /\ listCall.op \in {"macs", "providers"} => Enum!ToSet(o) = All
          /\ listCall.op = "digests" => /\ All \cap always \subseteq Enum!ToSet(o)
                                        /\ Enum!ToSet(o) \subseteq All \cap ever
    OBVIOUS
  <2>10. QED
    BY <2>1, <2>4, <2>5, <2>6, <2>7, <2>8, <2>9 DEF Enum!ListsAreExact
<1>7. QED
  BY <1>4, <1>5, <1>6 DEF EnumInv

(* A call that goes on.                                                     *)
LEMMA EnumMoves ==
  ASSUME EnumInv, listReply = Enum!None, UNCHANGED listReply,
         listCall' \in [op : Enum!Lists, at : {"walk", "confirm"}, walk : Walked, left : Walked,
                        name : Names \cup {NoName}, out : Seq(Names)],
         collected' \in Items, Len((collected.items)') <= Room, names' \in Seq(Names),
         usable' \subseteq Names, ever' \subseteq Names, always' \subseteq usable',
         usable' \subseteq ever', queries' \in 0..MaxQueries,
         (listCall.op)' = "providers" => /\ Enum!IsInjective((listCall.walk)')
                                         /\ NoName \notin Enum!ToSet((listCall.walk)'),
         (listCall.op)' # "parse mac" \/ (listCall.name)' \in Names,
         (listCall.at)' = "walk" => Collecting',
         (listCall.at)' = "confirm" => Confirming'
  PROVE  EnumInv'
<1>1. EnumTypes'
  BY DEF EnumTypes
<1>2. EnumStage'
  <2>1. listCall' # Enum!Idle
    <3>1. (listCall.op)' \in Enum!Lists
      OBVIOUS
    <3>2. Enum!Idle.op = "none" /\ "none" \notin Enum!Lists
      BY DEF Enum!Idle, Enum!Lists
    <3>3. QED
      BY <3>1, <3>2
  <2>2. QED
    BY <2>1 DEF EnumStage
<1>3. (Enum!ListsAreExact)'
  BY DEF Enum!ListsAreExact
<1>4. QED
  BY <1>1, <1>2, <1>3 DEF EnumInv

(* What is known of a call under way.                                       *)
LEMMA EnumCall ==
  ASSUME EnumInv, listCall # Enum!Idle
  PROVE  /\ listCall \in [op : Enum!Lists, at : {"walk", "confirm"}, walk : Walked, left : Walked,
                          name : Names \cup {NoName}, out : Seq(Names)]
         /\ listCall.op \in Enum!Lists /\ listCall.at \in {"walk", "confirm"}
         /\ listCall.walk \in Walked /\ listCall.left \in Walked
         /\ listCall.name \in Names \cup {NoName} /\ listCall.out \in Seq(Names)
         /\ EnumTypes /\ EnumStage /\ listReply = Enum!None
         /\ Len(listCall.walk) \in Nat /\ Len(listCall.left) \in Nat
         /\ collected \in Items /\ collected.items \in Seq(Names) /\ collected.overflow \in BOOLEAN
         /\ Len(collected.items) \in Nat
         /\ listCall.op = "providers" => /\ Enum!IsInjective(listCall.walk)
                                         /\ NoName \notin Enum!ToSet(listCall.walk)
         /\ listCall.op # "parse mac" \/ listCall.name \in Names
         /\ listCall.at = "walk" => Collecting
         /\ listCall.at = "confirm" => Confirming
<1>1. /\ EnumTypes /\ EnumStage
      /\ listCall \in [op : Enum!Lists, at : {"walk", "confirm"}, walk : Walked, left : Walked,
                       name : Names \cup {NoName}, out : Seq(Names)]
  BY DEF EnumInv, EnumTypes
<1>2. /\ listCall.walk \in Walked /\ listCall.left \in Walked
      /\ collected.items \in Seq(Names) /\ collected \in Items
  BY <1>1 DEF EnumTypes, Items
<1>3. /\ Len(listCall.walk) \in Nat /\ Len(listCall.left) \in Nat
      /\ Len(collected.items) \in Nat
  BY <1>2, LenProperties DEF Walked
<1>4. listCall.at \in {"walk", "confirm"} /\ collected.overflow \in BOOLEAN
  BY <1>1, <1>2 DEF Items
<1>5. QED
  BY <1>1, <1>2, <1>3, <1>4 DEF EnumStage

(* A call begins with an empty array and everything left to walk.           *)
LEMMA EnumBegins ==
  ASSUME EnumInv, NEW op \in Enum!Lists, NEW walk \in Enum!Walks(op), NEW n \in Enum!Asked(op),
         Enum!Begin(op, walk, n)
  PROVE  EnumInv'
<1> DEFINE c == [op |-> op, at |-> "walk", walk |-> walk, left |-> walk, name |-> n, out |-> <<>>]
<1>1. /\ listCall = Enum!Idle /\ listReply = Enum!None /\ listCall' = c
      /\ UNCHANGED <<usable, queries, always, ever, collected, names, listReply>>
  BY DEF Enum!Begin
<1>2. /\ walk \in Walked
      /\ op = "providers" => Enum!IsInjective(walk) /\ NoName \notin Enum!ToSet(walk)
  <2>1. PICK m \in 0..MaxWalk : walk \in [1..m -> Names \cup {NoName}]
    BY DEF Enum!Walks
  <2>2. m \in Nat
    BY BoundsAssumption
  <2>3. QED
    BY <2>1, <2>2 DEF Enum!Walks, Walked
<1>3. n \in Names \cup {NoName} /\ (op = "parse mac" => n \in Names)
  BY DEF Enum!Asked
<1>4. <<>> \in Seq(Names)
  BY EmptySeq
<1>5. /\ c \in [op : Enum!Lists, at : {"walk", "confirm"}, walk : Walked, left : Walked,
                name : Names \cup {NoName}, out : Seq(Names)]
      /\ c.op = op /\ c.at = "walk" /\ c.walk = walk /\ c.left = walk /\ c.name = n /\ c.out = <<>>
  BY <1>2, <1>3, <1>4
<1> HIDE DEF c
<1>6. EnumTypes /\ names = <<>> /\ collected = Enum!Empty
  BY <1>1 DEF EnumInv, EnumStage
<1>7. Len(walk) \in Nat
  BY <1>2, LenProperties DEF Walked
<1>8. Come' = 0 /\ Seen' = {}
  <2>1. Come' = 0
    BY <1>1, <1>5, <1>7 DEF Come
  <2>2. QED
    BY <2>1 DEF Seen
<1>9. /\ Enum!Empty.items = <<>> /\ Enum!ToSet(<<>>) = {} /\ Enum!IsInjective(<<>>)
      /\ ~Enum!Empty.overflow
  <2>1. Enum!Empty.items = <<>> /\ ~Enum!Empty.overflow
    BY EmptyFits
  <2>2. Enum!ToSet(<<>>) = {} /\ Enum!IsInjective(<<>>)
    BY <1>4, Elements
  <2>3. QED
    BY <2>1, <2>2
<1>10. Collecting'
  <2>1. \A i \in 1..Len((listCall.left)') : (listCall.left)'[i] = (listCall.walk)'[Come' + i]
    BY <1>1, <1>5, <1>7, <1>8
  <2>2. Come' \in 0..Len((listCall.walk)')
    BY <1>1, <1>5, <1>7, <1>8
  <2>3. IF Enum!Truncated' THEN Len((collected.items)') >= Room
        ELSE Seen' \cap Names \subseteq Enum!ToSet((collected.items)')
    BY <1>1, <1>6, <1>8, <1>9 DEF Enum!Truncated
  <2>4. names' = <<>> /\ (listCall.out)' = <<>>
    BY <1>1, <1>5, <1>6
  <2>5. Enum!IsInjective((collected.items)') /\ Enum!ToSet((collected.items)') = {}
    BY <1>1, <1>6, <1>9
  <2>6. QED
    BY <2>1, <2>2, <2>3, <2>4, <2>5 DEF Collecting
<1>11. QED
  BY <1>1, <1>2, <1>3, <1>5, <1>6, <1>10, EnumMoves DEF EnumTypes

(* Another goroutine changes the property query.                            *)
LEMMA EnumQueries == EnumInv /\ Enum!Query => EnumInv'
<1> SUFFICES ASSUME EnumInv, Enum!Query PROVE EnumInv'
  OBVIOUS
<1>1. /\ listCall # Enum!Idle /\ UNCHANGED <<listCall, collected, names, listReply>>
      /\ usable' \in SUBSET Names /\ queries < MaxQueries /\ queries' = queries + 1
      /\ always' = always \cap usable' /\ ever' = ever \cup usable'
  BY DEF Enum!Query
<1>2. EnumTypes /\ names \in Seq(Names) /\ Len(collected.items) <= Room
  BY <1>1, EnumCall DEF EnumTypes
<1>3. queries' \in 0..MaxQueries
  BY <1>1, <1>2, BoundsAssumption DEF EnumTypes
<1>4. Collecting => Collecting'
  BY <1>1 DEF Collecting, Come, Seen, Enum!Truncated
<1>5. Confirming => Confirming'
  <2>1. All' = All
    BY <1>1 DEF All
  <2>2. QED
    BY <1>1, <2>1 DEF Confirming
<1>6. /\ usable' \subseteq Names /\ ever' \subseteq Names /\ always' \subseteq usable'
      /\ usable' \subseteq ever'
  BY <1>1, <1>2 DEF EnumTypes
<1>7. QED
  BY <1>1, <1>2, <1>3, <1>4, <1>5, <1>6, EnumCall, EnumMoves

(* One more name is walked, and appended unless it is there or the array is *)
(* full.                                                                    *)
LEMMA EnumCollects == EnumInv /\ Enum!Collect => EnumInv'
<1> SUFFICES ASSUME EnumInv, Enum!Collect PROVE EnumInv'
  OBVIOUS
<1> DEFINE w == listCall.walk
           n == Head(listCall.left)
           c == [listCall EXCEPT !.left = Tail(@)]
           a == Enum!AppendName(listCall.op, collected, n)
<1>1. /\ listCall # Enum!Idle /\ listCall.at = "walk" /\ listCall.left # <<>>
      /\ listCall' = c /\ collected' = a
      /\ UNCHANGED <<usable, queries, always, ever, names, listReply>>
  BY DEF Enum!Collect
<1>2. /\ EnumTypes /\ Collecting /\ listReply = Enum!None
      /\ w \in Walked /\ listCall.left \in Walked /\ Len(w) \in Nat /\ Len(listCall.left) \in Nat
      /\ collected \in Items /\ collected.items \in Seq(Names) /\ collected.overflow \in BOOLEAN
      /\ Len(collected.items) \in Nat /\ Len(collected.items) <= Room
  BY <1>1, EnumCall DEF EnumTypes
<1>3. /\ Tail(listCall.left) \in Walked /\ Len(Tail(listCall.left)) = Len(listCall.left) - 1
      /\ Len(listCall.left) > 0 /\ n = listCall.left[1]
      /\ \A i \in 1..Len(listCall.left) - 1 : Tail(listCall.left)[i] = listCall.left[i + 1]
  <2>1. Len(listCall.left) > 0
    BY <1>1, <1>2, EmptySeq DEF Walked
  <2>2. QED
    BY <1>2, <2>1, LenProperties DEF Walked
<1>4. /\ c \in [op : Enum!Lists, at : {"walk", "confirm"}, walk : Walked, left : Walked,
                name : Names \cup {NoName}, out : Seq(Names)]
      /\ c.op = listCall.op /\ c.at = "walk" /\ c.walk = w /\ c.left = Tail(listCall.left)
      /\ c.name = listCall.name /\ c.out = listCall.out
  BY <1>1, <1>3, EnumCall
<1> HIDE DEF c, n
<1>5. Come + 1 \in 1..Len(w) /\ n = w[Come + 1] /\ Come' = Come + 1 /\ Come \in Nat
  <2>1. Come \in 0..Len(w)
    BY <1>2 DEF Collecting
  <2>2. Come = Len(w) - Len(listCall.left)
    BY DEF Come
  <2>3. Come' = Len(w) - (Len(listCall.left) - 1)
    BY <1>1, <1>3, <1>4 DEF Come
  <2> HIDE DEF w
  <2>4. Come + 1 \in 1..Len(w) /\ Come' = Come + 1 /\ Come \in Nat
    BY <1>2, <1>3, <2>1, <2>2, <2>3
  <2>5. \A i \in 1..Len(listCall.left) : listCall.left[i] = w[Come + i]
    BY <1>2 DEF Collecting, w
  <2>6. n = w[Come + 1]
    BY <1>2, <1>3, <2>5
  <2>7. QED
    BY <2>4, <2>6
<1>6. Seen' = Seen \cup {n}
  <2>1. 1..Come + 1 = (1..Come) \cup {Come + 1}
    BY <1>5
  <2>2. Seen' = {w[i] : i \in 1..Come + 1}
    BY <1>1, <1>4, <1>5 DEF Seen
  <2>3. QED
    BY <1>5, <2>1, <2>2 DEF Seen
<1>7. n \in Names \cup {NoName}
  BY <1>2, <1>5 DEF Walked
<1>8. listCall.op = "providers" => n \in Names /\ n \notin Seen
  <2> SUFFICES ASSUME listCall.op = "providers" PROVE n \in Names /\ n \notin Seen
    OBVIOUS
  <2>1. Enum!IsInjective(w) /\ NoName \notin Enum!ToSet(w) /\ DOMAIN w = 1..Len(w)
    BY <1>1, <1>2, EnumCall, LenProperties DEF Walked
  <2>2. n \in Names
    BY <1>5, <1>7, <2>1 DEF Enum!ToSet
  <2>3. n \notin Seen
    BY <1>5, <2>1 DEF Seen, Enum!IsInjective
  <2>4. QED
    BY <2>2, <2>3
<1>9. /\ a \in Items /\ Len(a.items) <= Room /\ Enum!IsInjective(a.items)
      /\ Enum!ToSet(a.items) \subseteq (Seen \cup {n}) \cap Names
      /\ IF IF listCall.op = "providers" THEN Len(a.items) >= Room ELSE a.overflow
         THEN Len(a.items) >= Room
         ELSE (Seen \cup {n}) \cap Names \subseteq Enum!ToSet(a.items)
  <2>0. /\ Enum!IsInjective(collected.items)
        /\ Enum!ToSet(collected.items) \subseteq Seen \cap Names
        /\ IF IF listCall.op = "providers" THEN Len(collected.items) >= Room ELSE collected.overflow
           THEN Len(collected.items) >= Room
           ELSE Seen \cap Names \subseteq Enum!ToSet(collected.items)
        /\ Room \in Nat
    BY <1>2, BoundsAssumption DEF Collecting, Enum!Truncated
  <2>1. CASE a = collected /\ n \notin Names
    BY <1>2, <1>7, <1>8, <2>0, <2>1
  <2>2. CASE a = collected /\ n \in Enum!ToSet(collected.items)
    BY <1>2, <1>8, <2>0, <2>2
  <2>3. CASE a = collected /\ listCall.op = "providers" /\ Len(collected.items) >= Room
    BY <1>2, <2>0, <2>3
  <2>4. CASE /\ listCall.op # "providers" /\ Len(collected.items) >= Room
             /\ a = [collected EXCEPT !.overflow = TRUE]
    <3>1. a.items = collected.items /\ a.overflow = TRUE /\ a \in Items
      BY <1>2, <2>4 DEF Items
    <3>2. QED
      BY <1>2, <2>0, <2>4, <3>1
  <2>5. CASE /\ Len(collected.items) < Room /\ n \in Names /\ n \notin Enum!ToSet(collected.items)
             /\ a = [collected EXCEPT !.items = Append(@, n)]
    <3>1. /\ Append(collected.items, n) \in Seq(Names)
          /\ Len(Append(collected.items, n)) = Len(collected.items) + 1
          /\ Enum!ToSet(Append(collected.items, n)) = Enum!ToSet(collected.items) \cup {n}
          /\ Enum!IsInjective(Append(collected.items, n))
      BY <1>2, <2>0, <2>5, Elements
    <3>2. /\ a.items = Append(collected.items, n) /\ a.overflow = collected.overflow
          /\ a \in Items
      BY <1>2, <2>5, <3>1 DEF Items
    <3> HIDE DEF a
    <3>3. /\ Enum!IsInjective(a.items) /\ Len(a.items) = Len(collected.items) + 1
          /\ Enum!ToSet(a.items) = Enum!ToSet(collected.items) \cup {n}
      BY <3>1, <3>2
    <3>4. IF IF listCall.op = "providers" THEN Len(a.items) >= Room ELSE a.overflow
          THEN Len(a.items) >= Room
          ELSE (Seen \cup {n}) \cap Names \subseteq Enum!ToSet(a.items)
      BY <1>2, <2>0, <2>5, <3>2, <3>3
    <3>5. Len(a.items) <= Room
      BY <1>2, <2>0, <2>5, <3>3
    <3>6. Enum!ToSet(a.items) \subseteq (Seen \cup {n}) \cap Names
      BY <2>0, <2>5, <3>3
    <3>7. QED
      BY <3>2, <3>3, <3>4, <3>5, <3>6
  <2>6. \/ a = collected /\ n \notin Names
        \/ a = collected /\ n \in Enum!ToSet(collected.items)
        \/ a = collected /\ listCall.op = "providers" /\ Len(collected.items) >= Room
        \/ /\ listCall.op # "providers" /\ Len(collected.items) >= Room
           /\ a = [collected EXCEPT !.overflow = TRUE]
        \/ /\ Len(collected.items) < Room /\ n \in Names /\ n \notin Enum!ToSet(collected.items)
           /\ a = [collected EXCEPT !.items = Append(@, n)]
    <3>1. CASE listCall.op = "providers"
      BY <1>2, <1>8, <2>0, <3>1 DEF Enum!AppendName
    <3>2. CASE listCall.op # "providers" /\ n = NoName
      BY <3>2, NoNameAssumption DEF Enum!AppendName
    <3>3. CASE listCall.op # "providers" /\ n # NoName /\ Len(collected.items) >= Room
      <4>1. ~(Len(collected.items) < Room)
        BY <1>2, <2>0, <3>3
      <4>2. a = [collected EXCEPT !.overflow = TRUE]
        BY <3>3, <4>1 DEF Enum!AppendName
      <4>3. QED
        BY <3>3, <4>2
    <3>4. CASE listCall.op # "providers" /\ n # NoName /\ Len(collected.items) < Room
      <4>1. n \in Names
        BY <1>7, <3>4
      <4>2. a = [collected EXCEPT !.items =
                   IF n \in Enum!ToSet(@) THEN @ ELSE Append(@, n)]
        BY <1>2, <2>0, <3>4 DEF Enum!AppendName
      <4>3. [collected EXCEPT !.items = @] = collected
        BY <1>2 DEF Items
      <4>4. QED
        BY <3>4, <4>1, <4>2, <4>3
    <3>5. QED
      BY <1>2, <2>0, <3>1, <3>2, <3>3, <3>4
  <2>7. QED
    BY <2>1, <2>2, <2>3, <2>4, <2>5, <2>6
<1> HIDE DEF a
<1>10. Collecting'
  <2>1. \A i \in 1..Len((listCall.left)') : (listCall.left)'[i] = (listCall.walk)'[Come' + i]
    <3> SUFFICES ASSUME NEW i \in 1..Len(Tail(listCall.left))
                 PROVE Tail(listCall.left)[i] = w[Come + 1 + i]
      BY <1>1, <1>4, <1>5
    <3>1. i + 1 \in 1..Len(listCall.left) /\ Tail(listCall.left)[i] = listCall.left[i + 1]
      BY <1>2, <1>3
    <3>2. listCall.left[i + 1] = w[Come + (i + 1)]
      BY <1>2, <3>1 DEF Collecting
    <3>3. QED
      BY <1>5, <3>1, <3>2
  <2>2. Come' \in 0..Len((listCall.walk)')
    BY <1>1, <1>2, <1>4, <1>5
  <2>3. names' = <<>> /\ (listCall.out)' = <<>>
    BY <1>1, <1>2, <1>4 DEF Collecting
  <2>4. IF Enum!Truncated' THEN Len((collected.items)') >= Room
        ELSE Seen' \cap Names \subseteq Enum!ToSet((collected.items)')
    BY <1>1, <1>4, <1>6, <1>9 DEF Enum!Truncated
  <2>5. QED
    BY <1>1, <1>6, <1>9, <2>1, <2>2, <2>3, <2>4 DEF Collecting
<1>11. QED
  BY <1>1, <1>2, <1>4, <1>9, <1>10, EnumCall, EnumMoves DEF EnumTypes

(* The walk is over: the list is whole, or the call says that it is not.    *)
LEMMA EnumCollected == EnumInv /\ Enum!Collected => EnumInv'
<1> SUFFICES ASSUME EnumInv, Enum!Collected PROVE EnumInv'
  OBVIOUS
<1> DEFINE w == listCall.walk
           l == collected.items
<1>1. /\ listCall # Enum!Idle /\ listCall.at = "walk" /\ listCall.left = <<>>
      /\ collected' = Enum!Empty /\ UNCHANGED <<usable, queries, always, ever>>
  BY DEF Enum!Collected
<1>2. /\ EnumTypes /\ Collecting /\ listReply = Enum!None /\ listCall.op \in Enum!Lists
      /\ w \in Walked /\ Len(w) \in Nat
      /\ collected \in Items /\ l \in Seq(Names) /\ Len(l) <= Room /\ names = <<>>
      /\ Room \in Nat /\ Len(l) \in Nat
  BY <1>1, EnumCall, BoundsAssumption DEF EnumTypes, Collecting
<1>3. Seen = Enum!ToSet(w)
  <2>1. Come = Len(w)
    BY <1>1, <1>2 DEF Come
  <2>2. QED
    BY <1>2, <2>1, Elements DEF Seen, Walked
<1>4. Enum!IsInjective(l) /\ Enum!ToSet(l) \subseteq All
  BY <1>2, <1>3 DEF Collecting, All
<1>5. ~Enum!Truncated => Enum!ToSet(l) = All
  BY <1>2, <1>3, <1>4 DEF Collecting, All
<1>6. Enum!Truncated => Cardinality(All) >= Room
  <2> SUFFICES ASSUME Enum!Truncated PROVE Cardinality(All) >= Room
    OBVIOUS
  <2>1. Len(l) >= Room
    BY <1>2 DEF Collecting
  <2>2. IsFiniteSet(All)
    <3>1. IsFiniteSet(Enum!ToSet(w))
      BY <1>2, RangeFinite DEF Walked
    <3>2. QED
      BY <3>1, FS_Subset DEF All
  <2>3. Cardinality(All) >= Len(l) /\ Cardinality(All) \in Nat
    BY <1>2, <1>4, <2>2, InjectiveIsShort, FS_CardinalityType
  <2>4. QED
    BY <1>2, <2>1, <2>3
<1>7. <<>> \in Seq(Names) /\ Enum!IsInjective(<<>>) /\ Enum!ToSet(<<>>) = {}
  BY EmptySeq, Elements
<1>8. CASE Enum!Truncated
  <2>1. Enum!End("truncated", <<>>) /\ names' = <<>>
    BY <1>2, <1>8 DEF Enum!Collected
  <2>2. QED
    BY <1>1, <1>6, <1>7, <1>8, <2>1, EnumAnswers
<1>9. CASE ~Enum!Truncated /\ listCall.op = "digests"
  <2> DEFINE c == [listCall EXCEPT !.at = "confirm"]
  <2>1. names' = l /\ listCall' = c /\ UNCHANGED listReply
    BY <1>9 DEF Enum!Collected
  <2>2. /\ c \in [op : Enum!Lists, at : {"walk", "confirm"}, walk : Walked, left : Walked,
                  name : Names \cup {NoName}, out : Seq(Names)]
        /\ c.op = "digests" /\ c.at = "confirm" /\ c.walk = w /\ c.out = <<>>
    BY <1>1, <1>2, <1>9, EnumCall DEF Collecting
  <2> HIDE DEF c
  <2>3. All' = All
    BY <2>1, <2>2 DEF All
  <2>4. Confirming'
    BY <1>1, <1>4, <1>5, <1>7, <1>9, <2>1, <2>2, <2>3 DEF Confirming
  <2>5. collected' \in Items /\ Len((collected.items)') <= Room /\ names' \in Seq(Names)
    BY <1>1, <1>2, <2>1, EmptyFits
  <2>6. /\ (listCall.op)' = "digests" /\ (listCall.at)' = "confirm"
        /\ listCall' \in [op : Enum!Lists, at : {"walk", "confirm"}, walk : Walked, left : Walked,
                          name : Names \cup {NoName}, out : Seq(Names)]
    BY <2>1, <2>2
  <2>7. QED
    BY <1>1, <1>2, <2>1, <2>4, <2>5, <2>6, EnumMoves DEF EnumTypes
<1>10. CASE ~Enum!Truncated /\ listCall.op = "parse mac"
  <2>1. listCall.name \in Names /\ names' = <<>>
    BY <1>1, <1>2, <1>10, EnumCall DEF Enum!Collected
  <2>2. CASE listCall.name \in All
    <3>1. Enum!End("ok", <<listCall.name>>)
      BY <1>5, <1>10, <2>2 DEF Enum!Collected
    <3>2. <<listCall.name>> = Append(<<>>, listCall.name)
      OBVIOUS
    <3>3. <<listCall.name>> \in Seq(Names) /\ Enum!IsInjective(<<listCall.name>>)
      <4>1. Append(<<>>, listCall.name) \in Seq(Names) /\ Enum!IsInjective(Append(<<>>, listCall.name))
        BY <1>7, <2>1, Elements
      <4>2. QED
        BY <3>2, <4>1
    <3>4. QED
      BY <1>1, <1>10, <2>1, <2>2, <3>1, <3>3, EnumAnswers
  <2>3. CASE listCall.name \notin All
    <3>1. Enum!End("unknown", <<>>)
      BY <1>5, <1>10, <2>3 DEF Enum!Collected
    <3>2. QED
      BY <1>1, <1>7, <1>10, <2>1, <2>3, <3>1, EnumAnswers
  <2>4. QED
    BY <2>2, <2>3
<1>11. CASE ~Enum!Truncated /\ listCall.op \in {"macs", "providers"}
  <2>1. names' = <<>> /\ (Enum!End("ok", l) \/ Enum!End("failed", <<>>))
    BY <1>2, <1>11 DEF Enum!Collected
  <2>2. CASE Enum!End("ok", l)
    BY <1>1, <1>2, <1>4, <1>5, <1>11, <2>1, <2>2, EnumAnswers
  <2>3. CASE Enum!End("failed", <<>>)
    BY <1>1, <1>7, <1>11, <2>1, <2>3, EnumAnswers
  <2>4. QED
    BY <2>1, <2>2, <2>3
<1>12. QED
  BY <1>2, <1>8, <1>9, <1>10, <1>11 DEF Enum!Lists

(* One name is confirmed, or is not usable any more.                        *)
LEMMA EnumConfirms == EnumInv /\ Enum!Confirm => EnumInv'
<1> SUFFICES ASSUME EnumInv, Enum!Confirm PROVE EnumInv'
  OBVIOUS
<1> DEFINE n == Head(names)
           o == IF n \in usable THEN Append(listCall.out, n) ELSE listCall.out
           c == [listCall EXCEPT !.out = o]
<1>1. /\ names # <<>> /\ listCall' = c /\ names' = Tail(names)
      /\ UNCHANGED <<usable, queries, always, ever, collected, listReply>>
  BY DEF Enum!Confirm
<1>2. listCall # Enum!Idle
  BY <1>1 DEF EnumInv, EnumStage
<1>3. /\ EnumTypes /\ Confirming /\ listReply = Enum!None /\ listCall.at = "confirm"
      /\ listCall.out \in Seq(Names) /\ names \in Seq(Names)
  BY <1>1, <1>2, EnumCall DEF EnumTypes, Collecting
<1>4. /\ n \in Names /\ Tail(names) \in Seq(Names) /\ Enum!IsInjective(Tail(names))
      /\ Enum!ToSet(names) = {n} \cup Enum!ToSet(Tail(names))
      /\ n \notin Enum!ToSet(Tail(names))
  BY <1>1, <1>3, HeadIsFirst DEF Confirming
<1>5. /\ o \in Seq(Names) /\ Enum!IsInjective(o)
      /\ Enum!ToSet(o) = Enum!ToSet(listCall.out) \cup ({n} \cap usable)
  <2>1. n \notin Enum!ToSet(listCall.out) /\ Enum!IsInjective(listCall.out)
    BY <1>3, <1>4 DEF Confirming
  <2>2. CASE n \in usable
    BY <1>3, <1>4, <2>1, <2>2, Elements
  <2>3. CASE n \notin usable
    BY <1>3, <2>1, <2>3
  <2>4. QED
    BY <2>2, <2>3
<1> HIDE DEF n, o
<1>6. /\ c \in [op : Enum!Lists, at : {"walk", "confirm"}, walk : Walked, left : Walked,
                name : Names \cup {NoName}, out : Seq(Names)]
      /\ c.op = "digests" /\ c.at = "confirm" /\ c.walk = listCall.walk /\ c.out = o
      /\ c.name = listCall.name
  BY <1>2, <1>3, <1>5, EnumCall DEF Confirming
<1> HIDE DEF c
<1>7. Confirming'
  <2>1. All' = All
    BY <1>1, <1>6 DEF All
  <2>2. always \subseteq usable /\ usable \subseteq ever
    BY <1>3 DEF EnumTypes
  <2>3. /\ Enum!ToSet(o) \cap Enum!ToSet(Tail(names)) = {}
        /\ Enum!ToSet(Tail(names)) \subseteq All
        /\ Enum!ToSet(o) \subseteq All \cap ever
        /\ All \cap always \subseteq Enum!ToSet(o) \cup Enum!ToSet(Tail(names))
    BY <1>3, <1>4, <1>5, <2>2 DEF Confirming
  <2>4. QED
    BY <1>1, <1>3, <1>4, <1>5, <1>6, <2>1, <2>3 DEF Confirming
<1>8. collected' \in Items /\ Len((collected.items)') <= Room
  BY <1>1, <1>3 DEF EnumTypes
<1>9. (listCall.op)' = "digests" /\ (listCall.at)' = "confirm"
  BY <1>1, <1>6
<1>10. QED
  BY <1>1, <1>3, <1>4, <1>6, <1>7, <1>8, <1>9, EnumMoves DEF EnumTypes

(* The list is confirmed.                                                   *)
LEMMA EnumConfirmed == EnumInv /\ Enum!Confirmed => EnumInv'
<1> SUFFICES ASSUME EnumInv, Enum!Confirmed PROVE EnumInv'
  OBVIOUS
<1>1. /\ listCall # Enum!Idle /\ listCall.at = "confirm" /\ names = <<>>
      /\ Enum!End("ok", listCall.out)
      /\ UNCHANGED <<usable, queries, always, ever, collected, names>>
  BY DEF Enum!Confirmed
<1>2. Confirming /\ listCall.out \in Seq(Names)
  BY <1>1, EnumCall
<1>3. Enum!ToSet(<<>>) = {}
  BY EmptySeq, Elements
<1>4. /\ listCall.op = "digests" /\ collected = Enum!Empty /\ Enum!IsInjective(listCall.out)
      /\ All \cap always \subseteq Enum!ToSet(listCall.out)
      /\ Enum!ToSet(listCall.out) \subseteq All \cap ever
  BY <1>1, <1>2, <1>3 DEF Confirming
<1>5. QED
  BY <1>1, <1>2, <1>4, EnumAnswers

(* Every step of a list preserves the invariant.                            *)
LEMMA EnumNext == EnumInv /\ [Enum!Next]_listVars => EnumInv'
<1> SUFFICES ASSUME EnumInv, [Enum!Next]_listVars PROVE EnumInv'
  OBVIOUS
<1>1. CASE UNCHANGED listVars
  <2>0. UNCHANGED <<usable, queries, always, ever, listCall, collected, names, listReply>>
    BY <1>1 DEF listVars
  <2>1. EnumTypes'
    BY <2>0 DEF EnumInv, EnumTypes
  <2>2. EnumStage'
    BY <2>0 DEF EnumInv, EnumStage, Collecting, Confirming, Come, Seen, All, Enum!Truncated
  <2>3. (Enum!ListsAreExact)'
    BY <2>0 DEF EnumInv, Enum!ListsAreExact, Enum!Supplied
  <2>4. QED
    BY <2>1, <2>2, <2>3 DEF EnumInv
<1>2. QED
  BY <1>1, EnumBegins, EnumQueries, EnumCollects, EnumCollected, EnumConfirms, EnumConfirmed
     DEF Enum!Next

(* Calls that make a list keep the invariant whatever the subject.          *)
THEOREM EnumInvariance == CallsSpec => []EnumInv
<1>1. CallsInit => EnumInv
  BY EnumInit DEF CallsInit
<1>2. EnumInv /\ [CallsNext]_callsVars => EnumInv'
  BY EnumNext, ListProjection
<1>3. QED
  BY <1>1, <1>2, PTL DEF CallsSpec, callsVars

(* A list is the whole list, whatever the providers have and however many   *)
(* names the array holds (enumerate.go:112-120, provider.go:150-154).       *)
THEOREM ListsAreWhole == CallsSpec => []ListsAreExact
<1>1. EnumInv => ListsAreExact
  BY DEF EnumInv, ListsAreExact
<1>2. QED
  BY <1>1, EnumInvariance, PTL

-----------------------------------------------------------------------------
(* What the subjects have in common.                                        *)

(* A rejection tells nothing of where and why, for AEAD, asymmetric         *)
(* operations, ciphers and key wraps (cipher.go:347, asym.go:151-156,       *)
(* cipher_sym.go:236-239).                                                  *)
THEOREM AnswersStayAlike == CallsSpec => []AnswersTell
<1>1. TrialInv => Ciph!FailuresAlike
  BY DEF TrialInv, CipherInv
<1>2. AEAD!OneVerdict /\ AEAD!SealDiagnosed /\ Asym!OneRejection /\ Ciph!FailuresAlike => AnswersTell
  BY DEF AnswersTell
<1>3. QED
  BY <1>1, <1>2, OpenTellsNothing, KeyRejectsAlike, TrialInvariance, PTL

(* No failed Open, decryption, decapsulation, derivation or unwrapping      *)
(* leaves a secret in its buffer.                                           *)
THEOREM SecretsStayWiped == CallsSpec => []SecretsWiped
<1>1. TrialInv => Ciph!BufferWiped
  BY DEF TrialInv, CipherInv
<1>2. AEAD!PlaintextWiped /\ Asym!SecretsWiped /\ Ciph!BufferWiped => SecretsWiped
  BY DEF SecretsWiped
<1>3. QED
  BY <1>1, <1>2, OpenTellsNothing, KeyRejectsAlike, TrialInvariance, PTL

(* No path of any call loses a C object or frees one twice, none reaches an *)
(* assertion of libcrypto, and a trial closes what it opens.                *)
THEOREM NothingIsLeaked == CallsSpec => []NothingLeaks
<1>1. TrialInv => Ciph!NothingLeft
  <2> SUFFICES ASSUME TrialInv, at = "idle", cipherPc = "idle" PROVE trialHandles = 0 /\ ctxs = 0
    BY DEF Ciph!NothingLeft
  <2>1. trialHandles = 0
    BY DEF TrialInv, TrialStage
  <2>2. ctxs = 0
    BY DEF TrialInv, CipherInv, CipherTypes
  <2>3. QED
    BY <2>1, <2>2
<1>2. StreamInv => Balanced
  BY StreamBalanced
<1>3. CodecInv => Code!NothingLeaks
  BY DEF CodecInv
<1>4. WalkInv => Walk!NothingLeaks
  BY DEF WalkInv
<1>5. ParamInv => Pars!ArenaFreed
  BY DEF ParamInv, ParamStage, Pars!ArenaFreed
<1>6. Balanced /\ Asym!FreedOnce /\ Asym!NeverAborts /\ Ciph!NothingLeft
        /\ Code!NothingLeaks /\ Walk!NothingLeaks /\ Pars!ArenaFreed => NothingLeaks
  BY DEF NothingLeaks
<1>7. QED
  BY <1>1, <1>2, <1>3, <1>4, <1>5, <1>6, StreamInvariance, KeyObjectsFreed, TrialInvariance,
     CodecInvariance, WalkInvariance, ParamInvariance, PTL

(* A store is what it was when the walk began.                              *)
LEMMA StoreStays == CallsSpec => [](store \in Walk!Stores)
<1>1. CallsInit => store \in Walk!Stores
  BY DEF CallsInit, Walk!Init
<1>2. store \in Walk!Stores /\ [CallsNext]_callsVars => (store \in Walk!Stores)'
  <2>1. [Walk!Next]_walkVars => UNCHANGED store
    BY DEF walkVars, Walk!Next, Walk!Begin, Walk!Open, Walk!Expect, Walk!Load,
           Walk!LoadNull, Walk!Take, Walk!End, Walk!Taken, Walk!Return
  <2>2. QED
    BY <2>1, KeyProjection
<1>3. QED
  BY <1>1, <1>2, PTL DEF CallsSpec, callsVars

(* All of it is type correct.                                               *)
THEOREM TypesStayOK == CallsSpec => []TypesOK
<1>1. StreamInv /\ AEADInv /\ KeyInv => TypeOK /\ AEAD!TypeOK /\ Asym!TypeOK
  BY DEF StreamInv, AEADInv, KeyInv
<1>2. TrialInv => Ciph!TrialTypeOK
  <2> SUFFICES ASSUME TrialInv PROVE Ciph!TrialTypeOK
    OBVIOUS
  <2>1. CipherTypes /\ TrialTypes /\ trialHandles \in Nat
    BY DEF TrialInv, CipherInv, TrialStage
  <2>2. Ciph!TypeOK
    BY <2>1 DEF CipherTypes, Ciph!TypeOK, Modes
  <2>3. QED
    BY <2>1, <2>2 DEF TrialTypes, Ciph!TrialTypeOK
<1>3. EnumInv => Enum!TypeOK
  <2> SUFFICES ASSUME EnumInv PROVE Enum!TypeOK
    OBVIOUS
  <2>1. EnumTypes
    BY DEF EnumInv
  <2>2. Enum!ToSet(names) \subseteq Names
    BY <2>1, Elements DEF EnumTypes
  <2>3. always \subseteq ever /\ collected.overflow \in BOOLEAN
    BY <2>1 DEF EnumTypes, Items
  <2>4. QED
    BY <2>1, <2>2, <2>3 DEF EnumTypes, Enum!TypeOK
<1>4. CodecInv => Code!TypeOK
  BY DEF CodecInv, CodecTypes, CodecPcs, CodecReps, CodecKinds, Code!TypeOK
<1>5. WalkInv /\ store \in Walk!Stores => Walk!TypeOK
  <2> SUFFICES ASSUME WalkInv, store \in Walk!Stores PROVE Walk!TypeOK
    OBVIOUS
  <2>1. WalkTypes /\ WalkReplies
    BY DEF WalkInv
  <2>2. Walk!ToSet(seen) \subseteq Walk!Objects \ {"bad"}
    BY <2>1, LenProperties DEF WalkTypes, Walk!ToSet
  <2>3. QED
    BY <2>1, <2>2 DEF WalkTypes, WalkReplies, Walk!TypeOK
<1>6. ParamInv => Pars!TypeOK
  <2> SUFFICES ASSUME ParamInv PROVE Pars!TypeOK
    OBVIOUS
  <2>1. ParamTypes /\ ParamStage /\ ParamHanded
    BY DEF ParamInv
  <2>2. Pars!ToSet(list) \subseteq Pars!Entries \cup {Pars!End}
    BY <2>1, LenProperties DEF ParamTypes, Pars!ToSet
  <2>3. arena \subseteq Pars!Blocks
    <3>1. PICK k \in 0..2 * asked : arena = 1..k
      BY <2>1 DEF ParamTypes
    <3>2. asked \in 0..MaxEntries /\ MaxEntries \in Nat
      BY <2>1, BoundsAssumption DEF ParamTypes
    <3>3. QED
      BY <3>1, <3>2 DEF Pars!Blocks
  <2>4. heap = arena \/ heap = {}
    BY <2>1 DEF ParamTypes, ParamStage
  <2>5. QED
    BY <2>1, <2>2, <2>3, <2>4 DEF ParamTypes, ParamHanded, Pars!TypeOK
<1>7. TypeOK /\ AEAD!TypeOK /\ Asym!TypeOK /\ Ciph!TrialTypeOK /\ Enum!TypeOK
        /\ Code!TypeOK /\ Walk!TypeOK /\ Pars!TypeOK => TypesOK
  BY DEF TypesOK
<1>8. QED
  BY <1>1, <1>2, <1>3, <1>4, <1>5, <1>6, <1>7, StreamInvariance, AEADInvariance, KeyInvariance,
     TrialInvariance, EnumInvariance, CodecInvariance, WalkInvariance, StoreStays,
     ParamInvariance, PTL
=============================================================================

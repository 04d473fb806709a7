--------------------------- MODULE LibContextProofs ---------------------------
(***************************************************************************)
(* What LibContext promises, for every set of Contexts, every finite set   *)
(* of *Provider values and any number of EnableFIPS calls.                 *)
(*                                                                         *)
(* ReferencesBalance is not inductive, and holds only while EnableFIPS     *)
(* succeeds once on a context: each further success forgets a reference    *)
(* (the run enable_twice).  Accounted counts those too and is preserved by *)
(* every step; what a context owns and what a running EnableFIPS has done  *)
(* so far (Owns, Progress) make it inductive.                              *)
(***************************************************************************)
EXTENDS LibContext, FiniteSetTheorems, TLAPS

Kinds == [lib : Libs, name : Providers]

(* A context keeps a FIPS reference only while it is open, and never before *)
(* EnableFIPS has succeeded on it.                                          *)
Owns ==
  \A c \in Contexts :
    /\ fips[c] => ctx[c] = "open" /\ enables[c] > 0
    /\ ctx[c] = "none" => enables[c] = 0
    /\ enables[c] > 0 /\ ctx[c] = "open" => fips[c] \/ pc = [at |-> "free", on |-> c, fresh |-> FALSE]

(* What a running EnableFIPS or Close knows of its context.                 *)
Progress ==
  pc # Idle =>
    /\ pc.at # "free" => ctx[pc.on] = "open"
    /\ pc.at \in {"load", "selfTest", "restrict"} =>
         config[pc.on] # "none" /\ enables[pc.on] < MaxEnables
    /\ pc.at = "free" => ~fips[pc.on]
    /\ pc.at = "undo" => pc.fresh
    /\ pc.fresh => enables[pc.on] = 0

(* The references that are not a caller's: one a context keeps, one a       *)
(* running EnableFIPS holds, and one for every success but the first.       *)
Kept(l) == IF l \in Contexts /\ fips[l] THEN 1 ELSE 0
Held(l) == IF Holding(l) THEN 1 ELSE 0
Forgotten(l) == IF l \in Contexts /\ enables[l] > 0 THEN enables[l] - 1 ELSE 0

Marked(f, v) == {h \in Handles : f[h] = v}
Callers(l, p) == Cardinality(Marked(handle, [lib |-> l, name |-> p]))

Accounted ==
  \A l \in Libs, p \in Providers :
    refs[l][p] = Callers(l, p)
               + IF p = "fips" THEN Kept(l) + Held(l) + Forgotten(l) ELSE 0

Typed ==
  /\ ctx \in [Contexts -> {"none", "open", "closed"}]
  /\ fips \in [Contexts -> BOOLEAN]
  /\ enables \in [Contexts -> 0..MaxEnables]
  /\ fallback \in [Libs -> {"implicit", "active", "off"}]
  /\ config \in [Libs -> {"none", "mac", "active"}]
  /\ only \in [Libs -> BOOLEAN]
  /\ refs \in [Libs -> [Providers -> Int]]
  /\ poisoned \in BOOLEAN
  /\ handle \in [Handles -> Kinds \cup {NoProvider}]
  /\ pc \in Running \cup {Idle}
  /\ last \in Replies \cup {Nothing}

IndInv == Typed /\ Owns /\ Progress /\ Accounted

-----------------------------------------------------------------------------
(* No caller holds a provider of a library context it does not know.        *)
LEMMA NoProviderIsNone == NoProvider \notin Kinds
<1>1. ASSUME NoProvider \in Kinds PROVE FALSE
  <2>1. PICK l \in Libs, n \in Providers : NoProvider = [lib |-> l, name |-> n]
    BY <1>1 DEF Kinds
  <2>2. DOMAIN NoProvider = {"lib"} /\ DOMAIN [lib |-> l, name |-> n] = {"lib", "name"}
    BY DEF NoProvider
  <2>3. QED
    BY <2>1, <2>2
<1>2. QED
  BY <1>1

(* The initial states satisfy the types.                                    *)
LEMMA InitTyped == Init => Typed
<1> SUFFICES ASSUME Init PROVE Typed
  OBVIOUS
<1>1. poisoned \in BOOLEAN /\ fips \in [Contexts -> BOOLEAN] /\ only \in [Libs -> BOOLEAN]
  BY DEF Init
<1>2. QED
  BY <1>1, EnablesAssumption DEF Init, Typed, Libs, Providers, Idle, Nothing

(* What a running EnableFIPS becomes when it goes on or fails.              *)
LEMMA RunningOn ==
  ASSUME NEW q \in Running \cup {Idle}, q # Idle,
         NEW a \in {"load", "selfTest", "restrict", "undo", "free"}
  PROVE  /\ [q EXCEPT !.at = a] \in Running
         /\ [q EXCEPT !.at = a].at = a
         /\ [q EXCEPT !.at = a].on = q.on
         /\ [q EXCEPT !.at = a].fresh = q.fresh
         /\ [q EXCEPT !.at = a] # Idle
         /\ q \in Running
  BY DEF Running, Idle

(* A load, whether it works or not, keeps the library contexts' types.      *)
LEMMA LoadTyped ==
  ASSUME Typed, NEW l \in Libs, NEW p \in Providers, LoadWorks(l, p) \/ LoadFails(l, p)
  PROVE  /\ refs' \in [Libs -> [Providers -> Int]]
         /\ fallback' \in [Libs -> {"implicit", "active", "off"}]
         /\ poisoned' \in BOOLEAN
         /\ UNCHANGED <<config, only>>
<1>1. CASE LoadWorks(l, p)
  BY <1>1 DEF Typed, LoadWorks, Asked, AfterLoad
<1>2. CASE LoadFails(l, p)
  <2>1. poisoned' \in BOOLEAN
    BY <1>2 DEF LoadFails
  <2>2. PICK fb \in {"implicit", "active", "off"} : fallback' = [fallback EXCEPT ![l] = fb]
    BY <1>2 DEF Typed, LoadFails, Asked, AfterLoad
  <2>3. QED
    BY <1>2, <2>1, <2>2 DEF Typed, LoadFails
<1>3. QED
  BY <1>1, <1>2

(* Every step preserves the types.                                          *)
LEMMA TypedNext == Typed /\ Progress /\ [Next]_vars => Typed'
<1> USE EnablesAssumption, DefaultAssumption
<1> SUFFICES ASSUME Typed, Progress, [Next]_vars PROVE Typed'
  OBVIOUS
<1> USE DEF Typed, Libs, Providers, Reply, Ptr
<1>1. ASSUME NEW c \in Contexts, NewContext(c) PROVE Typed'
  BY <1>1 DEF NewContext, ossl, Replies, Answers
<1>2. ASSUME NEW c \in Contexts, CloseProvider(c) PROVE Typed'
  BY <1>2 DEF CloseProvider, ossl, Drop, Nothing, Running
<1>3. ASSUME NEW c \in Libs, NEW p \in Providers, NEW h \in Handles, LoadProvider(c, p, h)
      PROVE Typed'
  <2>1. Ptr(c) \in Libs /\ [lib |-> Ptr(c), name |-> p] \in Kinds
    BY <1>3 DEF Kinds
  <2>2. handle' \in [Handles -> Kinds \cup {NoProvider}]
    BY <1>3, <2>1 DEF LoadProvider
  <2>3. last' \in Replies
    BY <1>3 DEF LoadProvider, Replies, Answers
  <2>4. QED
    BY <1>3, <2>1, <2>2, <2>3, LoadTyped DEF LoadProvider
<1>4. ASSUME NEW h \in Handles, Unload(h) PROVE Typed'
  BY <1>4, NoProviderIsNone DEF Unload, Drop, Kinds, Replies, Answers
<1>5. ASSUME NEW c \in Libs, NEW kind \in {"mac", "active"}, LoadConfig(c, kind) PROVE Typed'
  BY <1>5 DEF LoadConfig, Replies, Answers
<1>6. ASSUME NEW c \in Libs, NEW f \in BOOLEAN, SetDefaultProperties(c, f) PROVE Typed'
  BY <1>6 DEF SetDefaultProperties, Replies, Answers
<1>7. ASSUME NEW c \in Libs, EnableRefused(c) PROVE Typed'
  BY <1>7 DEF EnableRefused, ossl, Replies, Answers
<1>8. ASSUME NEW c \in Contexts, NEW kind \in {"mac", "active"}, NEW fresh \in BOOLEAN,
             EnableBegin(c, kind, fresh)
      PROVE Typed'
  <2>1. last' \in Replies \cup {Nothing}
    BY <1>8 DEF EnableBegin, Replies, Answers
  <2>2. pc' \in Running \cup {Idle}
    <3>1. pc' \in {Idle, [at |-> "load", on |-> c, fresh |-> fresh],
                   [at |-> "undo", on |-> c, fresh |-> TRUE]}
      BY <1>8 DEF EnableBegin
    <3>2. /\ [at |-> "load", on |-> c, fresh |-> fresh] \in Running
          /\ [at |-> "undo", on |-> c, fresh |-> TRUE] \in Running
      BY DEF Running
    <3>3. QED
      BY <3>1, <3>2
  <2>3. ctx' \in [Contexts -> {"none", "open", "closed"}]
    BY <1>8 DEF EnableBegin
  <2>4. config' \in [Libs -> {"none", "mac", "active"}]
    BY <1>8 DEF EnableBegin
  <2>5. QED
    BY <1>8, <2>1, <2>2, <2>3, <2>4 DEF EnableBegin
<1>9. CASE EnableLoad
  <2>1. pc # Idle /\ pc.on \in Contexts /\ Ptr(pc.on) \in Libs
    BY <1>9 DEF EnableLoad, Running, Idle
  <2>2. pc' \in Running \cup {Idle}
    <3>1. pc' \in {Idle, [pc EXCEPT !.at = "selfTest"], [pc EXCEPT !.at = "undo"]}
      BY <1>9 DEF EnableLoad, Fail
    <3>2. /\ [pc EXCEPT !.at = "selfTest"] \in Running
          /\ [pc EXCEPT !.at = "undo"] \in Running
      BY <2>1, RunningOn
    <3>3. QED
      BY <3>1, <3>2
  <2>3. last' \in Replies \cup {Nothing}
    BY <1>9, <2>1 DEF EnableLoad, Fail, Replies, Answers
  <2>4. LoadWorks(Ptr(pc.on), "fips") \/ LoadFails(Ptr(pc.on), "fips")
    BY <1>9 DEF EnableLoad
  <2>5. UNCHANGED <<ctx, fips, enables, handle>>
    BY <1>9 DEF EnableLoad, Fail
  <2>6. QED
    BY <2>1, <2>2, <2>3, <2>4, <2>5, LoadTyped
<1>10. CASE EnableSelfTest
  BY <1>10 DEF EnableSelfTest, Drop, Fail, ossl, Running, Idle, Nothing, Replies, Answers
<1>11. CASE EnableRestrict
  <2>1. pc # Idle /\ pc.on \in Contexts /\ Ptr(pc.on) \in Libs
    BY <1>11 DEF EnableRestrict, Running, Idle
  <2>2. pc' \in Running \cup {Idle}
    <3> DEFINE undo == [pc EXCEPT !.at = "undo"]
    <3>1. pc' = Idle \/ pc' = undo
      BY <1>11 DEF EnableRestrict, Fail
    <3>2. undo \in Running
      BY <2>1, RunningOn
    <3> HIDE DEF undo
    <3>3. QED
      BY <3>1, <3>2
  <2>3. last' \in Replies \cup {Nothing}
    BY <1>11, <2>1 DEF EnableRestrict, Fail, Replies, Answers
  <2>4. enables' \in [Contexts -> 0..MaxEnables]
    BY <1>11, <2>1 DEF EnableRestrict, Fail, Progress
  <2>5. only' \in [Libs -> BOOLEAN] /\ fips' \in [Contexts -> BOOLEAN]
    BY <1>11, <2>1 DEF EnableRestrict, Fail, Drop
  <2>6. QED
    BY <1>11, <2>1, <2>2, <2>3, <2>4, <2>5 DEF EnableRestrict, Drop, Fail
<1>12. CASE CloseFree
  BY <1>12 DEF CloseFree, ossl, Running, Idle, Replies, Answers
<1>13. CASE UNCHANGED vars
  BY <1>13 DEF vars
<1>14. QED
  BY <1>1, <1>2, <1>3, <1>4, <1>5, <1>6, <1>7, <1>8, <1>9, <1>10, <1>11, <1>12, <1>13, SMTT(20) DEF Next

(* Every step preserves what contexts own and what a running EnableFIPS     *)
(* knows.                                                                   *)
LEMMA ProgressNext ==
  Typed /\ Owns /\ Progress /\ [Next]_vars => Owns' /\ Progress'
<1> USE EnablesAssumption, DefaultAssumption
<1> SUFFICES ASSUME Typed, Owns, Progress, [Next]_vars PROVE Owns' /\ Progress'
  OBVIOUS
<1>0. pc # Idle => pc \in Running
  BY DEF Typed
<1> USE <1>0 DEF Owns, Progress, Libs, Ptr
<1>1. ASSUME NEW c \in Contexts, NewContext(c) PROVE Owns' /\ Progress'
  BY <1>1 DEF NewContext, ossl, Typed, Running
<1>2. ASSUME NEW c \in Contexts, CloseProvider(c) PROVE Owns' /\ Progress'
  <2>1. /\ pc' = [at |-> "free", on |-> c, fresh |-> FALSE]
        /\ fips' = [fips EXCEPT ![c] = FALSE] /\ UNCHANGED <<ctx, enables>>
        /\ \A d \in Contexts : pc # [at |-> "free", on |-> d, fresh |-> FALSE]
    BY <1>2 DEF CloseProvider, idle, Idle
  <2>2. pc'.at = "free" /\ pc'.on = c /\ pc'.fresh = FALSE
    BY <2>1
  <2>3. QED
    BY <2>1, <2>2 DEF Typed
<1>3. ASSUME UNCHANGED <<ctx, fips, enables, config, pc>> PROVE Owns' /\ Progress'
  BY <1>3
<1>4. ASSUME NEW c \in Libs, NEW kind \in {"mac", "active"}, LoadConfig(c, kind)
      PROVE Owns' /\ Progress'
  <2>1. \A l \in Libs : config[l] # "none" => config'[l] # "none"
    BY <1>4 DEF LoadConfig, Typed
  <2>2. QED
    BY <1>4, <2>1 DEF LoadConfig, Running
<1>5. ASSUME NEW c \in Contexts, NEW kind \in {"mac", "active"}, NEW fresh \in BOOLEAN,
             EnableBegin(c, kind, fresh)
      PROVE Owns' /\ Progress'
  <2>1. /\ pc = Idle
        /\ ~fresh => ctx[c] = "open" /\ enables[c] < MaxEnables
        /\ fresh => ctx[c] = "none"
        /\ ctx' = IF fresh THEN [ctx EXCEPT ![c] = "open"] ELSE ctx
        /\ UNCHANGED <<fips, enables>>
    BY <1>5 DEF EnableBegin, idle
  <2>2. \/ pc' = Idle
        \/ /\ pc' = [at |-> "load", on |-> c, fresh |-> fresh]
           /\ config' = [config EXCEPT ![c] =
                           IF "active" \in {config[c], kind} THEN "active" ELSE kind]
        \/ fresh /\ pc' = [at |-> "undo", on |-> c, fresh |-> TRUE]
    BY <1>5 DEF EnableBegin
  <2>3. \A d \in Contexts : pc # [at |-> "free", on |-> d, fresh |-> FALSE]
    BY <2>1 DEF Idle
  <2>4. Owns'
    BY <2>1, <2>3 DEF Typed
  <2>5. Progress'
    BY <2>1, <2>2 DEF Typed
  <2>6. QED
    BY <2>4, <2>5
<1>6. ASSUME pc.at \in {"load", "selfTest", "restrict"}, UNCHANGED <<ctx, config>>,
             \/ pc' = Idle
             \/ pc.fresh /\ pc' = [pc EXCEPT !.at = "undo"]
             \/ pc' = [pc EXCEPT !.at = "selfTest"]
             \/ pc' = [pc EXCEPT !.at = "restrict"],
             \/ UNCHANGED <<fips, enables>>
             \/ /\ fips' = [fips EXCEPT ![pc.on] = TRUE]
                /\ enables' = [enables EXCEPT ![pc.on] = @ + 1]
                /\ pc' = Idle
      PROVE Owns' /\ Progress'
  <2>1. pc # Idle /\ pc \in Running /\ pc.on \in Contexts
    BY <1>6 DEF Idle, Running
  <2>2. \A d \in Contexts : pc # [at |-> "free", on |-> d, fresh |-> FALSE]
    BY <1>6
  <2>3. Owns'
    BY <1>6, <2>1, <2>2 DEF Typed
  <2>4. Progress'
    <3>1. CASE pc' = Idle
      BY <3>1
    <3>2. ASSUME NEW a \in {"undo", "selfTest", "restrict"}, a = "undo" => pc.fresh,
                 pc' = [pc EXCEPT !.at = a], UNCHANGED <<fips, enables>>
          PROVE Progress'
      <4>1. pc'.at = a /\ pc'.on = pc.on /\ pc'.fresh = pc.fresh
        BY <2>1, <3>2, RunningOn
      <4>2. QED
        BY <1>6, <2>1, <3>2, <4>1
    <3>3. pc' # Idle => UNCHANGED <<fips, enables>>
      BY <1>6
    <3>4. QED
      BY <1>6, <3>1, <3>2, <3>3
  <2>5. QED
    BY <2>3, <2>4
<1>7. CASE CloseFree
  <2>1. pc # Idle /\ pc.on \in Contexts /\ pc.at = "free" /\ ~fips[pc.on]
    BY <1>7 DEF CloseFree, Idle, Running
  <2>2. \A d \in Contexts : pc = [at |-> "free", on |-> d, fresh |-> FALSE] => d = pc.on
    OBVIOUS
  <2>3. QED
    BY <1>7, <2>1, <2>2 DEF CloseFree, Typed
<1>8. ASSUME EnableLoad \/ EnableSelfTest \/ EnableRestrict PROVE Owns' /\ Progress'
  BY <1>6, <1>8
  DEF EnableLoad, EnableSelfTest, EnableRestrict, LoadWorks, LoadFails, Drop, Fail, ossl
<1>9. QED
  <2>1. ASSUME \/ \E c \in Libs, p \in Providers, h \in Handles : LoadProvider(c, p, h)
               \/ \E h \in Handles : Unload(h)
               \/ \E c \in Libs, fipsYes \in BOOLEAN : SetDefaultProperties(c, fipsYes)
               \/ \E c \in Libs : EnableRefused(c)
               \/ UNCHANGED vars
        PROVE UNCHANGED <<ctx, fips, enables, config, pc>>
    BY <2>1 DEF LoadProvider, LoadWorks, LoadFails, Unload, Drop, SetDefaultProperties,
       EnableRefused, ossl, vars
  <2>2. QED
    BY <1>1, <1>2, <1>3, <1>4, <1>5, <1>7, <1>8, <2>1 DEF Next

(* Callers hold finitely many references.                                   *)
LEMMA CallersNat == \A l, p : Callers(l, p) \in Nat
<1>1. \A v : IsFiniteSet(Marked(handle, v))
  BY HandlesAssumption, FS_Subset DEF Marked
<1>2. QED
  BY <1>1, FS_CardinalityType DEF Callers

(* A caller's load adds one reference to what it loaded; an unload takes it *)
(* away.                                                                    *)
LEMMA MarkedStep ==
  ASSUME handle \in [Handles -> Kinds \cup {NoProvider}], NEW h \in Handles,
         NEW w \in Kinds \cup {NoProvider}, w # handle[h],
         handle' = [handle EXCEPT ![h] = w], NEW v
  PROVE  Cardinality(Marked(handle', v)) =
           IF w = v THEN Cardinality(Marked(handle, v)) + 1
           ELSE IF handle[h] = v THEN Cardinality(Marked(handle, v)) - 1
           ELSE Cardinality(Marked(handle, v))
<1> DEFINE S == Marked(handle, v)
           T == Marked(handle', v)
<1>1. IsFiniteSet(S)
  BY HandlesAssumption, FS_Subset DEF Marked
<1>2. CASE w = v
  <2>1. T = S \cup {h} /\ h \notin S
    BY <1>2 DEF Marked
  <2>2. Cardinality(T) = Cardinality(S) + 1
    BY <1>1, <2>1, FS_AddElement
  <2>3. QED
    BY <1>2, <2>2
<1>3. CASE w # v
  <2>1. T = S \ {h} /\ (h \in S <=> handle[h] = v)
    BY <1>3 DEF Marked
  <2>2. Cardinality(T) = IF h \in S THEN Cardinality(S) - 1 ELSE Cardinality(S)
    BY <1>1, <2>1, FS_RemoveElement
  <2>3. QED
    BY <1>3, <2>1, <2>2
<1>4. QED
  BY <1>2, <1>3

(* The same of one provider of one library context.                         *)
LEMMA CallersStep ==
  ASSUME handle \in [Handles -> Kinds \cup {NoProvider}], NEW h \in Handles,
         NEW w \in Kinds \cup {NoProvider}, w # handle[h],
         handle' = [handle EXCEPT ![h] = w]
  PROVE  \A l \in Libs, p \in Providers :
           /\ w = [lib |-> l, name |-> p] => Callers(l, p)' = Callers(l, p) + 1
           /\ handle[h] = [lib |-> l, name |-> p] => Callers(l, p)' = Callers(l, p) - 1
           /\ w # [lib |-> l, name |-> p] /\ handle[h] # [lib |-> l, name |-> p]
                => Callers(l, p)' = Callers(l, p)
<1> TAKE l \in Libs, p \in Providers
<1> DEFINE v == [lib |-> l, name |-> p]
<1>1. Callers(l, p) = Cardinality(Marked(handle, v)) /\ Callers(l, p)' = Cardinality(Marked(handle', v))
  BY DEF Callers
<1> HIDE DEF v
<1>2. Cardinality(Marked(handle', v)) =
        IF w = v THEN Cardinality(Marked(handle, v)) + 1
        ELSE IF handle[h] = v THEN Cardinality(Marked(handle, v)) - 1
        ELSE Cardinality(Marked(handle, v))
  BY MarkedStep, ZenonT(40)
<1>3. QED
  BY <1>1, <1>2 DEF v

(* The running EnableFIPS holds its reference in its own library context.   *)
LEMMA HoldingOn ==
  ASSUME Typed, Progress, NEW l \in Libs
  PROVE  Holding(l) <=> pc.at \in {"selfTest", "restrict"} /\ pc.on = l
  BY DEF Typed, Progress, Holding, Ptr, Running, Idle

(* The same in the state after a step.                                      *)
LEMMA HoldingOnNext ==
  ASSUME Typed', Progress', NEW l \in Libs
  PROVE  Holding(l)' <=> pc'.at \in {"selfTest", "restrict"} /\ pc'.on = l
  BY DEF Typed, Progress, Holding, Ptr, Running, Idle

(* No reference is lost or released twice by any step: each has an owner,   *)
(* or was forgotten by a second EnableFIPS.                                 *)
LEMMA AccountedNext == IndInv /\ [Next]_vars => Accounted'
<1> SUFFICES ASSUME IndInv, [Next]_vars PROVE Accounted'
  OBVIOUS
<1> USE DEF IndInv
<1>1. Typed' /\ Owns' /\ Progress'
  BY TypedNext, ProgressNext
<1>2. \A l \in Libs : {Kept(l), Held(l), Forgotten(l), Kept(l)', Held(l)', Forgotten(l)'} \subseteq Int
  BY <1>1, EnablesAssumption DEF Typed, Kept, Held, Forgotten
<1>3. \A l \in Libs :
        /\ Held(l) = IF pc.at \in {"selfTest", "restrict"} /\ pc.on = l THEN 1 ELSE 0
        /\ Held(l)' = IF pc'.at \in {"selfTest", "restrict"} /\ pc'.on = l THEN 1 ELSE 0
  BY <1>1, HoldingOn, HoldingOnNext DEF Held
<1>4. \A l \in Libs, p \in Providers : Callers(l, p) \in Nat
  BY CallersNat
<1> DEFINE Own(l) == Kept(l) + Held(l) + Forgotten(l)
<1>5. ASSUME UNCHANGED <<refs, handle>>, \A l \in Libs : Own(l)' = Own(l)
      PROVE Accounted'
  BY <1>5 DEF Accounted, Callers
<1>6. ASSUME UNCHANGED handle, NEW c \in Contexts, NEW d \in {-1, 1},
             refs' = [refs EXCEPT ![c]["fips"] = @ + d],
             \A l \in Libs : Own(l)' = IF l = c THEN Own(l) + d ELSE Own(l)
      PROVE Accounted'
  <2> SUFFICES ASSUME NEW l \in Libs, NEW p \in Providers
               PROVE refs'[l][p] = Callers(l, p) + IF p = "fips" THEN Own(l)' ELSE 0
    BY <1>6 DEF Accounted, Callers
  <2>1. /\ refs[l][p] = Callers(l, p) + IF p = "fips" THEN Own(l) ELSE 0
        /\ refs'[l][p] = IF l = c /\ p = "fips" THEN refs[l][p] + d ELSE refs[l][p]
    BY <1>6 DEF Accounted, Typed, Libs, Providers
  <2>2. Own(l) \in Int /\ Callers(l, p) \in Int
    BY <1>2, <1>4
  <2> HIDE DEF Own
  <2>3. QED
    BY <1>6, <2>1, <2>2
<1>7. ASSUME UNCHANGED <<fips, enables, pc>> PROVE \A l \in Libs : Own(l)' = Own(l)
  BY <1>3, <1>7 DEF Kept, Forgotten
<1>8. ASSUME UNCHANGED <<fips, enables, pc>>, NEW m \in Libs, NEW n \in Providers,
             NEW d \in {-1, 1}, refs' = [refs EXCEPT ![m][n] = @ + d],
             \A l \in Libs, p \in Providers :
               Callers(l, p)' = IF l = m /\ p = n THEN Callers(l, p) + d ELSE Callers(l, p)
      PROVE Accounted'
  <2> SUFFICES ASSUME NEW l \in Libs, NEW p \in Providers
               PROVE refs'[l][p] = Callers(l, p)' + IF p = "fips" THEN Own(l)' ELSE 0
    BY DEF Accounted
  <2>1. /\ refs[l][p] = Callers(l, p) + IF p = "fips" THEN Own(l) ELSE 0
        /\ refs'[l][p] = IF l = m /\ p = n THEN refs[l][p] + d ELSE refs[l][p]
    BY <1>8 DEF Accounted, Typed
  <2>2. Own(l) \in Int /\ Callers(l, p) \in Int /\ Own(l)' = Own(l)
    BY <1>2, <1>4, <1>7, <1>8
  <2> HIDE DEF Own
  <2>3. QED
    BY <1>8, <2>1, <2>2
<1>9. ASSUME NEW c \in Libs, NEW p \in Providers, NEW h \in Handles, LoadProvider(c, p, h)
      PROVE Accounted'
  <2> DEFINE v == [lib |-> Ptr(c), name |-> p]
  <2>1. UNCHANGED <<fips, enables, pc>> /\ Ptr(c) \in Libs
    BY <1>9 DEF LoadProvider, Ptr, Libs
  <2>2. CASE LoadFails(Ptr(c), p) /\ UNCHANGED handle
    BY <1>5, <1>7, <2>1, <2>2 DEF LoadFails
  <2>3. CASE LoadWorks(Ptr(c), p) /\ handle' = [handle EXCEPT ![h] = v]
    <3>1. handle[h] # v /\ v \in Kinds
      BY <1>9, <2>1, NoProviderIsNone DEF LoadProvider, Kinds
    <3>2. ASSUME NEW l \in Libs, NEW q \in Providers
          PROVE Callers(l, q)' = IF l = Ptr(c) /\ q = p THEN Callers(l, q) + 1 ELSE Callers(l, q)
      <4>1. v = [lib |-> l, name |-> q] <=> l = Ptr(c) /\ q = p
        OBVIOUS
      <4>2. handle[h] # [lib |-> l, name |-> q]
        BY <1>9, NoProviderIsNone DEF LoadProvider, Kinds
      <4>3. handle \in [Handles -> Kinds \cup {NoProvider}]
        BY DEF Typed
      <4> HIDE DEF v
      <4>4. QED
        BY <2>3, <3>1, <4>1, <4>2, <4>3, CallersStep
    <3>3. QED
      BY <1>8, <2>1, <2>3, <3>2 DEF LoadWorks
  <2>4. QED
    BY <1>9, <2>2, <2>3 DEF LoadProvider
<1>10. ASSUME NEW h \in Handles, Unload(h) PROVE Accounted'
  <2>1. PICK m \in Libs, n \in Providers : handle[h] = [lib |-> m, name |-> n]
    BY <1>10 DEF Unload, Typed, Kinds
  <2>2. /\ UNCHANGED <<fips, enables, pc>> /\ handle' = [handle EXCEPT ![h] = NoProvider]
        /\ refs' = [refs EXCEPT ![m][n] = @ + (-1)]
    <3>1. handle[h].lib = m /\ handle[h].name = n
      BY <2>1
    <3>2. Drop(m, n)
      BY <1>10, <3>1 DEF Unload
    <3>3. QED
      BY <1>10, <3>2 DEF Unload, Drop, Typed
  <2>3. ASSUME NEW l \in Libs, NEW q \in Providers
        PROVE Callers(l, q)' = IF l = m /\ q = n THEN Callers(l, q) + (-1) ELSE Callers(l, q)
    <3>1. handle[h] = [lib |-> l, name |-> q] <=> l = m /\ q = n
      BY <2>1
    <3>2. NoProvider # [lib |-> l, name |-> q] /\ NoProvider # handle[h]
      BY <2>1, NoProviderIsNone DEF Kinds
    <3>3. Callers(l, q) \in Nat
      BY <1>4
    <3>4. handle \in [Handles -> Kinds \cup {NoProvider}]
      BY DEF Typed
    <3>5. l = m /\ q = n => Callers(l, q)' = Callers(l, q) - 1
      BY <2>2, <3>1, <3>2, <3>4, CallersStep
    <3>6. ~(l = m /\ q = n) => Callers(l, q)' = Callers(l, q)
      BY <2>2, <3>1, <3>2, <3>4, CallersStep
    <3>7. QED
      BY <3>3, <3>5, <3>6
  <2>4. QED
    BY <1>8, <2>2, <2>3
<1>11. ASSUME NEW c \in Contexts, NEW kind \in {"mac", "active"}, NEW fresh \in BOOLEAN,
              EnableBegin(c, kind, fresh)
       PROVE Accounted'
  <2>1. pc.at = "idle" /\ pc'.at \in {"load", "undo", "idle"}
    BY <1>11 DEF EnableBegin, idle, Idle
  <2>2. QED
    BY <1>3, <1>5, <1>11, <2>1 DEF EnableBegin, Kept, Forgotten
<1>12. CASE EnableLoad
  <2>1. /\ pc # Idle /\ pc \in Running /\ pc.at = "load" /\ pc.on \in Contexts
        /\ Ptr(pc.on) = pc.on /\ UNCHANGED <<handle, fips, enables>>
    BY <1>12 DEF EnableLoad, Fail, Typed, Running, Idle, Progress, Ptr
  <2>2. CASE LoadWorks(Ptr(pc.on), "fips") /\ pc' = [pc EXCEPT !.at = "selfTest"]
    <3>1. pc'.at = "selfTest" /\ pc'.on = pc.on
      BY <2>1, <2>2, RunningOn
    <3>2. \A l \in Libs : Own(l)' = IF l = pc.on THEN Own(l) + 1 ELSE Own(l)
      BY <1>2, <1>3, <2>1, <3>1 DEF Kept, Forgotten
    <3>3. QED
      BY <1>6, <2>1, <2>2, <3>2 DEF LoadWorks
  <2>3. CASE LoadFails(Ptr(pc.on), "fips") /\ Fail(pc.on)
    <3>1. pc'.at \notin {"selfTest", "restrict"}
      BY <2>1, <2>3, RunningOn DEF Fail, Idle
    <3>2. QED
      BY <1>3, <1>5, <2>1, <2>3, <3>1 DEF LoadFails, Kept, Forgotten
  <2>4. QED
    BY <1>12, <2>2, <2>3 DEF EnableLoad
<1>13. ASSUME pc.at \in {"selfTest", "restrict"}, Drop(Ptr(pc.on), "fips"), Fail(pc.on)
       PROVE Accounted'
  <2>1. /\ pc # Idle /\ pc \in Running /\ pc.on \in Contexts
        /\ Ptr(pc.on) = pc.on /\ UNCHANGED <<handle, fips, enables>>
    BY <1>13 DEF Fail, Typed, Running, Idle, Progress, Ptr
  <2>2. pc'.at \notin {"selfTest", "restrict"}
    BY <1>13, <2>1, RunningOn DEF Fail, Idle
  <2>3. \A l \in Libs : Own(l)' = IF l = pc.on THEN Own(l) - 1 ELSE Own(l)
    BY <1>2, <1>3, <1>13, <2>1, <2>2 DEF Kept, Forgotten
  <2>4. refs' = [refs EXCEPT ![pc.on]["fips"] = @ + (-1)]
    BY <1>13, <2>1 DEF Drop, Typed, Libs, Providers
  <2>5. QED
    BY <1>6, <2>1, <2>3, <2>4
<1>14. CASE EnableSelfTest
  <2>1. CASE pc' = [pc EXCEPT !.at = "restrict"] /\ UNCHANGED <<fips, enables, ossl, handle>>
    <3>1. pc # Idle /\ pc \in Running /\ pc.at = "selfTest"
      BY <1>14 DEF EnableSelfTest, Typed, Idle
    <3>2. pc'.at = "restrict" /\ pc'.on = pc.on
      BY <2>1, <3>1, RunningOn
    <3>3. QED
      BY <1>3, <1>5, <2>1, <3>1, <3>2 DEF ossl, Kept, Forgotten
  <2>2. QED
    BY <1>13, <1>14, <2>1 DEF EnableSelfTest
<1>15. CASE EnableRestrict
  <2>1. CASE /\ fips' = [fips EXCEPT ![pc.on] = TRUE]
             /\ enables' = [enables EXCEPT ![pc.on] = @ + 1]
             /\ pc' = Idle /\ UNCHANGED <<refs, handle>>
    <3>1. pc # Idle /\ pc \in Running /\ pc.at = "restrict" /\ pc.on \in Contexts
      BY <1>15 DEF EnableRestrict, Typed, Running, Idle
    <3>2. pc'.at = "idle" /\ ctx[pc.on] = "open"
      BY <2>1, <3>1 DEF Progress, Idle
    <3>3. fips[pc.on] <=> enables[pc.on] > 0
      BY <3>1, <3>2 DEF Owns, Typed
    <3>4. \A l \in Libs : Own(l)' = Own(l)
      BY <1>2, <1>3, <2>1, <3>1, <3>2, <3>3 DEF Typed, Kept, Forgotten
    <3>5. QED
      BY <1>5, <2>1, <3>4
  <2>2. QED
    BY <1>13, <1>15, <2>1 DEF EnableRestrict
<1>16. ASSUME NEW c \in Contexts, CloseProvider(c) PROVE Accounted'
  <2>1. /\ pc.at \notin {"selfTest", "restrict"} /\ pc'.at = "free"
        /\ UNCHANGED <<enables, handle>> /\ fips' = [fips EXCEPT ![c] = FALSE]
    BY <1>16 DEF CloseProvider, idle, Idle
  <2>2. CASE fips[c]
    <3>1. \A l \in Libs : Own(l)' = IF l = c THEN Own(l) - 1 ELSE Own(l)
      BY <1>2, <1>3, <2>1, <2>2 DEF Typed, Kept, Forgotten
    <3>2. refs' = [refs EXCEPT ![c]["fips"] = @ + (-1)]
      BY <1>16, <2>2 DEF CloseProvider, Drop, Typed, Libs, Providers
    <3>3. QED
      BY <1>6, <2>1, <3>1, <3>2
  <2>3. CASE ~fips[c]
    <3>1. \A l \in Libs : Own(l)' = Own(l)
      BY <1>3, <2>1, <2>3 DEF Typed, Kept, Forgotten
    <3>2. UNCHANGED refs
      BY <1>16, <2>3 DEF CloseProvider, ossl
    <3>3. QED
      BY <1>5, <2>1, <3>1, <3>2
  <2>4. QED
    BY <2>2, <2>3
<1>17. CASE CloseFree
  <2>1. pc.at = "free" /\ pc'.at = "idle"
    BY <1>17 DEF CloseFree, Idle
  <2>2. QED
    BY <1>3, <1>5, <1>17, <2>1 DEF CloseFree, ossl, Kept, Forgotten
<1>18. ASSUME \/ \E c \in Contexts : NewContext(c)
              \/ \E c \in Libs, kind \in {"mac", "active"} : LoadConfig(c, kind)
              \/ \E c \in Libs, fipsYes \in BOOLEAN : SetDefaultProperties(c, fipsYes)
              \/ \E c \in Libs : EnableRefused(c)
              \/ UNCHANGED vars
       PROVE UNCHANGED <<refs, handle, fips, enables, pc>>
  BY <1>18 DEF NewContext, LoadConfig, SetDefaultProperties, EnableRefused, ossl, vars
<1>19. QED
  BY <1>5, <1>7, <1>9, <1>10, <1>11, <1>12, <1>14, <1>15, <1>16, <1>17, <1>18 DEF Next

-----------------------------------------------------------------------------
(* The theorems.                                                            *)

(* The initial states satisfy the invariant.                                *)
LEMMA InitIndInv == Init => IndInv
<1> SUFFICES ASSUME Init PROVE IndInv
  OBVIOUS
<1>1. Typed
  BY InitTyped
<1>2. Owns /\ Progress
  BY DEF Init, Owns, Progress
<1>3. ASSUME NEW l \in Libs, NEW p \in Providers
      PROVE refs[l][p] = Callers(l, p)
                       + IF p = "fips" THEN Kept(l) + Held(l) + Forgotten(l) ELSE 0
  <2>1. Callers(l, p) = 0
    <3>1. NoProvider # [lib |-> l, name |-> p]
      BY NoProviderIsNone DEF Kinds
    <3>2. Marked(handle, [lib |-> l, name |-> p]) = {}
      BY <3>1 DEF Init, Marked
    <3>3. QED
      BY <3>2, FS_EmptySet DEF Callers
  <2>2. Kept(l) = 0 /\ Held(l) = 0 /\ Forgotten(l) = 0
    BY DEF Init, Kept, Held, Forgotten, Holding, Idle
  <2>3. QED
    BY <2>1, <2>2 DEF Init
<1>4. QED
  BY <1>1, <1>2, <1>3 DEF IndInv, Accounted

(* The invariant holds in every reachable state.                            *)
THEOREM Invariance == Spec => []IndInv
<1>1. IndInv /\ [Next]_vars => IndInv'
  BY TypedNext, ProgressNext, AccountedNext DEF IndInv
<1>2. QED
  BY InitIndInv, <1>1, PTL DEF Spec

(* Who owns the references of a library context, in the terms of LibContext.*)
LEMMA OwnersCount ==
  ASSUME NEW l \in Libs, NEW p \in Providers
  PROVE  /\ Count({h \in Handles : handle[h] = [lib |-> l, name |-> p]}) = Callers(l, p)
         /\ Count({c \in Contexts : p = "fips" /\ fips[c] /\ c = l})
              = IF p = "fips" THEN Kept(l) ELSE 0
         /\ Count({x \in {l} : p = "fips" /\ Holding(x)})
              = IF p = "fips" THEN Held(l) ELSE 0
<1>1. Count({h \in Handles : handle[h] = [lib |-> l, name |-> p]}) = Callers(l, p)
  BY DEF Count, Callers, Marked
<1>2. Count({c \in Contexts : p = "fips" /\ fips[c] /\ c = l}) = IF p = "fips" THEN Kept(l) ELSE 0
  <2> DEFINE S == {c \in Contexts : p = "fips" /\ fips[c] /\ c = l}
  <2>1. CASE p = "fips" /\ l \in Contexts /\ fips[l]
    <3>1. S = {l}
      BY <2>1
    <3>2. QED
      BY <2>1, <3>1, FS_Singleton DEF Count, Kept
  <2>2. CASE ~(p = "fips" /\ l \in Contexts /\ fips[l])
    <3>1. S = {}
      BY <2>2
    <3>2. QED
      BY <2>2, <3>1, FS_EmptySet DEF Count, Kept
  <2>3. QED
    BY <2>1, <2>2
<1>3. Count({x \in {l} : p = "fips" /\ Holding(x)}) = IF p = "fips" THEN Held(l) ELSE 0
  <2> DEFINE S == {x \in {l} : p = "fips" /\ Holding(x)}
  <2>1. CASE p = "fips" /\ Holding(l)
    <3>1. S = {l}
      BY <2>1
    <3>2. QED
      BY <2>1, <3>1, FS_Singleton DEF Count, Held
  <2>2. CASE ~(p = "fips" /\ Holding(l))
    <3>1. S = {}
      BY <2>2
    <3>2. QED
      BY <2>2, <3>1, FS_EmptySet DEF Count, Held
  <2>3. QED
    BY <2>1, <2>2
<1>4. QED
  BY <1>1, <1>2, <1>3

(* Every reference has one owner, for any number of contexts and callers,   *)
(* as long as EnableFIPS succeeds at most once on a context; how many are   *)
(* forgotten otherwise, Accounted says for any number (libctx.go:29-32,     *)
(* fips.go:83-101).                                                         *)
THEOREM ReferencesHaveOwners == MaxEnables = 1 => (Spec => []ReferencesBalance)
<1> SUFFICES ASSUME MaxEnables = 1 PROVE Spec => []ReferencesBalance
  OBVIOUS
<1>1. ASSUME IndInv PROVE ReferencesBalance
  <2> SUFFICES ASSUME NEW l \in Libs, NEW p \in Providers
               PROVE refs[l][p] =
                         Count({h \in Handles : handle[h] = [lib |-> l, name |-> p]})
                       + Count({c \in Contexts : p = "fips" /\ fips[c] /\ c = l})
                       + Count({x \in {l} : p = "fips" /\ Holding(x)})
    BY DEF ReferencesBalance
  <2>1. Forgotten(l) = 0 /\ Kept(l) \in Int /\ Held(l) \in Int
    BY <1>1 DEF IndInv, Typed, Forgotten, Kept, Held
  <2>2. Callers(l, p) \in Int
    BY CallersNat
  <2>3. refs[l][p] = Callers(l, p)
                   + IF p = "fips" THEN Kept(l) + Held(l) + Forgotten(l) ELSE 0
    BY <1>1 DEF IndInv, Accounted
  <2>4. QED
    BY <2>1, <2>2, <2>3, OwnersCount
<1>2. QED
  BY <1>1, Invariance, PTL

(* Close releases the FIPS reference of a context on which EnableFIPS has    *)
(* succeeded once, so that none is left but those its callers hold          *)
(* (fips.go:83-101); the run enable_twice shows one that is left where it   *)
(* has succeeded twice.                                                     *)
THEOREM FIPSIsReleased == MaxEnables = 1 => (Spec => []FIPSReferenceReleased)
<1> SUFFICES ASSUME MaxEnables = 1 PROVE Spec => []FIPSReferenceReleased
  OBVIOUS
<1>1. ASSUME IndInv, NEW c \in Contexts, ctx[c] = "closed",
             \A h \in Handles : handle[h] # [lib |-> c, name |-> "fips"]
      PROVE  refs[c]["fips"] = 0
  <2>1. c \in Libs /\ "fips" \in Providers
    BY DEF Libs, Providers
  <2>2. Kept(c) = 0
    BY <1>1 DEF IndInv, Owns, Kept
  <2>3. Held(c) = 0
    <3>1. ~Holding(c)
      <4> SUFFICES ASSUME Holding(c) PROVE FALSE
        OBVIOUS
      <4>1. pc.at \in {"selfTest", "restrict"} /\ pc.on = c
        BY DefaultAssumption DEF Holding, Ptr
      <4>2. Idle.at = "idle"
        BY DEF Idle
      <4>3. pc # Idle
        BY <4>1, <4>2
      <4>4. QED
        BY <1>1, <4>1, <4>3 DEF IndInv, Progress
    <3>2. QED
      BY <3>1 DEF Held
  <2>4. Forgotten(c) = 0
    BY <1>1 DEF IndInv, Typed, Forgotten
  <2>5. Callers(c, "fips") = 0
    <3>1. Marked(handle, [lib |-> c, name |-> "fips"]) = {}
      BY <1>1 DEF Marked
    <3>2. QED
      BY <3>1, FS_EmptySet DEF Callers
  <2>6. refs[c]["fips"] = Callers(c, "fips") + (Kept(c) + Held(c) + Forgotten(c))
    BY <1>1, <2>1 DEF IndInv, Accounted
  <2>7. QED
    BY <2>2, <2>3, <2>4, <2>5, <2>6
<1>2. IndInv => FIPSReferenceReleased
  BY <1>1 DEF FIPSReferenceReleased
<1>3. QED
  BY <1>2, Invariance, PTL

(* The types, and with them the number of references there can be.          *)
THEOREM TypesHold == Spec => []TypeOK
<1>1. ASSUME IndInv PROVE TypeOK
  <2>1. ASSUME NEW l \in Libs, NEW p \in Providers
        PROVE refs[l][p] \in 0..(Cardinality(Handles) + MaxEnables + 1)
    <3>1. Callers(l, p) \in Nat /\ Cardinality(Handles) \in Nat
      BY CallersNat, HandlesAssumption, FS_CardinalityType
    <3>2. Callers(l, p) <= Cardinality(Handles)
      BY HandlesAssumption, FS_Subset DEF Callers, Marked
    <3>3. /\ Kept(l) \in 0..1 /\ Held(l) \in 0..1 /\ Forgotten(l) \in 0..(MaxEnables - 1)
      BY <1>1, EnablesAssumption DEF IndInv, Typed, Kept, Held, Forgotten
    <3>4. refs[l][p] = Callers(l, p)
                     + IF p = "fips" THEN Kept(l) + Held(l) + Forgotten(l) ELSE 0
      BY <1>1 DEF IndInv, Accounted
    <3>5. QED
      BY <3>1, <3>2, <3>3, <3>4, EnablesAssumption
  <2>2. refs \in [Libs -> [Providers -> 0..(Cardinality(Handles) + MaxEnables + 1)]]
    BY <1>1, <2>1 DEF IndInv, Typed
  <2>3. QED
    BY <1>1, <2>2 DEF IndInv, Typed, TypeOK, Kinds
<1>2. QED
  BY <1>1, Invariance, PTL

(* A context that answers IsFIPS has the module up, whatever callers load   *)
(* and unload and however often FIPS is enabled; the reference never        *)
(* outlives the library context (libctx.go:29-32, 95-96).                   *)
THEOREM FIPSIsUp == Spec => []FIPSStaysUp
<1>1. ASSUME IndInv, NEW c \in Contexts, fips[c]
      PROVE ctx[c] = "open" /\ refs[c]["fips"] > 0
  <2>1. Kept(c) = 1 /\ Held(c) \in Nat /\ Forgotten(c) \in Nat /\ Callers(c, "fips") \in Nat
    BY <1>1, CallersNat, EnablesAssumption DEF IndInv, Typed, Kept, Held, Forgotten, Libs
  <2>2. refs[c]["fips"] = Callers(c, "fips") + (Kept(c) + Held(c) + Forgotten(c))
    BY <1>1 DEF IndInv, Accounted, Libs, Providers
  <2>3. QED
    BY <1>1, <2>1, <2>2 DEF IndInv, Owns
<1>2. IndInv => FIPSStaysUp
  BY <1>1 DEF FIPSStaysUp, FipsUp
<1>3. QED
  BY <1>2, Invariance, PTL

(* A load that fails leaves what serves the default provider as it was,     *)
(* whether or not OpenSSL brought the fallback up to answer the question    *)
(* before it (provider.go:84-99).                                           *)
LEMMA LoadFailsNeutral ==
  ASSUME Typed, NEW l \in Libs, NEW p \in Providers, LoadFails(l, p), NEW k \in Libs
  PROVE  ServesDefault(k, fallback'[k]) <=> ServesDefault(k, fallback[k])
<1>1. PICK fb \in Asked(fallback[l]) :
        fallback' = [fallback EXCEPT ![l] =
          IF ServesDefault(l, fb) /\ ~ServesDefault(l, AfterLoad(fb)) THEN "active"
          ELSE AfterLoad(fb)]
  BY DEF LoadFails
<1>2. CASE k # l
  BY <1>1, <1>2 DEF Typed
<1>3. CASE k = l
  BY <1>1, <1>3 DEF Typed, Asked, AfterLoad, ServesDefault
<1>4. QED
  BY <1>2, <1>3

(* FailedLoadIsNeutral for every step.                                      *)
THEOREM FailedLoadsNeutral == Spec => FailedLoadIsNeutral
<1> DEFINE Neutral ==
      last'.op = "load" /\ last'.answer = "Error" =>
        \A l \in Libs : ServesDefault(l, fallback[l])' = ServesDefault(l, fallback[l])
<1>1. ASSUME IndInv, Next PROVE Neutral
  <2> SUFFICES ASSUME last'.op = "load", last'.answer = "Error", NEW k \in Libs
               PROVE ServesDefault(k, fallback[k])' = ServesDefault(k, fallback[k])
    OBVIOUS
  <2>1. ASSUME NEW l \in Libs, NEW p \in Providers, LoadFails(l, p)
        PROVE ServesDefault(k, fallback[k])' = ServesDefault(k, fallback[k])
    <3>1. ServesDefault(k, fallback[k])' <=> ServesDefault(k, fallback'[k])
      BY <2>1 DEF LoadFails, ServesDefault
    <3>2. ServesDefault(k, fallback'[k]) <=> ServesDefault(k, fallback[k])
      BY <1>1, <2>1, LoadFailsNeutral DEF IndInv
    <3>3. ServesDefault(k, fallback[k])' \in BOOLEAN /\ ServesDefault(k, fallback[k]) \in BOOLEAN
      BY DEF ServesDefault
    <3>4. QED
      BY <3>1, <3>2, <3>3
  <2>2. \E c \in Libs, p \in Providers, h \in Handles :
          LoadProvider(c, p, h) /\ last' = [op |-> "load", on |-> c, answer |-> "Error"]
    BY <1>1
    DEF Next, NewContext, CloseProvider, LoadProvider, Unload, LoadConfig, SetDefaultProperties,
        EnableRefused, EnableBegin, EnableLoad, EnableSelfTest, EnableRestrict, CloseFree,
        Fail, Reply, Nothing
  <2>3. QED
    BY <2>1, <2>2 DEF LoadProvider, Reply, Ptr, Libs
<1>2. IndInv /\ [Next]_vars => [Neutral]_vars
  BY <1>1
<1>3. QED
  BY <1>2, Invariance, PTL DEF Spec, FailedLoadIsNeutral

(* EnableFIPS loads the module only after a config, and only into the       *)
(* library context of its own Context (fips.go:83-101).                     *)
THEOREM EnableFIPSContained == Spec => EnableFIPSIsContained
<1> DEFINE Contained ==
      EnableLoad \/ EnableSelfTest \/ EnableRestrict =>
        /\ poisoned' = poisoned
        /\ only'[Default] = only[Default]
        /\ refs'[Default] = refs[Default]
<1>1. ASSUME IndInv, Next PROVE Contained
  <2> SUFFICES ASSUME EnableLoad \/ EnableSelfTest \/ EnableRestrict
               PROVE /\ poisoned' = poisoned
                     /\ only'[Default] = only[Default]
                     /\ refs'[Default] = refs[Default]
    OBVIOUS
  <2>1. pc # Idle /\ pc.on \in Contexts /\ Ptr(pc.on) = pc.on /\ pc.on # Default
    BY <1>1, DefaultAssumption
    DEF IndInv, Typed, Progress, EnableLoad, EnableSelfTest, EnableRestrict, Running, Idle, Ptr
  <2>2. pc.at = "load" => config[pc.on] # "none"
    BY <1>1, <2>1 DEF IndInv, Progress
  <2>3. Default \in Libs /\ pc.on \in Libs
    BY <2>1 DEF Libs
  <2>4. CASE EnableLoad
    BY <1>1, <2>1, <2>2, <2>3, <2>4 DEF IndInv, Typed, EnableLoad, LoadWorks, LoadFails
  <2>5. CASE EnableSelfTest
    BY <1>1, <2>1, <2>3, <2>5 DEF IndInv, Typed, EnableSelfTest, Drop, ossl
  <2>6. CASE EnableRestrict
    BY <1>1, <2>1, <2>3, <2>6 DEF IndInv, Typed, EnableRestrict, Drop
  <2>7. QED
    BY <2>4, <2>5, <2>6
<1>2. IndInv /\ [Next]_vars => [Contained]_vars
  BY <1>1
<1>3. QED
  BY <1>2, Invariance, PTL DEF Spec, EnableFIPSIsContained
=============================================================================

---------------------------- MODULE MessageProofs ----------------------------
(***************************************************************************)
(* Of the subjects of MCCalls: hashes and MACs (MessageStream), for every  *)
(* set of handles and messages of any length; and AEAD messages (AEADCall),*)
(* for every set of tag lengths and any number of calls.                   *)
(*                                                                         *)
(* DigestsComplete and Balanced are not inductive.  Holdings says what a   *)
(* constructor has allocated so far, and KeysKept that the context, the    *)
(* MAC's private copy and what the caller passed are one key.  What an     *)
(* AEAD call has told the EVP_CIPHER_CTX so far (Running) decides which    *)
(* C calls can still fail, and with it what every later failure means.     *)
(***************************************************************************)
EXTENDS MCCalls, SequenceTheorems, TLAPS

(* What has been allocated: what the open handles own and what the running  *)
(* constructor would free if it failed.                                     *)
Building(h) == IF pc # Idle /\ pc.h = h THEN Freed(pc.at, pc.kind) ELSE {}

Holdings ==
  /\ \A h \in Handles, x \in Objects : <<h, x>> \in live <=> x \in Owned(h) \cup Building(h)
  /\ pc # Idle => ~Built(pc.h)

(* A handle that is not built has no history.                               *)
Unused ==
  \A h \in Handles : ~Built(h) => offered[h] = <<>> /\ h \notin consumed

(* The context and Reset's copy have the key the MAC was built with.        *)
KeysKept ==
  \A h \in Handles :
    Built(h) /\ IsOpen(h) => handle[h].key = given[h] /\ handle[h].evp.key = given[h]

(* The last Sum was of a handle that is built.                              *)
SumOfBuilt == out # NoSum => Built(out.of)

StreamInv ==
  /\ TypeOK
  /\ Holdings
  /\ Unused
  /\ KeysKept
  /\ TracksMessage
  /\ SumOfBuilt
  /\ NilErrMeansComplete
  /\ OneShotHonest

-----------------------------------------------------------------------------
(* The empty message is one, and a message with room for a chunk grows by   *)
(* it, appended or concatenated.                                            *)
LEMMA EmptyMessage == <<>> \in Messages
<1>1. <<>> \in [1..0 -> Chunks] /\ 0 \in 0..MaxWrites
  BY BoundAssumption
<1>2. QED
  BY <1>1 DEF Messages

(* A message with room for one more chunk can be written to.                *)
LEMMA LongerMessage ==
  ASSUME NEW m \in Messages, NEW c \in Chunks, Len(m) < MaxWrites
  PROVE  Append(m, c) \in Messages /\ m \o <<c>> = Append(m, c)
<1>1. PICK n \in 0..MaxWrites : m \in [1..n -> Chunks]
  BY DEF Messages
<1>2. n \in Nat /\ m \in Seq(Chunks)
  BY <1>1, BoundAssumption
<1>3. Len(m) = n
  BY <1>1, <1>2
<1>4. n + 1 \in 0..MaxWrites
  BY <1>2, <1>3, BoundAssumption
<1>5. Append(m, c) \in [1..(n + 1) -> Chunks]
  <2>1. Append(m, c) \in Seq(Chunks) /\ Len(Append(m, c)) = n + 1
    BY <1>2, <1>3
  <2>2. QED
    BY <2>1, LenProperties
<1>6. m \o <<c>> = Append(m, c)
  BY <1>2, AppendIsConcat
<1>7. QED
  BY <1>4, <1>5, <1>6 DEF Messages

(* Messages are sequences of chunks, to which the lemmas about sequences    *)
(* apply.                                                                   *)
LEMMA MessagesAreSequences == Messages \subseteq Seq(Chunks)
BY BoundAssumption DEF Messages

(* What a type tells of the records that have an empty variant.             *)
LEMMA Variants ==
  ASSUME TypeOK
  PROVE  /\ pc # Idle => pc \in [at : Stages, h : Handles, kind : Kinds]
         /\ pc = Idle => pc.at = "idle"
         /\ \A h \in Handles : Built(h) <=> handle[h] \in HandleState
         /\ \A h \in Handles : Built(h) \/ handle[h] = Unbuilt
         /\ out # NoSum => out \in Sums
         /\ oneShot # NoSum => oneShot \in OneShots
  BY DEF TypeOK, Idle, Stages, Built, HandleState, Unbuilt

(* Write, field by field.                                                   *)
LEMMA WrittenFields ==
  ASSUME NEW f \in HandleState, NEW c \in Chunks, NEW ok \in BOOLEAN,
         Len(f.evp.msg) < MaxWrites
  PROVE  LET g == Written(f, <<c>>, ok)
         IN  /\ g \in HandleState
             /\ g.life = f.life /\ g.kind = f.kind /\ g.key = f.key
             /\ g.evp.key = f.evp.key /\ g.evp.state = f.evp.state
             /\ f.life = "open" /\ g.err = "nil" =>
                  f.err = "nil" /\ g.evp.msg = Append(f.evp.msg, c)
<1> DEFINE g == Written(f, <<c>>, ok)
<1>0. f.evp \in Contexts /\ f.evp.msg \in Messages
  BY DEF HandleState, Contexts
<1>1. CASE f.life = "closed"
  BY <1>1 DEF Written
<1>2. CASE f.life = "open" /\ Absorbs(f, ok)
  <2>1. g = [f EXCEPT !.evp.msg = f.evp.msg \o <<c>>]
    BY <1>2 DEF Written
  <2>2. /\ Append(f.evp.msg, c) \in Messages
        /\ f.evp.msg \o <<c>> = Append(f.evp.msg, c)
    BY <1>0, LongerMessage
  <2>3. [f.evp EXCEPT !.msg = Append(f.evp.msg, c)] \in Contexts
    BY <1>0, <2>2 DEF Contexts
  <2>4. g = [f EXCEPT !.evp = [f.evp EXCEPT !.msg = Append(f.evp.msg, c)]]
    BY <2>1, <2>2
  <2>5. g \in HandleState
    BY <2>3, <2>4 DEF HandleState
  <2>6. /\ g.life = f.life /\ g.kind = f.kind /\ g.key = f.key /\ g.err = f.err
        /\ g.evp = [f.evp EXCEPT !.msg = Append(f.evp.msg, c)]
    BY <2>4 DEF HandleState
  <2>7. QED
    BY <1>0, <2>5, <2>6 DEF Contexts
<1>3. CASE f.life = "open" /\ ~Absorbs(f, ok)
  <2>1. g = [f EXCEPT !.err = "openssl"]
    BY <1>3 DEF Written
  <2>2. QED
    BY <2>1 DEF HandleState, Errors
<1>4. QED
  BY <1>1, <1>2, <1>3 DEF HandleState

(* Sum changes nothing but the latched error, and latches one unless it     *)
(* could sum.                                                               *)
LEMMA SummedFields ==
  ASSUME NEW f \in HandleState, NEW ok \in BOOLEAN
  PROVE  LET g == Summed(f, ok)
         IN  /\ g \in HandleState
             /\ g.life = f.life /\ g.kind = f.kind /\ g.key = f.key /\ g.evp = f.evp
             /\ g.err = "nil" => Summable(f, ok) /\ f.err = "nil"
BY DEF Summed, Summable, HandleState, Errors

-----------------------------------------------------------------------------
(* The initial states satisfy the invariant.                                *)
LEMMA StreamInit == Init => StreamInv
<1> SUFFICES ASSUME Init PROVE StreamInv
  OBVIOUS
<1>1. \A h \in Handles : ~Built(h)
  BY DEF Init, Built, Unbuilt
<1>2. TypeOK
  BY EmptyMessage DEF Init, TypeOK, KeyBytes
<1>3. Holdings
  BY <1>1 DEF Init, Holdings, Owned, Building
<1>4. QED
  BY <1>1, <1>2, <1>3
     DEF Init, StreamInv, Unused, KeysKept, TracksMessage, SumOfBuilt,
         NilErrMeansComplete, OneShotHonest

(* What depends on the handles' fields and histories only.                  *)
Histories == Unused /\ KeysKept /\ TracksMessage /\ SumOfBuilt

(* A constructor's step does not touch a handle unless it completes.        *)
LEMMA HistoriesStay ==
  Histories /\ UNCHANGED <<handle, given, offered, consumed>> /\ out' \in {out, NoSum}
    => Histories'
BY DEF Histories, Unused, KeysKept, TracksMessage, SumOfBuilt, Built, IsOpen

(* A call on a built handle h, which gives it the fields g and leaves the   *)
(* other handles alone.                                                     *)
LEMMA HoldingsOfCall ==
  ASSUME TypeOK, Holdings, NEW h \in Handles, Built(h), idle,
         NEW g \in HandleState, handle' = [handle EXCEPT ![h] = g],
         g.life = handle[h].life, g.kind = handle[h].kind, UNCHANGED <<live, pc>>
  PROVE  Holdings'
<1>1. \A x \in Handles : handle'[x].life = handle[x].life /\ handle'[x].kind = handle[x].kind
  BY DEF TypeOK
<1>2. \A x \in Handles : Owned(x)' = Owned(x)
  BY <1>1 DEF Owned, Built, IsOpen
<1>3. QED
  BY <1>2 DEF Holdings, Building, idle, Built

(* Building a handle keeps the invariant.                                   *)
LEMMA ConstructorNext ==
  ASSUME StreamInv,
         (\E h \in Handles, kind \in Kinds : Begin(h, kind)) \/ Fetch \/ NewCtx \/ FirstInit
  PROVE  StreamInv'
<1> USE DEF StreamInv
<1>1. ASSUME NEW h \in Handles, NEW kind \in Kinds, Begin(h, kind) PROVE StreamInv'
  <2>1. TypeOK'
    BY <1>1 DEF TypeOK, Begin, Stages, Objects
  <2>2. Holdings'
    <3>1. \A x \in Handles : Owned(x)' = Owned(x) /\ Built(x)' = Built(x) /\ Building(x) = {}
      BY <1>1 DEF Begin, idle, Built, IsOpen, Owned, Building
    <3>2. pc' # Idle /\ pc'.h = h /\ Freed(pc'.at, pc'.kind) = {x \in {"params"} : kind = "mac"}
      BY <1>1 DEF Begin, Idle, Freed, Objects
    <3>3. Owned(h) = {}
      BY <1>1 DEF Begin, Owned
    <3>4. QED
      BY <1>1, <3>1, <3>2, <3>3 DEF Holdings, Begin, Building
  <2>3. Histories'
    BY <1>1, HistoriesStay DEF Begin, Histories
  <2>4. NilErrMeansComplete' /\ OneShotHonest'
    BY <1>1 DEF Begin, NilErrMeansComplete, OneShotHonest
  <2>5. QED
    BY <2>1, <2>2, <2>3, <2>4 DEF Histories
<1>2. ASSUME pc # Idle, Fails PROVE StreamInv'
  <2>1. TypeOK'
    BY <1>2 DEF TypeOK, Fails
  <2>2. Holdings'
    <3>1. \A x \in Handles : Owned(x)' = Owned(x) /\ Building(x)' = {}
      BY <1>2 DEF Fails, Built, IsOpen, Owned, Building
    <3>2. Owned(pc.h) = {} /\ Building(pc.h) = Freed(pc.at, pc.kind)
      BY <1>2 DEF Holdings, Owned, Building
    <3>3. \A x \in Handles : x # pc.h => Building(x) = {}
      BY DEF Building
    <3>4. live' = live \ ({pc.h} \X Freed(pc.at, pc.kind)) /\ pc' = Idle
      BY <1>2 DEF Fails
    <3>5. QED
      BY <3>1, <3>2, <3>3, <3>4 DEF Holdings
  <2>3. Histories'
    BY <1>2, HistoriesStay DEF Fails, Histories
  <2>4. NilErrMeansComplete' /\ OneShotHonest'
    BY <1>2 DEF Fails, NilErrMeansComplete, OneShotHonest
  <2>5. QED
    BY <2>1, <2>2, <2>3, <2>4 DEF Histories
<1>3. ASSUME NEW object \in Objects, NEW next \in Stages, pc # Idle,
             live' = live \cup {<<pc.h, object>>},
             pc' = [pc EXCEPT !.at = next],
             Freed(next, pc.kind) = Freed(pc.at, pc.kind) \cup {object},
             UNCHANGED <<handle, callerKey, given, offered, consumed, out, oneShot>>
      PROVE  StreamInv'
  <2>1. pc \in [at : Stages, h : Handles, kind : Kinds]
    BY <1>3, Variants
  <2>2. /\ pc' \in [at : Stages, h : Handles, kind : Kinds]
        /\ pc'.at = next /\ pc'.h = pc.h /\ pc'.kind = pc.kind /\ pc' # Idle
    BY <1>3, <2>1 DEF Idle, Stages
  <2>3. TypeOK'
    BY <1>3, <2>1, <2>2 DEF TypeOK
  <2>4. Holdings'
    <3>1. \A x \in Handles : Owned(x)' = Owned(x) /\ Built(x)' = Built(x)
      BY <1>3 DEF Built, IsOpen, Owned
    <3>2. \A x \in Handles :
            Building(x)' = IF x = pc.h THEN Building(x) \cup {object} ELSE Building(x)
      BY <1>3, <2>2 DEF Building
    <3>3. QED
      BY <1>3, <2>1, <2>2, <3>1, <3>2 DEF Holdings
  <2>5. Histories'
    BY <1>3, HistoriesStay DEF Histories
  <2>6. NilErrMeansComplete' /\ OneShotHonest'
    BY <1>3 DEF NilErrMeansComplete, OneShotHonest
  <2>7. QED
    BY <2>3, <2>4, <2>5, <2>6 DEF Histories
<1>4. CASE Fetch \/ NewCtx
  <2>1. pc # Idle
    BY <1>4 DEF Fetch, NewCtx, Acquire, Idle
  <2>2. /\ Freed("ctx", pc.kind) = Freed("fetch", pc.kind) \cup {"alg"}
        /\ Freed("init", pc.kind) = Freed("ctx", pc.kind) \cup {"ctx"}
    BY DEF Freed, Objects
  <2>3. QED
    BY <1>2, <1>3, <1>4, <2>1, <2>2 DEF Fetch, NewCtx, Acquire, Stages, Objects
<1>5. ASSUME NEW k, k = IF pc.kind = "mac" THEN callerKey ELSE "none", pc.at = "init",
             handle' = [handle EXCEPT ![pc.h] = [life |-> "open", kind |-> pc.kind,
                          evp |-> Fresh(k), key |-> k, err |-> "nil"]],
             given' = [given EXCEPT ![pc.h] = k], pc' = Idle,
             UNCHANGED <<live, callerKey, offered, consumed, out, oneShot>>
      PROVE  StreamInv'
  <2>1. pc \in [at : Stages, h : Handles, kind : Kinds] /\ pc # Idle /\ ~Built(pc.h)
    BY <1>5, Variants DEF Holdings, Idle
  <2>2. k \in KeyBytes \cup {"none"}
    BY <1>5 DEF TypeOK
  <2>3. Fresh(k) \in Contexts /\ Fresh(k).msg = <<>> /\ Fresh(k).key = k
        /\ Fresh(k).state = "absorbing"
    BY <2>2, EmptyMessage DEF Fresh, Contexts
  <2>4. PICK g \in HandleState :
          /\ handle' = [handle EXCEPT ![pc.h] = g]
          /\ g.life = "open" /\ g.kind = pc.kind /\ g.evp = Fresh(k) /\ g.key = k /\ g.err = "nil"
    <3>1. [life |-> "open", kind |-> pc.kind, evp |-> Fresh(k), key |-> k, err |-> "nil"]
            \in HandleState
      BY <2>1, <2>2, <2>3 DEF HandleState, Errors
    <3>2. QED
      BY <1>5, <3>1
  <2>5. TypeOK'
    BY <1>5, <2>1, <2>2, <2>4 DEF TypeOK
  <2>0. PICK hh \in Handles : hh = pc.h
    BY <2>1
  <2>6. handle'[hh] = g /\ \A h \in Handles \ {hh} : handle'[h] = handle[h]
    BY <2>4, <2>0 DEF TypeOK
  <2>7. Holdings'
    <3>1. Owned(hh) = {} /\ Owned(hh)' = Freed(pc.at, pc.kind) /\ Building(hh) = Freed(pc.at, pc.kind)
      BY <1>5, <2>1, <2>4, <2>6, <2>0 DEF Owned, Built, IsOpen, Freed, Objects, Building
    <3>2. \A h \in Handles \ {hh} : Owned(h)' = Owned(h) /\ Building(h) = {}
      BY <2>6, <2>0 DEF Owned, Built, IsOpen, Building
    <3>3. \A h \in Handles : Building(h)' = {}
      BY <1>5 DEF Building
    <3>4. QED
      BY <1>5, <2>1, <3>1, <3>2, <3>3 DEF Holdings
  <2>8. Histories'
    <3>1. offered[hh] = <<>> /\ hh \notin consumed
      BY <2>1, <2>0 DEF Unused
    <3>2. Unused' /\ KeysKept' /\ SumOfBuilt'
      BY <1>5, <2>1, <2>3, <2>4, <2>6, <2>0
         DEF Unused, KeysKept, SumOfBuilt, Built, IsOpen, TypeOK, Sums
    <3>3. TracksMessage'
      BY <1>5, <2>1, <2>3, <2>4, <2>6, <2>0, <3>1 DEF TracksMessage, Built, IsOpen
    <3>4. QED
      BY <3>2, <3>3 DEF Histories
  <2>9. NilErrMeansComplete' /\ OneShotHonest'
    <3>1. out # NoSum => out.of \in Handles \ {hh}
      BY <2>1, <2>0 DEF SumOfBuilt, TypeOK, Sums
    <3>2. QED
      BY <1>5, <2>1, <2>0, <3>1 DEF NilErrMeansComplete, OneShotHonest, TypeOK
  <2>10. QED
    BY <2>5, <2>7, <2>8, <2>9 DEF Histories
<1>6. CASE FirstInit
  <2>1. pc # Idle
    BY <1>6 DEF FirstInit, Idle
  <2>2. QED
    BY <1>2, <1>5, <1>6, <2>1 DEF FirstInit
<1>7. QED
  BY <1>1, <1>4, <1>6

(* A call on a handle keeps the invariant.                                  *)
LEMMA WriteNext ==
  ASSUME StreamInv, NEW h \in Handles, NEW c \in Chunks, Write(h, c)
  PROVE  StreamInv'
<1> USE DEF StreamInv
<1>1. PICK ok \in BOOLEAN : handle' = [handle EXCEPT ![h] = Written(handle[h], <<c>>, ok)]
  BY DEF Write
<1>2. handle[h] \in HandleState /\ Built(h) /\ Len(handle[h].evp.msg) < MaxWrites
  BY Variants DEF Write
<1> DEFINE f == handle[h]
           g == Written(f, <<c>>, ok)
<1>3. /\ g \in HandleState
      /\ g.life = f.life /\ g.kind = f.kind /\ g.key = f.key
      /\ g.evp.key = f.evp.key /\ g.evp.state = f.evp.state
      /\ f.life = "open" /\ g.err = "nil" => f.err = "nil" /\ g.evp.msg = Append(f.evp.msg, c)
  BY <1>2, WrittenFields
<1> HIDE DEF g
<1>4. /\ handle' = [handle EXCEPT ![h] = g]
      /\ handle'[h] = g /\ \A x \in Handles \ {h} : handle'[x] = handle[x]
  BY <1>1 DEF TypeOK, g
<1>5. Append(offered[h], c) \in Messages
  BY LongerMessage DEF TypeOK, Write
<1>6. TypeOK'
  BY <1>3, <1>4, <1>5 DEF TypeOK, Write
<1>7. Holdings'
  BY <1>2, <1>3, <1>4, HoldingsOfCall DEF Write
<1>8. Unused' /\ KeysKept' /\ SumOfBuilt'
  BY <1>2, <1>3, <1>4 DEF Write, Unused, KeysKept, SumOfBuilt, Built, IsOpen, TypeOK
<1>9. TracksMessage'
  BY <1>3, <1>4, ZenonT(40) DEF Write, TracksMessage, Built, IsOpen, TypeOK
<1>10. NilErrMeansComplete' /\ OneShotHonest'
  BY DEF Write, NilErrMeansComplete, OneShotHonest
<1>11. QED
  BY <1>6, <1>7, <1>8, <1>9, <1>10

(* Sum finalises a copy of the context, or latches an error.                *)
LEMMA SumNext ==
  ASSUME StreamInv, NEW h \in Handles, Sum(h)
  PROVE  StreamInv'
<1> USE DEF StreamInv
<1> DEFINE f == handle[h]
<1>1. PICK ok \in BOOLEAN :
        /\ handle' = [handle EXCEPT ![h] = Summed(f, ok)]
        /\ out' = [of |-> h, ok |-> Summable(f, ok),
                   msg |-> IF Summable(f, ok) THEN f.evp.msg ELSE <<>>,
                   key |-> IF Summable(f, ok) THEN f.evp.key ELSE "none",
                   offered |-> offered[h], err |-> Summed(f, ok).err]
  BY DEF Sum
<1>2. f \in HandleState /\ Built(h)
  BY Variants DEF Sum
<1> DEFINE g == Summed(f, ok)
<1>3. /\ g \in HandleState
      /\ g.life = f.life /\ g.kind = f.kind /\ g.key = f.key /\ g.evp = f.evp
      /\ g.err = "nil" => Summable(f, ok) /\ f.err = "nil"
  BY <1>2, SummedFields
<1> HIDE DEF g
<1>4. /\ handle' = [handle EXCEPT ![h] = g]
      /\ handle'[h] = g /\ \A x \in Handles \ {h} : handle'[x] = handle[x]
  BY <1>1 DEF TypeOK, g
<1>5. out'.of = h /\ out'.ok = Summable(f, ok) /\ out'.offered = offered[h] /\ out'.err = g.err
  BY <1>1 DEF g
<1>6. out' \in Sums
  <2>1. Summable(f, ok) \in BOOLEAN
    BY DEF Summable, Absorbs
  <2>2. f.evp.msg \in Messages /\ f.evp.key \in KeyBytes \cup {"none"} /\ g.err \in Errors
    BY <1>2, <1>3 DEF HandleState, Contexts
  <2>3. offered[h] \in Messages
    BY DEF TypeOK
  <2>4. QED
    BY <1>1, <2>1, <2>2, <2>3, EmptyMessage DEF Sums, g
<1>7. TypeOK'
  BY <1>3, <1>4, <1>6 DEF TypeOK, Sum
<1>8. Holdings'
  BY <1>2, <1>3, <1>4, HoldingsOfCall DEF Sum
<1>9. Unused' /\ KeysKept' /\ SumOfBuilt'
  BY <1>2, <1>3, <1>4, <1>5 DEF Sum, Unused, KeysKept, SumOfBuilt, Built, IsOpen, TypeOK
<1>10. TracksMessage'
  BY <1>3, <1>4 DEF Sum, TracksMessage, Built, IsOpen, TypeOK
<1>11. NilErrMeansComplete'
  <2>1. ASSUME g.err = "nil"
        PROVE  out'.ok /\ out'.msg = offered[h] /\ out'.key = given[h]
    <3>1. Summable(f, ok) /\ f.err = "nil" /\ f.life = "open"
      BY <2>1, <1>3 DEF Summable
    <3>2. out'.msg = f.evp.msg /\ out'.key = f.evp.key
      BY <1>1, <3>1
    <3>3. f.evp.msg = offered[h] /\ f.evp.key = given[h]
      BY <1>2, <3>1 DEF TracksMessage, KeysKept, IsOpen
    <3>4. QED
      BY <1>5, <3>1, <3>2, <3>3
  <2>2. UNCHANGED given
    BY DEF Sum
  <2>3. QED
    BY <1>5, <2>1, <2>2 DEF NilErrMeansComplete
<1>12. OneShotHonest'
  BY DEF Sum, OneShotHonest
<1>13. QED
  BY <1>7, <1>8, <1>9, <1>10, <1>11, <1>12

(* SumXOF consumes the context and latches nothing.                         *)
LEMMA SumXOFNext ==
  ASSUME StreamInv, NEW h \in Handles, SumXOF(h)
  PROVE  StreamInv'
<1> USE DEF StreamInv
<1> DEFINE f == handle[h]
<1>1. f \in HandleState /\ Built(h) /\ IsOpen(h)
  BY Variants DEF SumXOF, IsOpen, Built
<1>2. PICK state \in {"final", f.evp.state} : handle' = [handle EXCEPT ![h].evp.state = state]
  BY DEF SumXOF
<1> DEFINE g == [f EXCEPT !.evp = [f.evp EXCEPT !.state = state]]
<1>3. /\ g \in HandleState
      /\ g.life = f.life /\ g.kind = f.kind /\ g.key = f.key /\ g.err = f.err
      /\ g.evp.msg = f.evp.msg /\ g.evp.key = f.evp.key
  <2>1. f.evp \in Contexts
    BY <1>1 DEF HandleState
  <2>2. [f.evp EXCEPT !.state = state] \in Contexts
    BY <2>1 DEF Contexts
  <2>3. QED
    BY <1>1, <2>1, <2>2 DEF HandleState, Contexts
<1>4. /\ handle' = [handle EXCEPT ![h] = g]
      /\ handle'[h] = g /\ \A x \in Handles \ {h} : handle'[x] = handle[x]
  BY <1>2 DEF TypeOK
<1> HIDE DEF g
<1>5. TypeOK'
  BY <1>3, <1>4 DEF TypeOK, SumXOF
<1>6. Holdings'
  BY <1>1, <1>3, <1>4, HoldingsOfCall DEF SumXOF
<1>7. Unused' /\ KeysKept' /\ SumOfBuilt'
  BY <1>1, <1>3, <1>4 DEF SumXOF, Unused, KeysKept, SumOfBuilt, Built, IsOpen, TypeOK
<1>8. TracksMessage'
  BY <1>3, <1>4 DEF SumXOF, TracksMessage, Built, IsOpen, TypeOK
<1>9. NilErrMeansComplete' /\ OneShotHonest'
  BY DEF SumXOF, NilErrMeansComplete, OneShotHonest
<1>10. QED
  BY <1>5, <1>6, <1>7, <1>8, <1>9

(* Reset initialises the context again or latches an error; the message     *)
(* starts anew.                                                             *)
LEMMA ResetNext ==
  ASSUME StreamInv, NEW h \in Handles, Reset(h)
  PROVE  StreamInv'
<1> USE DEF StreamInv
<1> DEFINE f == handle[h]
<1>1. f \in HandleState /\ Built(h) /\ IsOpen(h) /\ f.key = given[h] /\ f.evp.key = given[h]
  BY Variants DEF Reset, IsOpen, Built, KeysKept
<1>2. f.evp \in Contexts /\ given[h] \in KeyBytes \cup {"none"}
  BY <1>1 DEF HandleState, TypeOK
<1>3. PICK e \in Contexts, err \in Errors :
        /\ handle' = [handle EXCEPT ![h] = [f EXCEPT !.evp = e, !.err = err]]
        /\ e.key = given[h]
        /\ err = "nil" => e.msg = <<>> /\ e.state = "absorbing"
  <2>1. CASE handle' = [handle EXCEPT ![h].evp = Fresh(handle[h].key)]
    <3>1. /\ Fresh(f.key) \in Contexts /\ Fresh(f.key).key = given[h]
          /\ Fresh(f.key).msg = <<>> /\ Fresh(f.key).state = "absorbing"
      BY <1>1, <1>2, EmptyMessage DEF Fresh, Contexts
    <3>2. [f EXCEPT !.evp = Fresh(f.key)] = [f EXCEPT !.evp = Fresh(f.key), !.err = f.err]
          /\ f.err \in Errors
      BY <1>1 DEF HandleState
    <3>3. QED
      BY <2>1, <3>1, <3>2
  <2>2. CASE \E state \in {"final", f.evp.state} :
               handle' = [handle EXCEPT ![h].evp.state = state, ![h].err = "openssl"]
    <3>1. PICK state \in {"final", f.evp.state} :
               handle' = [handle EXCEPT ![h].evp.state = state, ![h].err = "openssl"]
      BY <2>2
    <3> DEFINE e == [f.evp EXCEPT !.state = state]
    <3>2. e \in Contexts /\ e.key = f.evp.key
      BY <1>2 DEF Contexts
    <3>3. handle' = [handle EXCEPT ![h] = [f EXCEPT !.evp = e, !.err = "openssl"]]
      BY <3>1 DEF TypeOK
    <3> HIDE DEF e
    <3>4. QED
      BY <1>1, <3>2, <3>3 DEF Errors
  <2>3. QED
    BY <2>1, <2>2 DEF Reset
<1> DEFINE g == [f EXCEPT !.evp = e, !.err = err]
<1>4. /\ g \in HandleState
      /\ g.life = f.life /\ g.kind = f.kind /\ g.key = f.key /\ g.err = err /\ g.evp = e
  BY <1>1 DEF HandleState
<1>5. /\ handle' = [handle EXCEPT ![h] = g]
      /\ handle'[h] = g /\ \A x \in Handles \ {h} : handle'[x] = handle[x]
  BY <1>3 DEF TypeOK
<1> HIDE DEF g
<1>6. TypeOK'
  BY <1>4, <1>5, EmptyMessage DEF TypeOK, Reset
<1>7. Holdings'
  BY <1>1, <1>4, <1>5, HoldingsOfCall DEF Reset
<1>8. Unused' /\ KeysKept' /\ SumOfBuilt'
  BY <1>1, <1>3, <1>4, <1>5 DEF Reset, Unused, KeysKept, SumOfBuilt, Built, IsOpen, TypeOK
<1>9. TracksMessage'
  BY <1>3, <1>4, <1>5 DEF Reset, TracksMessage, Built, IsOpen, TypeOK
<1>10. NilErrMeansComplete' /\ OneShotHonest'
  BY DEF Reset, NilErrMeansComplete, OneShotHonest
<1>11. QED
  BY <1>6, <1>7, <1>8, <1>9, <1>10

(* Close frees what the handle owns, and wipes the key of a MAC.            *)
LEMMA CloseNext ==
  ASSUME StreamInv, NEW h \in Handles, Close(h)
  PROVE  StreamInv'
<1> USE DEF StreamInv
<1> DEFINE f == handle[h]
<1>1. f \in HandleState /\ Built(h) /\ IsOpen(h)
  BY Variants DEF Close, IsOpen, Built
<1>2. PICK k \in {"none", "zeroed"} :
        handle' = [handle EXCEPT ![h] = [f EXCEPT !.life = "closed", !.key = k]]
  <2>1. handle' = [handle EXCEPT ![h] =
                     [f EXCEPT !.life = "closed", !.key = IF f.key = "none" THEN f.key ELSE "zeroed"]]
    BY <1>1 DEF Close, TypeOK
  <2>2. QED
    BY <2>1
<1> DEFINE g == [f EXCEPT !.life = "closed", !.key = k]
<1>3. g \in HandleState /\ g.life = "closed"
  BY <1>1 DEF HandleState
<1>4. handle'[h] = g /\ \A x \in Handles \ {h} : handle'[x] = handle[x]
  BY <1>2 DEF TypeOK
<1>5. TypeOK'
  BY <1>2, <1>3 DEF TypeOK, Close
<1> HIDE DEF g
<1>6. Holdings'
  <2>1. Owned(h)' = {} /\ \A x \in Handles \ {h} : Owned(x)' = Owned(x)
    BY <1>3, <1>4 DEF Owned, Built, IsOpen
  <2>2. \A x \in Handles : Building(x)' = {} /\ Building(x) = {}
    BY DEF Building, Close, idle
  <2>3. QED
    BY <2>1, <2>2 DEF Holdings, Close, idle
<1>7. Unused' /\ KeysKept' /\ SumOfBuilt'
  BY <1>1, <1>3, <1>4 DEF Close, Unused, KeysKept, SumOfBuilt, Built, IsOpen, TypeOK
<1>8. TracksMessage'
  BY <1>3, <1>4 DEF Close, TracksMessage, Built, IsOpen, TypeOK
<1>9. NilErrMeansComplete' /\ OneShotHonest'
  BY DEF Close, NilErrMeansComplete, OneShotHonest
<1>10. QED
  BY <1>5, <1>6, <1>7, <1>8, <1>9

(* A one-shot digest leaves the handles alone and owns nothing when it      *)
(* returns.                                                                 *)
LEMMA DigestNext ==
  ASSUME StreamInv, NEW kind \in Kinds, NEW m \in Messages, Digest(kind, m)
  PROVE  StreamInv'
<1> USE DEF StreamInv
<1> DEFINE k == IF kind = "mac" THEN callerKey ELSE "none"
           new == [life |-> "open", kind |-> kind, evp |-> Fresh(k), key |-> k, err |-> "nil"]
<1>1. PICK fetched \in BOOLEAN, wok \in BOOLEAN, sok \in BOOLEAN :
        oneShot' =
          [data |-> m,
           ok |-> fetched /\ Concluded(m = <<>> \/ Absorbs(new, wok),
                                       Summed(Written(new, m, wok), sok)),
           msg |-> IF Summable(Written(new, m, wok), sok) THEN Written(new, m, wok).evp.msg
                                                          ELSE <<>>]
  BY DEF Digest
<1> DEFINE f == Written(new, m, wok)
<1>2. /\ new.life = "open" /\ new.evp.msg = <<>> /\ new.evp.state = "absorbing" /\ new.err = "nil"
      /\ new.evp = Fresh(k)
  BY DEF Fresh
<1>3. <<>> \o m = m
  BY MessagesAreSequences
<1>4. f.evp.msg \in {<<>>, m} /\ (m = <<>> \/ Absorbs(new, wok) => f.evp.msg = m)
  <2>1. CASE m = <<>> \/ ~Absorbs(new, wok)
    <3>1. f.evp = new.evp
      BY <1>2, <2>1 DEF Written
    <3>2. m = <<>> => f.evp.msg = m
      BY <1>2, <3>1
    <3>3. QED
      BY <1>2, <2>1, <3>1, <3>2
  <2>2. CASE m # <<>> /\ Absorbs(new, wok)
    <3>1. f = [new EXCEPT !.evp = [Fresh(k) EXCEPT !.msg = m]]
      BY <1>2, <1>3, <2>2 DEF Written
    <3>2. f.evp.msg = m
      BY <3>1 DEF Fresh
    <3>3. QED
      BY <3>2
  <2>3. QED
    BY <2>1, <2>2
<1>5. Summed(f, sok).err = "nil" => Summable(f, sok)
  <2>1. ~Summable(f, sok) => Summed(f, sok).err # "nil"
    <3> SUFFICES ASSUME ~Summable(f, sok) PROVE Summed(f, sok).err # "nil"
      OBVIOUS
    <3>1. "err" \in DOMAIN f
      <4>1. "err" \in DOMAIN new
        OBVIOUS
      <4>2. QED
        BY <4>1 DEF Written
    <3>2. QED
      BY <3>1 DEF Summed
  <2>2. QED
    BY <2>1
<1> HIDE DEF f, new
<1>6. /\ oneShot'.data = m
      /\ oneShot'.ok => oneShot'.msg = m
      /\ oneShot' \in OneShots
  <2>1. oneShot'.data = m /\ oneShot'.msg = IF Summable(f, sok) THEN f.evp.msg ELSE <<>>
    BY <1>1 DEF f
  <2>2. oneShot'.ok = (fetched /\ Concluded(m = <<>> \/ Absorbs(new, wok), Summed(f, sok)))
    BY <1>1 DEF f
  <2>3. oneShot'.ok => oneShot'.msg = m
    BY <1>4, <1>5, <2>1, <2>2 DEF Concluded
  <2>4. oneShot'.msg \in Messages /\ oneShot'.ok \in BOOLEAN
    <3>1. oneShot'.ok \in BOOLEAN
      BY <2>2 DEF Concluded
    <3>2. oneShot'.msg \in {<<>>, m}
      BY <1>4, <2>1
    <3>3. QED
      BY <3>1, <3>2, EmptyMessage
  <2>5. oneShot' = [data |-> m, ok |-> oneShot'.ok, msg |-> oneShot'.msg]
    BY <1>1
  <2>6. QED
    BY <2>1, <2>3, <2>4, <2>5 DEF OneShots
<1>7. TypeOK'
  BY <1>6 DEF TypeOK, Digest
<1>8. UNCHANGED <<handle, live, pc, callerKey, given, offered, consumed>> /\ out' = NoSum
  BY DEF Digest
<1>9. Holdings' /\ Unused' /\ KeysKept' /\ TracksMessage' /\ SumOfBuilt' /\ NilErrMeansComplete'
  BY <1>8 DEF Holdings, Building, Owned, Unused, KeysKept, TracksMessage, SumOfBuilt,
              NilErrMeansComplete, Built, IsOpen
<1>10. OneShotHonest'
  BY <1>6 DEF OneShotHonest
<1>11. QED
  BY <1>7, <1>9, <1>10

(* Every step of hashes and MACs preserves the invariant.                   *)
LEMMA StreamNext == StreamInv /\ [Next]_vars => StreamInv'
<1> SUFFICES ASSUME StreamInv, [Next]_vars PROVE StreamInv'
  OBVIOUS
<1>1. CASE Scribble \/ UNCHANGED vars
  <2>1. /\ UNCHANGED <<handle, live, pc, given, offered, consumed, out, oneShot>>
        /\ callerKey' \in KeyBytes
    BY <1>1 DEF Scribble, vars, KeyBytes, StreamInv, TypeOK
  <2>2. QED
    BY <2>1 DEF StreamInv, TypeOK, Holdings, Building, Owned, Unused, KeysKept, TracksMessage,
                SumOfBuilt, NilErrMeansComplete, OneShotHonest, Built, IsOpen
<1>2. QED
  BY <1>1, ConstructorNext, WriteNext, SumNext, SumXOFNext, ResetNext, CloseNext, DigestNext
     DEF Next

(* Between calls the C heap holds what the open handles own.                *)
LEMMA StreamBalanced == StreamInv => Balanced
<1> SUFFICES ASSUME StreamInv, idle PROVE live = UNION {{h} \X Owned(h) : h \in Handles}
  BY DEF Balanced
<1>1. live \subseteq Handles \X Objects
  BY DEF StreamInv, TypeOK
<1>2. \A h \in Handles, x \in Objects : <<h, x>> \in live <=> x \in Owned(h)
  BY DEF StreamInv, Holdings, Building, idle
<1>3. \A h \in Handles : Owned(h) \subseteq Objects
  BY DEF Owned
<1>4. QED
  BY <1>1, <1>2, <1>3

-----------------------------------------------------------------------------
(* A step of MCCalls is a step of one subject, and changes no variable of   *)
(* another: to every part it is a step or a stutter.                        *)
callsVars == <<subject, vars, aeadVars, keyVars, cipherVars, trialVars,
               listVars, codecVars, walkVars, paramVars>>

(* A step of the nine subjects is a step of hashes and MACs, or leaves them *)
(* alone.                                                                   *)
LEMMA StreamProjection == [CallsNext]_callsVars => [Next]_vars
BY DEF CallsNext, callsVars, Of

(* AEADCall alike, which the next module is about.                          *)
LEMMA AEADProjection == [CallsNext]_callsVars => [AEAD!Next]_aeadVars
BY DEF CallsNext, callsVars, Of

(* The handles of Hash and MAC keep their invariant whatever the subject.   *)
THEOREM StreamInvariance == CallsSpec => []StreamInv
<1>1. CallsInit => StreamInv
  BY StreamInit DEF CallsInit
<1>2. StreamInv /\ [CallsNext]_callsVars => StreamInv'
  BY StreamNext, StreamProjection
<1>3. QED
  BY <1>1, <1>2, PTL DEF CallsSpec, callsVars

(* A nil Err, or a one-shot success, means a digest of all that was         *)
(* written, for messages of any length (digest.go:226-229).                 *)
THEOREM DigestsAreComplete == CallsSpec => []DigestsComplete
<1>1. StreamInv => DigestsComplete
  BY DEF StreamInv, DigestsComplete
<1>2. QED
  BY <1>1, StreamInvariance, PTL

-----------------------------------------------------------------------------
(* AEADCall.                                                                *)

(* A running call got past the checks of its arguments and cleared the      *)
(* queue.  The tag length is set before the key is used, CCM's length       *)
(* before its AAD, and CCM's tag is checked, or made, before Final.         *)
Running ==
  sealPc # "idle" =>
    /\ sealQueue = {} /\ sealReply.verdict = "none" /\ AEAD!argsFit
    /\ sealPc \in {"newctx", "init", "initKey"} => ~evp.keyed
    /\ sealPc \in {"initKey", "hint", "aad", "data", "final", "tag"} => evp.tag = aead.tag
    /\ sealPc \in {"initKey", "hint"} => aead.ccm
    /\ sealPc \in {"aad", "data", "final", "tag"} /\ aead.ccm => evp.hinted
    /\ sealPc = "final" /\ aead.ccm => evp.tagReady /\ (AEAD!opening => sealCall.intact)
    /\ sealPc = "tag" => evp.tagReady /\ ~AEAD!opening

(* Plaintext is in the scratch buffer only before Final has judged it, and  *)
(* after it was accepted.                                                   *)
PlaintextHeld ==
  scratch = "plaintext" =>
    \/ sealPc = "final" /\ AEAD!opening
    \/ sealPc = "idle" /\ sealReply.verdict = "ok"

Answers == AEAD!Authentic /\ AEAD!Accepts /\ AEAD!OneVerdict /\ AEAD!SealDiagnosed

AEADInv == AEAD!TypeOK /\ Running /\ PlaintextHeld /\ Answers

-----------------------------------------------------------------------------
(* The initial states satisfy the invariant.                                *)
LEMMA AEADInit == AEAD!Init => AEADInv
<1> SUFFICES ASSUME AEAD!Init PROVE AEADInv
  OBVIOUS
<1>0. FALSE \in BOOLEAN
  OBVIOUS
<1>1. evp \in AEAD!Ctxs
  BY <1>0 DEF AEAD!Init, AEAD!FreshCtx, AEAD!DefaultTag, AEAD!Ctxs
<1>2. AEAD!TypeOK
  BY <1>0, <1>1 DEF AEAD!Init, AEAD!TypeOK, AEAD!AEADs, AEAD!Steps, AEAD!Entries, AEAD!Verdicts
<1>3. Running /\ PlaintextHeld /\ ~AEAD!returned
  BY DEF AEAD!Init, Running, PlaintextHeld, AEAD!returned
<1>4. QED
  BY <1>2, <1>3
     DEF AEADInv, Answers, AEAD!Authentic, AEAD!Accepts, AEAD!OneVerdict, AEAD!SealDiagnosed

(* With a call under way nothing has been answered.                         *)
LEMMA Unanswered == sealPc # "idle" => Answers
BY DEF Answers, AEAD!Authentic, AEAD!Accepts, AEAD!OneVerdict, AEAD!SealDiagnosed, AEAD!returned

(* The same of the next state.                                              *)
LEMMA UnansweredNext == sealPc' # "idle" => Answers'
BY DEF Answers, AEAD!Authentic, AEAD!Accepts, AEAD!OneVerdict, AEAD!SealDiagnosed, AEAD!returned

(* A C call that failed: which answer is right depends on which it was, and *)
(* on whether it had to fail.                                               *)
LEMMA Failure ==
  ASSUME AEADInv, NEW step \in AEAD!Steps \ {"idle"}, AEAD!Fails(step),
         NEW v \in {"Error", "ErrVerification"}, NEW es \in SUBSET AEAD!Entries,
         AEAD!ReturnWith(v, es, {}),
         AEAD!opening /\ (AEAD!MustFail(step) \/ AEAD!MayNotice(step)) => v = "ErrVerification",
         AEAD!opening /\ aead.ccm /\ evp.keyed => v = "ErrVerification",
         ~AEAD!opening => v = "Error" /\ es = {"own"},
         scratch' \in {"none", "zeroed"} \/ (UNCHANGED scratch /\ scratch # "plaintext")
  PROVE  AEADInv'
<1> USE DEF AEADInv
<1>1. AEAD!TypeOK'
  <2>1. fault' \in BOOLEAN
    BY DEF AEAD!TypeOK, AEAD!Fails, AEAD!MustFail, AEAD!MayNotice, AEAD!Mismatch, AEAD!opening
  <2>2. sealReply' \in [verdict : AEAD!Verdicts, entries : SUBSET AEAD!Entries]
    BY DEF AEAD!ReturnWith, AEAD!Verdicts
  <2>3. sealPc' = "idle" /\ sealQueue' = {} /\ UNCHANGED <<aead, sealCall, evp>>
    BY DEF AEAD!ReturnWith
  <2>4. scratch' \in {"none", "plaintext", "zeroed"}
    BY DEF AEAD!TypeOK
  <2>5. QED
    BY <2>1, <2>2, <2>3, <2>4 DEF AEAD!TypeOK, AEAD!Steps
<1>2. /\ sealPc' = "idle" /\ sealReply'.verdict = v /\ sealReply'.entries = es
      /\ UNCHANGED <<aead, sealCall, evp>> /\ sealPc = step
      /\ (fault' = (fault \/ ~(AEAD!MustFail(step) \/ AEAD!MayNotice(step))))
  BY DEF AEAD!ReturnWith, AEAD!Fails
<1>3. Running' /\ PlaintextHeld'
  BY <1>2 DEF Running, PlaintextHeld
<1>4. AEAD!Authentic'
  BY <1>2 DEF AEAD!Authentic
<1>5. AEAD!Accepts'
  <2>1. AEAD!MustFail(step) \/ AEAD!MayNotice(step) => AEAD!opening /\ ~sealCall.intact
    BY <1>2 DEF Running, AEAD!MustFail, AEAD!MayNotice, AEAD!Mismatch, AEAD!Steps
  <2>2. fault' \/ (AEAD!opening /\ ~sealCall.intact)
    BY <1>2, <2>1
  <2>3. QED
    BY <1>2, <2>2 DEF AEAD!Accepts, AEAD!opening
<1>6. AEAD!OneVerdict'
  BY <1>2 DEF AEAD!OneVerdict, AEAD!opening
<1>7. AEAD!SealDiagnosed'
  BY <1>2 DEF AEAD!SealDiagnosed, AEAD!opening
<1>8. QED
  BY <1>1, <1>3, <1>4, <1>5, <1>6, <1>7 DEF Answers

(* newError and clearErrors leave what Failure asks for.                    *)
LEMMA FailsWithError ==
  ASSUME AEADInv, NEW step \in AEAD!Steps \ {"idle"}, AEAD!Fails(step), AEAD!NewError,
         ~(AEAD!opening /\ (AEAD!MustFail(step) \/ AEAD!MayNotice(step))),
         ~(AEAD!opening /\ aead.ccm /\ evp.keyed),
         scratch' \in {"none", "zeroed"} \/ (UNCHANGED scratch /\ scratch # "plaintext")
  PROVE  AEADInv'
<1>1. sealQueue = {}
  BY DEF AEADInv, Running, AEAD!Fails
<1>2. AEAD!ReturnWith("Error", {"own"}, {}) /\ {"own"} \in SUBSET AEAD!Entries
  BY <1>1 DEF AEAD!NewError, AEAD!Entries
<1>3. QED
  BY <1>2, Failure

(* A failure that Open reports as ErrVerification, its buffer wiped if it   *)
(* held plaintext, preserves the invariant.                                 *)
LEMMA FailsVerification ==
  ASSUME AEADInv, NEW step \in AEAD!Steps \ {"idle"}, AEAD!Fails(step), AEAD!Verification,
         AEAD!opening,
         scratch' \in {"none", "zeroed"} \/ (UNCHANGED scratch /\ scratch # "plaintext")
  PROVE  AEADInv'
BY Failure DEF AEAD!Verification

(* A C call that succeeded and is followed by another.                      *)
LEMMA Success ==
  ASSUME AEADInv, NEW step \in AEAD!Steps \ {"idle"}, AEAD!Succeeds(step),
         NEW to \in AEAD!Steps \ {"idle"}, NEW c \in AEAD!Ctxs, AEAD!Proceed(to, c),
         to \in {"newctx", "init", "initKey"} => ~c.keyed,
         to \in {"initKey", "hint", "aad", "data", "final", "tag"} => c.tag = aead.tag,
         to \in {"initKey", "hint"} => aead.ccm,
         to \in {"aad", "data", "final", "tag"} /\ aead.ccm => c.hinted,
         to = "final" /\ aead.ccm => c.tagReady /\ (AEAD!opening => sealCall.intact),
         to = "tag" => c.tagReady /\ ~AEAD!opening,
         \/ UNCHANGED scratch /\ scratch # "plaintext"
         \/ scratch' \in {"none", "plaintext", "zeroed"} /\ to = "final" /\ AEAD!opening
  PROVE  AEADInv'
<1> USE DEF AEADInv
<1>1. sealPc # "idle" /\ sealPc' # "idle" /\ sealPc' = to /\ evp' = c
      /\ UNCHANGED <<aead, sealCall, sealQueue, sealReply, fault>>
  BY DEF AEAD!Succeeds, AEAD!Proceed
<1>2. AEAD!TypeOK'
  BY <1>1 DEF AEAD!TypeOK
<1>3. Running'
  BY <1>1 DEF Running, AEAD!argsFit, AEAD!opening
<1>4. PlaintextHeld'
  BY <1>1 DEF PlaintextHeld, AEAD!opening
<1>5. QED
  BY <1>1, <1>2, <1>3, <1>4, UnansweredNext

(* A call that ends well: Final for Open, the tag for Seal.                 *)
LEMMA Ending ==
  ASSUME AEADInv, NEW step \in {"final", "tag"}, AEAD!Succeeds(step),
         AEAD!ReturnWith("ok", {}, sealQueue), UNCHANGED scratch,
         AEAD!opening <=> step = "final"
  PROVE  AEADInv'
<1> USE DEF AEADInv
<1>1. sealPc = step /\ sealPc' = "idle" /\ UNCHANGED <<aead, sealCall, evp, fault, sealQueue>>
      /\ sealReply' = [verdict |-> "ok", entries |-> {}] /\ ~AEAD!MustFail(step)
  BY DEF AEAD!Succeeds, AEAD!ReturnWith
<1>2. AEAD!TypeOK'
  <2>1. sealReply' \in [verdict : AEAD!Verdicts, entries : SUBSET AEAD!Entries]
    BY <1>1 DEF AEAD!Verdicts
  <2>2. QED
    BY <1>1, <2>1 DEF AEAD!TypeOK, AEAD!Steps
<1>3. Running' /\ PlaintextHeld'
  BY <1>1 DEF Running, PlaintextHeld
<1>4. AEAD!opening => sealCall.intact
  BY <1>1 DEF Running, AEAD!MustFail, AEAD!Mismatch
<1>5. Answers'
  BY <1>1, <1>4
     DEF Answers, AEAD!Authentic, AEAD!Accepts, AEAD!OneVerdict, AEAD!SealDiagnosed, AEAD!opening
<1>6. QED
  BY <1>2, <1>3, <1>5

(* A context stays one when a field is set.                                 *)
LEMMA CtxSet ==
  ASSUME NEW c \in AEAD!Ctxs, NEW b \in BOOLEAN
  PROVE  /\ [c EXCEPT !.keyed = b] \in AEAD!Ctxs
         /\ [c EXCEPT !.hinted = b] \in AEAD!Ctxs
         /\ [c EXCEPT !.tagReady = b] \in AEAD!Ctxs
         /\ \A t \in TagSizes : [c EXCEPT !.tag = t] \in AEAD!Ctxs
         /\ \A t \in TagSizes : [c EXCEPT !.tag = t, !.keyed = b] \in AEAD!Ctxs
BY DEF AEAD!Ctxs

(* Every step of a call preserves the invariant.                            *)
LEMMA CCallNext == AEADInv /\ AEAD!CCall => AEADInv'
<1> SUFFICES ASSUME AEADInv, AEAD!CCall PROVE AEADInv'
  OBVIOUS
<1> USE DEF AEADInv
<1>0. /\ evp \in AEAD!Ctxs /\ aead \in [ccm : BOOLEAN, tag : TagSizes]
      /\ TRUE \in BOOLEAN
  BY DEF AEAD!TypeOK
<1>a. sealPc \notin {"idle", "final"} => scratch # "plaintext"
  BY DEF PlaintextHeld
<1>b. \A step \in AEAD!Steps : ~AEAD!MayNotice(step) \/ step = "aad"
  BY DEF AEAD!MayNotice
<1>c. /\ AEAD!AfterAad \in {"data", "final"} /\ (aead.ccm => AEAD!AfterAad = "data")
      /\ AEAD!AfterHint \in {"aad", "data", "final"} /\ (aead.ccm => AEAD!AfterHint # "final")
      /\ AEAD!AfterInit = IF aead.ccm THEN "hint" ELSE AEAD!AfterHint
  BY DEF AEAD!AfterAad, AEAD!AfterHint, AEAD!AfterInit
<1>1. CASE AEAD!NewCtx
  <2>1. CASE AEAD!Succeeds("newctx") /\ AEAD!Proceed("init", evp)
    <3>1. sealPc = "newctx" /\ ~evp.keyed /\ UNCHANGED scratch
      BY <1>1, <2>1 DEF AEAD!Succeeds, Running, AEAD!NewCtx
    <3>2. QED
      BY <1>0, <1>a, <2>1, <3>1, Success DEF AEAD!Steps
  <2>2. CASE AEAD!Fails("newctx") /\ AEAD!NewError
    <3>1. sealPc = "newctx" /\ ~evp.keyed /\ UNCHANGED scratch
      BY <1>1, <2>2 DEF AEAD!Fails, Running, AEAD!NewCtx
    <3>2. ~AEAD!MustFail("newctx") /\ ~AEAD!MayNotice("newctx")
      BY DEF AEAD!MustFail, AEAD!MayNotice
    <3>3. QED
      BY <1>a, <2>2, <3>1, <3>2, FailsWithError DEF AEAD!Steps
  <2>3. QED
    BY <1>1, <2>1, <2>2 DEF AEAD!NewCtx
<1>2. CASE AEAD!InitSizes
  <2>1. sealPc = "init" /\ ~evp.keyed /\ UNCHANGED scratch
    BY <1>2 DEF AEAD!Succeeds, AEAD!Fails, Running, AEAD!InitSizes
  <2>2. CASE /\ AEAD!Succeeds("init") /\ aead.ccm
             /\ AEAD!Proceed("initKey", [evp EXCEPT !.tag = aead.tag])
    <3> DEFINE c == [evp EXCEPT !.tag = aead.tag]
    <3>1. c \in AEAD!Ctxs /\ c.tag = aead.tag /\ c.keyed = evp.keyed
      BY <1>0, CtxSet DEF AEAD!Ctxs
    <3>2. AEAD!Proceed("initKey", c)
      BY <2>2
    <3> HIDE DEF c
    <3>3. QED
      BY <1>a, <2>1, <2>2, <3>1, <3>2, Success DEF AEAD!Steps
  <2>3. CASE /\ AEAD!Succeeds("init") /\ ~aead.ccm
             /\ AEAD!Proceed(AEAD!AfterInit, [evp EXCEPT !.tag = aead.tag, !.keyed = TRUE])
    <3> DEFINE c == [evp EXCEPT !.tag = aead.tag, !.keyed = TRUE]
    <3>1. c \in AEAD!Ctxs /\ c.tag = aead.tag
      BY <1>0, CtxSet DEF AEAD!Ctxs
    <3>2. AEAD!Proceed(AEAD!AfterInit, c) /\ AEAD!AfterInit \in {"aad", "data", "final"}
      BY <1>c, <2>3
    <3> HIDE DEF c
    <3>3. QED
      BY <1>a, <2>1, <2>3, <3>1, <3>2, Success DEF AEAD!Steps
  <2>4. CASE AEAD!Fails("init") /\ AEAD!NewError
    <3>1. ~AEAD!MustFail("init") /\ ~AEAD!MayNotice("init")
      BY DEF AEAD!MustFail, AEAD!MayNotice
    <3>2. QED
      BY <1>a, <2>1, <2>4, <3>1, FailsWithError DEF AEAD!Steps
  <2>5. QED
    BY <1>2, <2>2, <2>3, <2>4 DEF AEAD!InitSizes
<1>3. CASE AEAD!InitKey
  <2>1. sealPc = "initKey" /\ aead.ccm /\ ~evp.keyed /\ evp.tag = aead.tag /\ UNCHANGED scratch
    BY <1>3 DEF AEAD!Succeeds, AEAD!Fails, Running, AEAD!InitKey
  <2>2. CASE /\ AEAD!Succeeds("initKey")
             /\ AEAD!Proceed(AEAD!AfterInit, [evp EXCEPT !.keyed = TRUE])
    <3> DEFINE c == [evp EXCEPT !.keyed = TRUE]
    <3>1. c \in AEAD!Ctxs /\ c.tag = evp.tag
      BY <1>0, CtxSet DEF AEAD!Ctxs
    <3>2. AEAD!Proceed("hint", c)
      BY <1>c, <2>1, <2>2
    <3> HIDE DEF c
    <3>3. QED
      BY <1>a, <2>1, <2>2, <3>1, <3>2, Success DEF AEAD!Steps
  <2>3. CASE AEAD!Fails("initKey") /\ AEAD!NewError
    <3>1. ~AEAD!MustFail("initKey") /\ ~AEAD!MayNotice("initKey")
      BY DEF AEAD!MustFail, AEAD!MayNotice
    <3>2. QED
      BY <1>a, <2>1, <2>3, <3>1, FailsWithError DEF AEAD!Steps
  <2>4. QED
    BY <1>3, <2>2, <2>3 DEF AEAD!InitKey
<1>4. CASE AEAD!LengthHint
  <2>1. sealPc = "hint" /\ aead.ccm /\ evp.tag = aead.tag /\ UNCHANGED scratch
    BY <1>4 DEF AEAD!Succeeds, AEAD!Fails, Running, AEAD!LengthHint
  <2>2. CASE /\ AEAD!Succeeds("hint")
             /\ AEAD!Proceed(AEAD!AfterHint, [evp EXCEPT !.hinted = TRUE])
    <3> DEFINE c == [evp EXCEPT !.hinted = TRUE]
    <3>1. c \in AEAD!Ctxs /\ c.tag = evp.tag /\ c.hinted
      BY <1>0, CtxSet DEF AEAD!Ctxs
    <3>2. AEAD!Proceed(AEAD!AfterHint, c) /\ AEAD!AfterHint \in {"aad", "data"}
      BY <1>c, <2>1, <2>2
    <3> HIDE DEF c
    <3>3. QED
      BY <1>a, <2>1, <2>2, <3>1, <3>2, Success DEF AEAD!Steps
  <2>3. CASE AEAD!Fails("hint") /\ AEAD!opening /\ AEAD!Verification
    BY <1>a, <2>1, <2>3, FailsVerification DEF AEAD!Steps
  <2>4. CASE AEAD!Fails("hint") /\ ~AEAD!opening /\ AEAD!NewError
    BY <1>a, <2>1, <2>4, FailsWithError DEF AEAD!Steps
  <2>5. QED
    BY <1>4, <2>2, <2>3, <2>4 DEF AEAD!LengthHint
<1>5. CASE AEAD!Aad
  <2>1. /\ sealPc = "aad" /\ evp.tag = aead.tag /\ (aead.ccm => evp.hinted)
        /\ UNCHANGED scratch
    BY <1>5 DEF AEAD!Succeeds, AEAD!Fails, Running, AEAD!Aad
  <2>2. CASE AEAD!Succeeds("aad") /\ AEAD!Proceed(AEAD!AfterAad, evp)
    BY <1>0, <1>a, <1>c, <2>1, <2>2, Success DEF AEAD!Steps
  <2>3. CASE AEAD!Fails("aad") /\ AEAD!opening /\ AEAD!Verification
    BY <1>a, <2>1, <2>3, FailsVerification DEF AEAD!Steps
  <2>4. CASE AEAD!Fails("aad") /\ ~(AEAD!opening /\ aead.ccm) /\ AEAD!NewError
    <3>1. ~(AEAD!opening /\ (AEAD!MustFail("aad") \/ AEAD!MayNotice("aad")))
      BY <2>4 DEF AEAD!MustFail, AEAD!MayNotice
    <3>2. QED
      BY <1>a, <2>1, <2>4, <3>1, FailsWithError DEF AEAD!Steps
  <2>5. QED
    BY <1>5, <2>2, <2>3, <2>4 DEF AEAD!Aad
<1>6. CASE AEAD!Data
  <2>1. /\ sealPc = "data" /\ evp.tag = aead.tag /\ (aead.ccm => evp.hinted)
        /\ scratch # "plaintext"
    BY <1>6, <1>a DEF AEAD!Succeeds, AEAD!Fails, Running, AEAD!Data
  <2>2. CASE /\ AEAD!Succeeds("data")
             /\ AEAD!Proceed("final", [evp EXCEPT !.tagReady = TRUE])
             /\ scratch' = IF AEAD!opening /\ sealCall.body THEN "plaintext" ELSE scratch
    <3> DEFINE c == [evp EXCEPT !.tagReady = TRUE]
    <3>1. c \in AEAD!Ctxs /\ c.tag = evp.tag /\ c.hinted = evp.hinted /\ c.tagReady
      BY <1>0, CtxSet DEF AEAD!Ctxs
    <3>2. aead.ccm /\ AEAD!opening => sealCall.intact
      BY <2>2 DEF AEAD!Succeeds, AEAD!MustFail, AEAD!Mismatch
    <3>3. AEAD!Proceed("final", c)
      BY <2>2
    <3>4. \/ UNCHANGED scratch /\ scratch # "plaintext"
          \/ scratch' \in {"none", "plaintext", "zeroed"} /\ AEAD!opening
      BY <2>1, <2>2
    <3> HIDE DEF c
    <3>5. QED
      BY <2>1, <2>2, <3>1, <3>2, <3>3, <3>4, Success DEF AEAD!Steps
  <2>3. CASE AEAD!Fails("data") /\ ~AEAD!opening /\ AEAD!NewError /\ UNCHANGED scratch
    BY <2>1, <2>3, FailsWithError DEF AEAD!Steps
  <2>4. CASE AEAD!Fails("data") /\ AEAD!opening /\ AEAD!Verification /\ scratch' = "zeroed"
    BY <2>1, <2>4, FailsVerification DEF AEAD!Steps
  <2>5. CASE /\ AEAD!Fails("data") /\ AEAD!opening /\ ~aead.ccm /\ AEAD!ErasedError
             /\ scratch' = "zeroed"
    <3>1. ~AEAD!MustFail("data") /\ ~AEAD!MayNotice("data")
      BY <2>5 DEF AEAD!MustFail, AEAD!MayNotice
    <3>2. QED
      BY <2>1, <2>5, <3>1, Failure DEF AEAD!Steps, AEAD!ErasedError
  <2>6. QED
    BY <1>6, <2>2, <2>3, <2>4, <2>5 DEF AEAD!Data
<1>7. CASE AEAD!Final
  <2>1. /\ sealPc = "final" /\ evp.tag = aead.tag /\ (aead.ccm => evp.hinted /\ evp.tagReady)
        /\ (~AEAD!opening => scratch # "plaintext")
    BY <1>7 DEF AEAD!Succeeds, AEAD!Fails, Running, AEAD!Final, PlaintextHeld
  <2>2. CASE /\ AEAD!Succeeds("final") /\ AEAD!opening
             /\ AEAD!ReturnWith("ok", {}, sealQueue) /\ UNCHANGED scratch
    BY <2>2, Ending
  <2>3. CASE /\ AEAD!Succeeds("final") /\ ~AEAD!opening /\ UNCHANGED scratch
             /\ AEAD!Proceed("tag", [evp EXCEPT !.tagReady = evp.tagReady \/ ~aead.ccm])
    <3>1. evp.tagReady \/ ~aead.ccm
      BY <1>0, <2>1
    <3> DEFINE c == [evp EXCEPT !.tagReady = TRUE]
    <3>2. c \in AEAD!Ctxs /\ c.tag = evp.tag /\ c.hinted = evp.hinted /\ c.tagReady
      BY <1>0, CtxSet, ZenonT(40) DEF AEAD!Ctxs
    <3>3. (evp.tagReady \/ ~aead.ccm) = TRUE
      BY <3>1
    <3>4. AEAD!Proceed("tag", c)
      BY <2>3, <3>3
    <3> HIDE DEF c
    <3>5. AEAD!Succeeds("final") /\ ~AEAD!opening /\ UNCHANGED scratch
      BY <2>3
    <3>6. c.tag = aead.tag /\ (aead.ccm => c.hinted) /\ scratch # "plaintext"
      BY <2>1, <3>2, <3>5
    <3>7. QED
      BY <3>2, <3>4, <3>5, <3>6, Success DEF AEAD!Steps
  <2>4. CASE AEAD!Fails("final") /\ AEAD!opening /\ AEAD!Verification /\ scratch' = "zeroed"
    BY <2>1, <2>4, FailsVerification DEF AEAD!Steps
  <2>5. CASE AEAD!Fails("final") /\ ~AEAD!opening /\ AEAD!NewError /\ UNCHANGED scratch
    BY <2>1, <2>5, FailsWithError DEF AEAD!Steps
  <2>6. QED
    BY <1>7, <2>2, <2>3, <2>4, <2>5 DEF AEAD!Final
<1>8. CASE AEAD!GetTag
  <2>1. sealPc = "tag" /\ ~AEAD!opening /\ UNCHANGED scratch
    BY <1>8 DEF AEAD!Succeeds, AEAD!Fails, Running, AEAD!GetTag
  <2>2. CASE AEAD!Succeeds("tag") /\ AEAD!ReturnWith("ok", {}, sealQueue)
    BY <2>1, <2>2, Ending
  <2>3. CASE AEAD!Fails("tag") /\ AEAD!NewError
    BY <1>a, <2>1, <2>3, FailsWithError DEF AEAD!Steps
  <2>4. QED
    BY <1>8, <2>2, <2>3 DEF AEAD!GetTag
<1>9. QED
  BY <1>1, <1>2, <1>3, <1>4, <1>5, <1>6, <1>7, <1>8 DEF AEAD!CCall

(* Beginning a call, and what other calls do to the queue between two,      *)
(* preserve the invariant.                                                  *)
LEMMA BetweenCalls ==
  AEADInv /\ ((\E c \in AEAD!Calls : AEAD!Begin(c)) \/ AEAD!OtherFailure) => AEADInv'
<1> USE DEF AEADInv
<1>1. ASSUME AEADInv, NEW c \in AEAD!Calls, AEAD!Begin(c) PROVE AEADInv'
  <2>1. /\ sealPc = "idle" /\ sealCall' = c /\ fault' = FALSE /\ scratch' = "none"
        /\ evp' = AEAD!FreshCtx /\ UNCHANGED aead
    BY <1>1 DEF AEAD!Begin
  <2>2. /\ evp' \in AEAD!Ctxs /\ ~evp'.keyed /\ fault' \in BOOLEAN
    <3>1. FALSE \in BOOLEAN
      OBVIOUS
    <3>2. QED
      BY <2>1, <3>1 DEF AEAD!FreshCtx, AEAD!DefaultTag, AEAD!Ctxs
  <2>3. CASE ~c.nonceFits
    <3>1. /\ sealReply' = [verdict |-> "badArgs", entries |-> {}]
          /\ UNCHANGED <<sealPc, sealQueue>>
      BY <1>1, <2>3 DEF AEAD!Begin
    <3>2. ~AEAD!argsFit'
      BY <2>1, <2>3 DEF AEAD!argsFit
    <3>3. AEAD!TypeOK'
      BY <1>1, <2>1, <2>2, <3>1 DEF AEAD!TypeOK, AEAD!Verdicts
    <3>4. QED
      BY <1>1, <2>1, <3>1, <3>2, <3>3
         DEF Running, PlaintextHeld, Answers, AEAD!Authentic, AEAD!Accepts, AEAD!OneVerdict,
             AEAD!SealDiagnosed
  <2>4. CASE c.nonceFits /\ c.op = "open" /\ ~c.tagFits
    <3>1. /\ sealReply' = [verdict |-> "ErrVerification", entries |-> {}]
          /\ UNCHANGED <<sealPc, sealQueue>>
      BY <1>1, <2>4 DEF AEAD!Begin
    <3>2. ~AEAD!argsFit'
      BY <2>1, <2>4 DEF AEAD!argsFit, AEAD!opening
    <3>3. AEAD!TypeOK'
      BY <1>1, <2>1, <2>2, <3>1 DEF AEAD!TypeOK, AEAD!Verdicts
    <3>4. QED
      BY <1>1, <2>1, <3>1, <3>2, <3>3
         DEF Running, PlaintextHeld, Answers, AEAD!Authentic, AEAD!Accepts, AEAD!OneVerdict,
             AEAD!SealDiagnosed
  <2>5. CASE c.nonceFits /\ ~(c.op = "open" /\ ~c.tagFits)
    <3>1. /\ sealReply' = [verdict |-> "none", entries |-> {}]
          /\ sealPc' = "newctx" /\ sealQueue' = {}
      BY <1>1, <2>5 DEF AEAD!Begin
    <3>2. AEAD!argsFit'
      BY <2>1, <2>5 DEF AEAD!argsFit, AEAD!opening
    <3>3. AEAD!TypeOK'
      BY <1>1, <2>1, <2>2, <3>1 DEF AEAD!TypeOK, AEAD!Verdicts, AEAD!Steps
    <3>4. Running' /\ PlaintextHeld'
      BY <2>1, <2>2, <3>1, <3>2 DEF Running, PlaintextHeld
    <3>5. QED
      BY <3>1, <3>3, <3>4, UnansweredNext
  <2>6. QED
    BY <2>3, <2>4, <2>5
<1>2. ASSUME AEADInv, AEAD!OtherFailure PROVE AEADInv'
  <2>1. /\ UNCHANGED <<aead, sealCall, sealPc, evp, scratch, sealReply, fault>>
        /\ sealPc = "idle" /\ sealQueue' = sealQueue \cup {"stale"}
    BY <1>2 DEF AEAD!OtherFailure
  <2>2. AEAD!TypeOK'
    BY <1>2, <2>1 DEF AEAD!TypeOK, AEAD!Entries
  <2>3. QED
    BY <1>2, <2>1, <2>2
       DEF Running, PlaintextHeld, Answers, AEAD!Authentic, AEAD!Accepts, AEAD!OneVerdict,
           AEAD!SealDiagnosed, AEAD!returned, AEAD!argsFit, AEAD!opening
<1>3. QED
  BY <1>1, <1>2

(* Every step of AEAD messages preserves the invariant.                     *)
LEMMA AEADNext == AEADInv /\ [AEAD!Next]_aeadVars => AEADInv'
<1>1. AEADInv /\ UNCHANGED aeadVars => AEADInv'
  BY DEF aeadVars, AEADInv, AEAD!TypeOK, Running, PlaintextHeld, Answers, AEAD!Authentic,
         AEAD!Accepts, AEAD!OneVerdict, AEAD!SealDiagnosed, AEAD!returned, AEAD!argsFit,
         AEAD!opening
<1>2. QED
  BY <1>1, CCallNext, BetweenCalls DEF AEAD!Next

(* AEAD messages keep their invariant whatever the subject.                 *)
THEOREM AEADInvariance == CallsSpec => []AEADInv
<1>1. CallsInit => AEADInv
  BY AEADInit DEF CallsInit
<1>2. AEADInv /\ [CallsNext]_callsVars => AEADInv'
  BY AEADNext, AEADProjection
<1>3. QED
  BY <1>1, <1>2, PTL DEF CallsSpec, callsVars

(* Open returns plaintext only for what Seal made: in every mode and for    *)
(* every tag length some C call has checked the tag (cipher.go:345-372).    *)
THEOREM OpenIsAuthentic == CallsSpec => []Authentic
<1>1. AEADInv => Authentic
  BY DEF AEADInv, Answers, Authentic
<1>2. QED
  BY <1>1, AEADInvariance, PTL

(* With no fault in the library Seal succeeds and Open accepts what Seal    *)
(* made, for every tag length (cipher.go).                                  *)
THEOREM OpenAccepts == CallsSpec => []Accepts
<1>1. AEADInv => Accepts
  BY DEF AEADInv, Answers, Accepts
<1>2. QED
  BY <1>1, AEADInvariance, PTL

(* A rejected Open says nothing of where (cipher.go:347), a failed Seal     *)
(* carries its own entries, and no failed Open leaves plaintext behind.     *)
THEOREM OpenTellsNothing ==
  CallsSpec => [](AEAD!OneVerdict /\ AEAD!SealDiagnosed /\ AEAD!PlaintextWiped)
<1>1. AEADInv => AEAD!OneVerdict /\ AEAD!SealDiagnosed /\ AEAD!PlaintextWiped
  BY DEF AEADInv, Answers, PlaintextHeld, AEAD!PlaintextWiped, AEAD!returned
<1>2. QED
  BY <1>1, AEADInvariance, PTL
=============================================================================

------------------------------- MODULE KeyProofs -------------------------------
(***************************************************************************)
(* Of the subjects of MCCalls: asymmetric operations (KeyCall), keys in    *)
(* and out of encodings (KeyCodec), and keys by URI (StoreWalk).           *)
(***************************************************************************)
EXTENDS MessageProofs

(* To each of the three a step of MCCalls is a step of its own or a stutter.*)
LEMMA KeyProjection ==
  [CallsNext]_callsVars => /\ [Asym!Next]_keyVars
                           /\ [Code!Next]_codecVars
                           /\ [Walk!Next]_walkVars
BY DEF CallsNext, callsVars, Of

-----------------------------------------------------------------------------
(* KeyCall.                                                                 *)

(* What is allocated, and who must free the label, is decided by the C call *)
(* that is next; no path frees twice or aborts.                             *)
KeyHoldings ==
  /\ ~doubleFree
  /\ keyPc.at # "aborted"
  /\ keyPc.at \in {"idle", "ctx"} => keyLive = {} /\ labelOwner = "nobody"
  /\ keyPc.at \in {"init", "options", "label", "peer"} =>
       keyLive = {"ctx"} /\ labelOwner = "nobody"
  /\ keyPc.at = "setLabel" => keyLive = {"ctx", "label"} /\ labelOwner = "go"
  /\ keyPc.at \in {"size", "run"} =>
       IF Asym!Labelled(keyPc.call) THEN keyLive = {"ctx", "label"} /\ labelOwner = "ctx"
       ELSE keyLive = {"ctx"} /\ labelOwner = "nobody"

(* A call under way was not one to refuse, and is at a C call it makes.     *)
KeyStage ==
  keyPc.at \in Asym!Steps =>
    /\ ~Asym!Refused(keyPc.call)
    /\ keyPc.at \in {"label", "setLabel"} => Asym!Labelled(keyPc.call)
    /\ keyPc.at = "peer" => keyPc.call.op = "Derive"

KeyInv ==
  Asym!TypeOK /\ KeyHoldings /\ KeyStage /\ Asym!OneRejection /\ Asym!SecretsWiped

(* The pc is a call and its next step, or one of the two other records.     *)
LEMMA KeyPc ==
  Asym!TypeOK => /\ keyPc.at \in Asym!Steps \cup {"idle", "aborted"}
                 /\ keyPc.at \in Asym!Steps => keyPc \in [at : Asym!Steps, call : Asym!Calls]
                 /\ keyPc.at = "idle" <=> keyPc = Asym!Idle
                 /\ keyPc.at = "aborted" <=> keyPc = Asym!Aborted
BY DEF Asym!TypeOK, Asym!Idle, Asym!Aborted, Asym!Steps

(* The same after a step.                                                   *)
LEMMA KeyPcNext ==
  Asym!TypeOK' => /\ (keyPc.at)' \in Asym!Steps \cup {"idle", "aborted"}
                  /\ (keyPc.at)' = "idle" <=> keyPc' = Asym!Idle
                  /\ (keyPc.at)' = "aborted" <=> keyPc' = Asym!Aborted
BY DEF Asym!TypeOK, Asym!Idle, Asym!Aborted, Asym!Steps

(* The initial states satisfy the invariant.                                *)
LEMMA KeyInit == Asym!Init => KeyInv
<1> SUFFICES ASSUME Asym!Init PROVE KeyInv
  OBVIOUS
<1>1. FALSE \in BOOLEAN /\ keyPc.at = "idle"
  BY DEF Asym!Init, Asym!Idle
<1>2. Asym!TypeOK
  BY <1>1 DEF Asym!Init, Asym!TypeOK, Asym!Entries
<1>3. KeyHoldings /\ KeyStage
  BY <1>1 DEF KeyHoldings, KeyStage, Asym!Init, Asym!Steps
<1>4. Asym!OneRejection /\ Asym!SecretsWiped
  BY DEF Asym!Init, Asym!OneRejection, Asym!SecretsWiped, Asym!Answered
<1>5. QED
  BY <1>2, <1>3, <1>4 DEF KeyInv

(* While a call is under way nothing has been answered.                     *)
LEMMA KeyUnanswered ==
  Asym!TypeOK' /\ (keyPc.at)' # "idle" => (Asym!OneRejection /\ Asym!SecretsWiped)'
BY KeyPcNext DEF Asym!OneRejection, Asym!SecretsWiped, Asym!Answered

(* A call that ends releases what it holds, the label by hand only if no    *)
(* context took it; and its answer is one that OneRejection allows.         *)
LEMMA KeyAnswer ==
  ASSUME KeyInv, keyPc.at \in Asym!Steps,
         NEW hand, hand = (IF keyPc.at = "setLabel" THEN {"label"} ELSE {}),
         Asym!Release(hand),
         NEW o \in Asym!Outcomes, NEW d \in SUBSET Asym!Entries,
         NEW s \in Asym!Steps \cup {"none"}, Asym!Answer(o, d, s),
         keyQueue' \subseteq Asym!Entries,
         secret' \in {"none", "partial", "zeroed", "returned"},
         s \in {"size", "run"} /\ keyPc.call.op \in Asym!Decrypts =>
           o = "ErrVerification" /\ d = {} /\ keyQueue' = {},
         s = "run" /\ keyPc.call.op \in Asym!Decrypts \cup {"Decapsulate", "Derive"} =>
           secret' = "zeroed"
  PROVE  KeyInv'
<1>1. /\ keyPc' = Asym!Idle /\ (keyPc.at)' = "idle"
      /\ result' = [call |-> keyPc.call, outcome |-> o, detail |-> d, failedIn |-> s]
  BY DEF Asym!Answer, Asym!Idle
<1>2. keyPc.call \in Asym!Calls
  BY KeyPc DEF KeyInv
<1>3. keyLive' = {} /\ labelOwner' = "nobody" /\ ~doubleFree'
  <2>1. CASE keyPc.at = "setLabel"
    BY <2>1 DEF KeyInv, KeyHoldings, Asym!Release, Asym!Frees
  <2>2. CASE keyPc.at # "setLabel"
    <3>1. Asym!Frees(hand) = keyLive
      BY <2>2 DEF KeyInv, KeyHoldings, Asym!Frees, Asym!Steps
    <3>2. QED
      BY <2>2, <3>1 DEF KeyInv, KeyHoldings, Asym!Release
  <2>3. QED
    BY <2>1, <2>2
<1>4. Asym!TypeOK'
  <2>1. result' \in [call : Asym!Calls, outcome : Asym!Outcomes, detail : SUBSET Asym!Entries,
                     failedIn : Asym!Steps \cup {"none"}]
    BY <1>1, <1>2
  <2>2. doubleFree' \in BOOLEAN
    BY DEF KeyInv, Asym!TypeOK, Asym!Release
  <2>3. QED
    BY <1>1, <1>3, <2>1, <2>2 DEF Asym!TypeOK
<1>5. KeyHoldings' /\ KeyStage'
  BY <1>1, <1>3 DEF KeyHoldings, KeyStage, Asym!Steps
<1>6. (Asym!OneRejection /\ Asym!SecretsWiped)'
  BY <1>1 DEF Asym!OneRejection, Asym!SecretsWiped
<1>7. QED
  BY <1>4, <1>5, <1>6 DEF KeyInv

(* A C call that fails into newError.                                       *)
LEMMA KeyFails ==
  ASSUME KeyInv, keyPc.at \in Asym!Steps \ {"size", "run"},
         NEW hand, hand = (IF keyPc.at = "setLabel" THEN {"label"} ELSE {}),
         Asym!NewError({"own"}, hand, keyPc.at)
  PROVE  KeyInv'
<1>1. "Error" \in Asym!Outcomes /\ keyQueue \cup {"own"} \in SUBSET Asym!Entries
  BY DEF KeyInv, Asym!TypeOK, Asym!Outcomes, Asym!Entries
<1>2. QED
  BY <1>1, KeyAnswer DEF KeyInv, Asym!TypeOK, Asym!NewError

(* A C call that is followed by another, to, and leaves the label where to  *)
(* expects it.                                                              *)
LEMMA KeyProceeds ==
  ASSUME KeyInv, keyPc.at \in Asym!Steps, NEW to \in Asym!Steps,
         keyPc' = [keyPc EXCEPT !.at = to],
         keyQueue' \subseteq Asym!Entries, UNCHANGED <<doubleFree, secret, result>>,
         to \in {"init", "options", "label", "peer"} =>
           keyLive' = {"ctx"} /\ labelOwner' = "nobody",
         to = "setLabel" => keyLive' = {"ctx", "label"} /\ labelOwner' = "go",
         to \in {"size", "run"} =>
           IF Asym!Labelled(keyPc.call) THEN keyLive' = {"ctx", "label"} /\ labelOwner' = "ctx"
           ELSE keyLive' = {"ctx"} /\ labelOwner' = "nobody",
         to # "ctx",
         to \in {"label", "setLabel"} => Asym!Labelled(keyPc.call),
         to = "peer" => keyPc.call.op = "Derive"
  PROVE  KeyInv'
<1>1. /\ keyPc \in [at : Asym!Steps, call : Asym!Calls]
      /\ keyPc' \in [at : Asym!Steps, call : Asym!Calls]
      /\ (keyPc.at)' = to /\ (keyPc.call)' = keyPc.call
  BY KeyPc DEF KeyInv
<1>2. Asym!TypeOK'
  <2>1. labelOwner' \in {"nobody", "go", "ctx"} /\ keyLive' \subseteq {"ctx", "label"}
    BY DEF Asym!Steps
  <2>2. to \in {"size", "run"} => (labelOwner' = "ctx" <=> Asym!Labelled(keyPc.call))
    OBVIOUS
  <2>3. QED
    BY <1>1, <2>1, <2>2 DEF KeyInv, Asym!TypeOK
<1>3. KeyHoldings'
  BY <1>1 DEF KeyInv, KeyHoldings, Asym!Steps
<1>4. KeyStage'
  BY <1>1 DEF KeyInv, KeyStage
<1>5. (Asym!OneRejection /\ Asym!SecretsWiped)'
  BY <1>1, <1>2, KeyUnanswered DEF Asym!Steps
<1>6. QED
  BY <1>2, <1>3, <1>4, <1>5 DEF KeyInv

(* Every step of an asymmetric operation preserves the invariant.           *)
LEMMA KeyNext == KeyInv /\ [Asym!Next]_keyVars => KeyInv'
<1> SUFFICES ASSUME KeyInv, [Asym!Next]_keyVars PROVE KeyInv'
  OBVIOUS
<1>0. /\ Asym!TypeOK /\ KeyHoldings /\ KeyStage
      /\ keyPc.at \in Asym!Steps \cup {"idle", "aborted"}
      /\ keyPc.at \in Asym!Steps => keyPc.call \in Asym!Calls
      /\ keyPc.at = "idle" <=> keyPc = Asym!Idle
  BY KeyPc DEF KeyInv
<1>q. keyQueue \subseteq Asym!Entries
  BY <1>0 DEF Asym!TypeOK
<1>1. ASSUME NEW c \in Asym!Calls, Asym!Begin(c) PROVE KeyInv'
  <2>1. (keyPc.at)' = "ctx" /\ (keyPc.call)' = c /\ keyPc' \in [at : Asym!Steps, call : Asym!Calls]
    BY <1>1 DEF Asym!Begin, Asym!Steps
  <2>2. Asym!TypeOK'
    BY <1>0, <1>1, <2>1 DEF Asym!TypeOK, Asym!Begin
  <2>3. KeyHoldings' /\ KeyStage'
    BY <1>0, <1>1, <2>1 DEF KeyHoldings, KeyStage, Asym!Begin
  <2>4. QED
    BY <2>1, <2>2, <2>3, KeyUnanswered DEF KeyInv
<1>2. ASSUME NEW c \in Asym!Calls, Asym!Refuse(c) PROVE KeyInv'
  <2>1. /\ UNCHANGED <<keyPc, keyLive, labelOwner, doubleFree, keyQueue, secret>>
        /\ result'.call = c /\ result'.failedIn = "none"
        /\ result' \in [call : Asym!Calls, outcome : Asym!Outcomes, detail : SUBSET Asym!Entries,
                        failedIn : Asym!Steps \cup {"none"}]
    BY <1>2 DEF Asym!Refuse, Asym!Outcomes
  <2>2. Asym!TypeOK'
    BY <1>0, <2>1 DEF Asym!TypeOK
  <2>3. KeyHoldings' /\ KeyStage'
    BY <1>0, <2>1 DEF KeyHoldings, KeyStage
  <2>4. (Asym!OneRejection /\ Asym!SecretsWiped)'
    BY <2>1 DEF Asym!OneRejection, Asym!SecretsWiped
  <2>5. QED
    BY <2>2, <2>3, <2>4 DEF KeyInv
<1>g. ASSUME NEW to, Asym!Goto(to)
      PROVE  keyPc' = [keyPc EXCEPT !.at = to] /\ keyQueue' \subseteq Asym!Entries
  BY <1>q, <1>g DEF Asym!Goto, Asym!Entries
<1>3. ASSUME Asym!NewCtx PROVE KeyInv'
  <2>0. keyPc.at = "ctx" /\ keyPc.at \in Asym!Steps \ {"size", "run"} /\ "init" \in Asym!Steps
    BY <1>3 DEF Asym!NewCtx, Asym!At, Asym!Steps
  <2>1. CASE Asym!NewError({"own"}, {}, "ctx")
    BY <2>0, <2>1, KeyFails
  <2>2. CASE ~Asym!NewError({"own"}, {}, "ctx")
    <3>1. keyLive' = {"ctx"} /\ UNCHANGED <<labelOwner, doubleFree, secret, result>>
          /\ Asym!Goto("init") /\ labelOwner = "nobody"
      BY <1>0, <1>3, <2>0, <2>2 DEF Asym!NewCtx, KeyHoldings
    <3>2. QED
      BY <1>g, <2>0, <3>1, KeyProceeds
  <2>3. QED
    BY <2>1, <2>2
<1>4. ASSUME Asym!InitOp PROVE KeyInv'
  <2>0. keyPc.at = "init" /\ keyPc.at \in Asym!Steps \ {"size", "run"}
    BY <1>4 DEF Asym!InitOp, Asym!At, Asym!Steps
  <2>1. CASE Asym!NewError({"own"}, {}, "init")
    BY <2>0, <2>1, KeyFails
  <2>2. CASE ~Asym!NewError({"own"}, {}, "init")
    <3> DEFINE to == Asym!AfterInit(keyPc.call)
    <3>1. keyLive' = {"ctx"} /\ labelOwner' = "nobody" /\ UNCHANGED <<doubleFree, secret, result>>
          /\ Asym!Goto(to)
      BY <1>0, <1>4, <2>0, <2>2 DEF Asym!InitOp, KeyHoldings
    <3>2. /\ to \in {"peer", "size", "options"}
          /\ to = "peer" => keyPc.call.op = "Derive"
          /\ to = "size" => ~Asym!Labelled(keyPc.call)
      BY DEF Asym!AfterInit, Asym!KEM, Asym!OAEP, Asym!Labelled
    <3> HIDE DEF to
    <3>3. to \in Asym!Steps
      BY <3>2 DEF Asym!Steps
    <3>4. QED
      BY <1>g, <2>0, <3>1, <3>2, <3>3, KeyProceeds
  <2>3. QED
    BY <2>1, <2>2
<1>5. ASSUME Asym!Options PROVE KeyInv'
  <2>0. keyPc.at = "options" /\ keyPc.at \in Asym!Steps \ {"size", "run"}
    BY <1>5 DEF Asym!Options, Asym!At, Asym!Steps
  <2>1. CASE Asym!NewError({"own"}, {}, "options")
    BY <2>0, <2>1, KeyFails
  <2>2. CASE ~Asym!NewError({"own"}, {}, "options")
    <3> DEFINE to == CASE Asym!Labelled(keyPc.call) -> "label"
                       [] keyPc.call.op = "Derive" -> "peer"
                       [] OTHER -> "size"
    <3>1. keyLive' = {"ctx"} /\ labelOwner' = "nobody" /\ UNCHANGED <<doubleFree, secret, result>>
          /\ Asym!Goto(to)
      BY <1>0, <1>5, <2>0, <2>2 DEF Asym!Options, KeyHoldings
    <3>2. /\ to \in {"label", "peer", "size"}
          /\ to = "label" => Asym!Labelled(keyPc.call)
          /\ to = "peer" => keyPc.call.op = "Derive"
          /\ to = "size" => ~Asym!Labelled(keyPc.call)
      BY DEF Asym!OAEP, Asym!Labelled
    <3> HIDE DEF to
    <3>3. to \in Asym!Steps
      BY <3>2 DEF Asym!Steps
    <3>4. QED
      BY <1>g, <2>0, <3>1, <3>2, <3>3, KeyProceeds
  <2>3. QED
    BY <2>1, <2>2
<1>6. ASSUME Asym!CopyLabel PROVE KeyInv'
  <2>0. keyPc.at = "label" /\ keyPc.at \in Asym!Steps /\ "setLabel" \in Asym!Steps
    BY <1>6 DEF Asym!CopyLabel, Asym!At, Asym!Steps
  <2>1. CASE Asym!Answer("refused", {}, "label")
    <3>1. Asym!Release({}) /\ UNCHANGED <<keyQueue, secret>>
      BY <1>6, <2>0, <2>1 DEF Asym!CopyLabel, Asym!Answer, Asym!Goto, Asym!Idle
    <3>2. "refused" \in Asym!Outcomes
      BY DEF Asym!Outcomes
    <3>3. QED
      BY <1>0, <1>q, <2>0, <2>1, <3>1, <3>2, KeyAnswer DEF Asym!TypeOK
  <2>2. CASE ~Asym!Answer("refused", {}, "label")
    <3>1. keyLive' = {"ctx", "label"} /\ labelOwner' = "go"
          /\ UNCHANGED <<doubleFree, secret, result>> /\ Asym!Goto("setLabel")
          /\ Asym!Labelled(keyPc.call)
      BY <1>0, <1>6, <2>0, <2>2 DEF Asym!CopyLabel, KeyHoldings, KeyStage
    <3>2. QED
      BY <1>g, <2>0, <3>1, KeyProceeds
  <2>3. QED
    BY <2>1, <2>2
<1>7. ASSUME Asym!SetLabel PROVE KeyInv'
  <2>0. keyPc.at = "setLabel" /\ keyPc.at \in Asym!Steps \ {"size", "run"} /\ "size" \in Asym!Steps
    BY <1>7 DEF Asym!SetLabel, Asym!At, Asym!Steps
  <2>1. CASE Asym!NewError({"own"}, {"label"}, "setLabel")
    BY <2>0, <2>1, KeyFails
  <2>2. CASE ~Asym!NewError({"own"}, {"label"}, "setLabel")
    <3>1. keyLive' = {"ctx", "label"} /\ labelOwner' = "ctx"
          /\ UNCHANGED <<doubleFree, secret, result>> /\ Asym!Goto("size")
          /\ Asym!Labelled(keyPc.call)
      BY <1>0, <1>7, <2>0, <2>2 DEF Asym!SetLabel, KeyHoldings, KeyStage
    <3>2. QED
      BY <1>g, <2>0, <3>1, KeyProceeds
  <2>3. QED
    BY <2>1, <2>2
<1>8. ASSUME Asym!SetPeer PROVE KeyInv'
  <2>0. /\ keyPc.at = "peer" /\ keyPc.at \in Asym!Steps \ {"size", "run"} /\ "size" \in Asym!Steps
        /\ keyPc.call.type = keyPc.call.peer /\ ~Asym!Labelled(keyPc.call)
    BY <1>0, <1>8
       DEF Asym!SetPeer, Asym!At, Asym!Steps, KeyStage, Asym!Refused, Asym!Labelled, Asym!OAEP
  <2>1. CASE Asym!NewError({"own"}, {}, "peer")
    BY <2>0, <2>1, KeyFails
  <2>2. CASE ~Asym!NewError({"own"}, {}, "peer")
    <3>1. keyLive' = {"ctx"} /\ labelOwner' = "nobody"
          /\ UNCHANGED <<keyQueue, doubleFree, secret, result>>
          /\ keyPc' = [keyPc EXCEPT !.at = "size"]
      BY <1>0, <1>8, <2>0, <2>2 DEF Asym!SetPeer, KeyHoldings
    <3>2. QED
      BY <1>q, <2>0, <3>1, KeyProceeds
  <2>3. QED
    BY <2>1, <2>2
<1>f. ASSUME NEW step \in {"size", "run"}, keyPc.at = step, NEW leaves, Asym!Fail(step, leaves),
             leaves \in {"none", "partial", "zeroed", "returned"},
             step = "run" => leaves = Asym!Leaves(keyPc.call.op)
      PROVE  KeyInv'
  <2> DEFINE d == IF keyPc.call.op \in Asym!Raw THEN {} ELSE keyQueue \cup {"own"}
  <2>0. step \in Asym!Steps /\ {"Error", "ErrVerification"} \subseteq Asym!Outcomes
        /\ keyPc.at \in Asym!Steps /\ keyPc.at # "setLabel"
    BY <1>f DEF Asym!Steps, Asym!Outcomes
  <2>1. Asym!Release({}) /\ keyQueue' = {} /\ secret' = leaves
    BY <1>f DEF Asym!Fail
  <2>2. step = "run" /\ keyPc.call.op \in Asym!Decrypts \cup {"Decapsulate", "Derive"} =>
          secret' = "zeroed"
    BY <1>f, <2>1 DEF Asym!Leaves
  <2>3. CASE keyPc.call.op \in Asym!Decrypts
    <3>1. Asym!Answer("ErrVerification", {}, step)
      BY <1>f, <2>3 DEF Asym!Fail
    <3>2. QED
      BY <1>f, <2>0, <2>1, <2>2, <3>1, KeyAnswer
  <2>4. CASE keyPc.call.op \notin Asym!Decrypts
    <3>1. Asym!Answer("Error", d, step) /\ d \in SUBSET Asym!Entries
      BY <1>f, <1>q, <2>4 DEF Asym!Fail, Asym!Entries
    <3> HIDE DEF d
    <3>2. QED
      BY <1>f, <2>0, <2>1, <2>2, <2>4, <3>1, KeyAnswer
  <2>5. QED
    BY <2>3, <2>4
<1>9. ASSUME Asym!Size PROVE KeyInv'
  <2>0. /\ keyPc.at = "size" /\ keyPc.at \in Asym!Steps /\ "run" \in Asym!Steps
        /\ {"Error", "ok"} \subseteq Asym!Outcomes
        /\ secret \in {"none", "partial", "zeroed", "returned"}
    BY <1>0, <1>9 DEF Asym!Size, Asym!At, Asym!Steps, Asym!Outcomes, Asym!TypeOK
  <2>1. CASE Asym!Goto("run") /\ UNCHANGED <<keyLive, labelOwner, doubleFree, secret, result>>
    <3>1. IF Asym!Labelled(keyPc.call) THEN keyLive' = {"ctx", "label"} /\ labelOwner' = "ctx"
          ELSE keyLive' = {"ctx"} /\ labelOwner' = "nobody"
      BY <1>0, <2>0, <2>1 DEF KeyHoldings
    <3>2. QED
      BY <1>g, <2>0, <2>1, <3>1, KeyProceeds
  <2>2. CASE Asym!Fail("size", secret)
    BY <1>f, <2>0, <2>2
  <2>3. CASE Asym!Release({}) /\ Asym!Answer("ok", {}, "none") /\ UNCHANGED <<keyQueue, secret>>
    BY <1>q, <2>0, <2>3, KeyAnswer
  <2>4. CASE Asym!NewError({}, {}, "none")
    <3>1. /\ Asym!Release({}) /\ Asym!Answer("Error", keyQueue, "none")
          /\ keyQueue' = {} /\ UNCHANGED secret
      BY <2>4 DEF Asym!NewError
    <3>2. QED
      BY <1>q, <2>0, <3>1, KeyAnswer
  <2>5. QED
    BY <1>9, <2>1, <2>2, <2>3, <2>4 DEF Asym!Size
<1>10. ASSUME Asym!Run PROVE KeyInv'
  <2>0. keyPc.at = "run" /\ keyPc.at \in Asym!Steps /\ "ok" \in Asym!Outcomes
    BY <1>10 DEF Asym!Run, Asym!At, Asym!Steps, Asym!Outcomes
  <2>1. CASE Asym!Fail("run", Asym!Leaves(keyPc.call.op))
    BY <1>f, <2>0, <2>1 DEF Asym!Leaves
  <2>2. CASE ~Asym!Fail("run", Asym!Leaves(keyPc.call.op))
    <3>1. /\ Asym!Release({}) /\ Asym!Answer("ok", {}, "none")
          /\ keyQueue' \subseteq Asym!Entries /\ secret' = "returned"
      BY <1>q, <1>10, <2>2 DEF Asym!Run, Asym!Entries
    <3>2. QED
      BY <2>0, <3>1, KeyAnswer
  <2>3. QED
    BY <2>1, <2>2
<1>11. CASE UNCHANGED keyVars
  BY <1>11
     DEF keyVars, KeyInv, Asym!TypeOK, KeyHoldings, KeyStage, Asym!OneRejection,
         Asym!SecretsWiped, Asym!Answered
<1>12. QED
  BY <1>1, <1>2, <1>3, <1>4, <1>5, <1>6, <1>7, <1>8, <1>9, <1>10, <1>11 DEF Asym!Next

(* Asymmetric operations keep their invariant whatever the subject.         *)
THEOREM KeyInvariance == CallsSpec => []KeyInv
<1>1. CallsInit => KeyInv
  BY KeyInit DEF CallsInit
<1>2. KeyInv /\ [CallsNext]_callsVars => KeyInv'
  BY KeyNext, KeyProjection
<1>3. QED
  BY <1>1, <1>2, PTL DEF CallsSpec, callsVars

(* No path of any operation leaks its context, frees the OAEP label twice   *)
(* or not at all, or reaches libcrypto's assertion (asym.go:71-75, 507-521).*)
THEOREM KeyObjectsFreed == CallsSpec => [](Asym!FreedOnce /\ Asym!NeverAborts)
<1>1. KeyInv => Asym!FreedOnce /\ Asym!NeverAborts
  BY KeyPc DEF KeyInv, KeyHoldings, Asym!FreedOnce, Asym!NeverAborts
<1>2. QED
  BY <1>1, KeyInvariance, PTL

(* Whatever is wrong with a ciphertext and wherever it is noticed, the      *)
(* caller is told the same (asym.go:151-156), and what was recovered of the *)
(* secret is wiped.                                                         *)
THEOREM KeyRejectsAlike == CallsSpec => [](Asym!OneRejection /\ Asym!SecretsWiped)
<1>1. KeyInv => Asym!OneRejection /\ Asym!SecretsWiped
  BY DEF KeyInv
<1>2. QED
  BY <1>1, KeyInvariance, PTL

-----------------------------------------------------------------------------
(* KeyCodec.                                                                *)

CodecPcs == [op : {"marshal", "parse", "public"}, form : Code!Forms, ctx : Code!Contexts,
             from : Code!Blobs \cup {Code!None}, at : {"encoder", "data", "decoder", "from data"}]
Gots     == [alg : Code!Algs, part : {"private", "public"}, ctx : Code!Contexts]
CodecKinds == {"ok", "ErrClosed", "refused", "Error"}
CodecReps == [kind : CodecKinds, how : CodecPcs, got : Gots \cup {Code!None}, fault : BOOLEAN]

CodecTypes ==
  /\ key \in Code!Keys /\ Code!Has(key.ctx, key.alg)
  /\ blob \in Code!Blobs \cup {Code!None}
  /\ codecLive \subseteq {"encoder", "data", "decoder", "copy", "pkey"}
  /\ codecPc \in CodecPcs \cup {Code!Idle}
  /\ codecReply \in CodecReps \cup {Code!None}

(* Only keys of the right kind are in a type-specific structure.            *)
BlobSound ==
  blob # Code!None => /\ blob.form = "SEC1" => blob.alg = "EC"
                      /\ blob.form = "PKCS1" => blob.alg = "RSA"

(* A call under way: the caller's key and blob are what it began with, and  *)
(* it holds the encoder or the decoder of its stage.                        *)
CodecStage ==
  codecPc # Code!Idle =>
    /\ codecReply = Code!None
    /\ codecPc.op = "public" => codecPc.form = "SPKI" /\ codecPc.ctx = key.ctx
    /\ codecPc.at \in {"encoder", "data"} =>
         codecPc.op # "parse" /\ key.open /\ ~Code!WrongKind(codecPc.form)
    /\ codecPc.at \in {"decoder", "from data"} =>
         /\ \/ codecPc.op = "parse" /\ blob # Code!None /\ codecPc.from = blob
            \/ codecPc.op = "public" /\ codecPc.from = [alg |-> key.alg, form |-> "SPKI"]
         /\ codecPc.from \in Code!Blobs
    /\ codecLive = IF codecPc.at \in {"encoder", "decoder"} \/ codecPc.form \in Code!Raw THEN {}
                   ELSE IF codecPc.at = "data" THEN {"encoder"} ELSE {"decoder", "copy"}

CodecInv ==
  CodecTypes /\ BlobSound /\ CodecStage /\ Code!EncodingsHonest /\ Code!NothingLeaks

(* A call under way is told from none, a blob and a key from no such thing. *)
LEMMA CodecPc ==
  /\ \A p \in CodecPcs : p # Code!Idle
  /\ \A b \in Code!Blobs : b # Code!None
  /\ \A g \in Gots : g # Code!None
  /\ \A r \in CodecReps : r # Code!None
<1>1. \A p \in CodecPcs : p # Code!Idle
  <2> SUFFICES ASSUME NEW p \in CodecPcs, p = Code!Idle PROVE FALSE
    OBVIOUS
  <2>1. p.op \in {"marshal", "parse", "public"} /\ p.op = "none"
    BY DEF CodecPcs, Code!Idle
  <2>2. QED
    BY <2>1
<1>2. \A b \in Code!Blobs : b # Code!None
  BY DEF Code!Blobs, Code!None
<1>3. \A g \in Gots : g # Code!None
  BY DEF Gots, Code!None
<1>4. \A r \in CodecReps : r # Code!None
  <2> SUFFICES ASSUME NEW r \in CodecReps, r = Code!None PROVE FALSE
    OBVIOUS
  <2>1. DOMAIN r = {"kind", "how", "got", "fault"}
    BY DEF CodecReps
  <2>2. DOMAIN r = {"kind"}
    BY DEF Code!None
  <2>3. QED
    BY <2>1, <2>2
<1>5. QED
  BY <1>1, <1>2, <1>3, <1>4

(* The initial states satisfy the invariant.                                *)
LEMMA CodecInit == Code!Init => CodecInv
BY DEF Code!Init, CodecInv, CodecTypes, BlobSound, CodecStage, Code!EncodingsHonest,
       Code!NothingLeaks

(* A call that goes on, or begins, with the C call its pc says.             *)
LEMMA CodecMoves ==
  ASSUME CodecInv, NEW to \in CodecPcs, codecPc' = to, UNCHANGED <<key, blob>>,
         codecReply' = Code!None,
         to.op = "public" => to.form = "SPKI" /\ to.ctx = key.ctx,
         to.at \in {"encoder", "data"} =>
           to.op # "parse" /\ key.open /\ ~Code!WrongKind(to.form),
         to.at \in {"decoder", "from data"} =>
           /\ \/ to.op = "parse" /\ blob # Code!None /\ to.from = blob
              \/ to.op = "public" /\ to.from = [alg |-> key.alg, form |-> "SPKI"]
           /\ to.from \in Code!Blobs,
         codecLive' = IF to.at \in {"encoder", "decoder"} \/ to.form \in Code!Raw THEN {}
                      ELSE IF to.at = "data" THEN {"encoder"} ELSE {"decoder", "copy"}
  PROVE  CodecInv'
<1>1. CodecTypes' /\ BlobSound'
  BY DEF CodecInv, CodecTypes, BlobSound
<1>2. CodecStage'
  BY DEF CodecStage, Code!WrongKind
<1>3. (Code!EncodingsHonest /\ Code!NothingLeaks)'
  BY CodecPc DEF Code!EncodingsHonest, Code!NothingLeaks
<1>4. QED
  BY <1>1, <1>2, <1>3 DEF CodecInv

(* A call that is answered, or refused at once.                             *)
LEMMA CodecReplies ==
  ASSUME CodecInv, codecPc' = Code!Idle, UNCHANGED key,
         NEW how \in CodecPcs, NEW kind \in CodecKinds,
         NEW got2 \in Gots \cup {Code!None}, NEW f \in BOOLEAN, Code!Reply(how, kind, got2, f),
         blob' \in Code!Blobs \cup {Code!None}, BlobSound',
         codecLive' = IF got2 # Code!None THEN {"pkey"} ELSE {},
         how.op = "marshal" /\ kind = "ok" => blob' = [alg |-> key.alg, form |-> how.form],
         how.op = "parse" /\ kind = "ok" =>
           got2 = [alg |-> blob'.alg, part |-> Code!Half(blob'.form), ctx |-> how.ctx],
         how.op = "parse" /\ how.form = blob'.form /\ Code!Has(how.ctx, blob'.alg) /\ ~f =>
           kind = "ok",
         how.op = "public" /\ kind # "ErrClosed" /\ ~f =>
           got2 = [alg |-> key.alg, part |-> "public", ctx |-> key.ctx]
  PROVE  CodecInv'
<1> DEFINE r == [kind |-> kind, how |-> how, got |-> got2, fault |-> f]
<1>1. codecReply' = r
  BY DEF Code!Reply
<1>2. /\ r \in CodecReps /\ r # Code!None
      /\ r.kind = kind /\ r.how = how /\ r.got = got2 /\ r.fault = f
  BY CodecPc DEF CodecReps
<1> HIDE DEF r
<1>3. CodecTypes'
  BY <1>1, <1>2 DEF CodecInv, CodecTypes
<1>4. CodecStage'
  BY DEF CodecStage
<1>5. Code!EncodingsHonest'
  BY <1>1, <1>2 DEF Code!EncodingsHonest
<1>6. Code!NothingLeaks'
  BY <1>1, <1>2 DEF Code!NothingLeaks
<1>7. QED
  BY <1>3, <1>4, <1>5, <1>6 DEF CodecInv

(* The start of an encoding: refused for the kind of key, for a closed Key, *)
(* or begun.                                                                *)
LEMMA CodecMarshal ==
  ASSUME CodecInv, NEW op \in {"marshal", "public"}, NEW form \in Code!Forms,
         op = "public" => form = "SPKI", Code!Marshal(op, form)
  PROVE  CodecInv'
<1> DEFINE how == [op |-> op, form |-> form, ctx |-> key.ctx, from |-> Code!None, at |-> "encoder"]
<1>1. /\ how \in CodecPcs /\ how.op = op /\ how.form = form /\ how.ctx = key.ctx
      /\ how.at = "encoder"
  BY DEF CodecInv, CodecTypes, CodecPcs, Code!Keys
<1>2. /\ codecPc = Code!Idle /\ codecReply = Code!None /\ UNCHANGED <<key, blob, codecLive>>
      /\ codecLive = {}
  BY DEF Code!Marshal, Code!Free, CodecInv, Code!NothingLeaks
<1>3. \/ /\ Code!WrongKind(form)
         /\ Code!Reply(how, "refused", Code!None, FALSE) /\ UNCHANGED codecPc
      \/ /\ ~key.open
         /\ Code!Reply(how, "ErrClosed", Code!None, FALSE) /\ UNCHANGED codecPc
      \/ /\ ~Code!WrongKind(form) /\ key.open
         /\ codecPc' = how /\ UNCHANGED codecReply
  BY DEF Code!Marshal
<1>4. /\ blob' \in Code!Blobs \cup {Code!None} /\ BlobSound' /\ FALSE \in BOOLEAN
      /\ {"refused", "ErrClosed"} \subseteq CodecKinds
  BY <1>2 DEF CodecInv, CodecTypes, BlobSound, CodecKinds
<1> HIDE DEF how
<1>5. CASE codecPc' = how /\ ~Code!WrongKind(form) /\ key.open /\ UNCHANGED codecReply
  BY <1>1, <1>2, <1>5, CodecMoves
<1>6. CASE Code!Reply(how, "refused", Code!None, FALSE) /\ UNCHANGED codecPc /\ Code!WrongKind(form)
  <2>1. op = "marshal"
    BY <1>6 DEF Code!WrongKind
  <2>2. QED
    BY <1>1, <1>2, <1>4, <1>6, <2>1, CodecReplies
<1>7. CASE Code!Reply(how, "ErrClosed", Code!None, FALSE) /\ UNCHANGED codecPc
  BY <1>1, <1>2, <1>4, <1>7, CodecReplies
<1>8. QED
  BY <1>3, <1>5, <1>6, <1>7

(* A call that fails through no fault of its argument, and holds nothing.   *)
LEMMA CodecFails ==
  ASSUME CodecInv, codecPc # Code!Idle, codecPc' = Code!Idle, UNCHANGED <<key, blob>>,
         codecLive' = {}, Code!Reply(codecPc, "Error", Code!None, TRUE)
  PROVE  CodecInv'
<1>1. codecPc \in CodecPcs /\ blob' \in Code!Blobs \cup {Code!None} /\ BlobSound'
  BY DEF CodecInv, CodecTypes, BlobSound
<1>2. "Error" \in CodecKinds /\ TRUE \in BOOLEAN
  BY DEF CodecKinds
<1>3. QED
  BY <1>1, <1>2, CodecReplies

(* What is encoded of a key that has passed the check on its kind: the      *)
(* structure that was asked for and no other; of SPKI, always.              *)
LEMMA EncodedForm ==
  ASSUME key \in Code!Keys, NEW form \in Code!Forms, ~Code!WrongKind(form)
  PROVE  /\ Code!Encoded(form) \in {{}, {[alg |-> key.alg, form |-> form]}}
         /\ form = "SPKI" => Code!Encoded(form) # {}
         /\ form = "SEC1" => key.alg = "EC"
         /\ form = "PKCS1" => key.alg = "RSA"
<1>1. Code!Structure(form) = {form}
  BY DEF Code!Structure, Code!WrongKind
<1>2. QED
  BY <1>1 DEF Code!Encoded, Code!WrongKind, Code!PrivateForms, Code!Raw

(* The C calls of encoding and decoding.                                    *)
LEMMA CodecCCalls ==
  CodecInv /\ (Code!NewEncoder \/ Code!ToData \/ Code!NewDecoder \/ Code!FromData) => CodecInv'
<1> SUFFICES ASSUME CodecInv, codecPc # Code!Idle,
                    Code!NewEncoder \/ Code!ToData \/ Code!NewDecoder \/ Code!FromData
             PROVE  CodecInv'
  BY DEF Code!NewEncoder, Code!ToData, Code!NewDecoder, Code!FromData
<1>0. /\ codecPc \in CodecPcs /\ codecPc.form \in Code!Forms /\ codecPc.ctx \in Code!Contexts
      /\ codecReply = Code!None /\ key \in Code!Keys
      /\ key.alg \in Code!Algs /\ key.ctx \in Code!Contexts
      /\ CodecTypes /\ CodecStage /\ BlobSound
      /\ {"ok", "Error"} \subseteq CodecKinds
  BY DEF CodecInv, CodecTypes, CodecStage, CodecPcs, CodecKinds, Code!Keys
<1>n. Code!None \notin Code!Blobs /\ Code!None \notin Gots
  BY CodecPc
<1>1. CASE Code!NewEncoder
  <2>1. codecPc.at = "encoder" /\ codecLive = {} /\ UNCHANGED <<key, blob>>
    BY <1>0, <1>1 DEF Code!NewEncoder, CodecStage
  <2>2. CASE codecPc' = Code!Idle /\ Code!Reply(codecPc, "Error", Code!None, TRUE)
               /\ UNCHANGED codecLive
    BY <2>1, <2>2, CodecFails
  <2>3. CASE codecPc' = [codecPc EXCEPT !.at = "data"] /\ UNCHANGED codecReply
               /\ codecLive' = (IF codecPc.form \in Code!Raw THEN codecLive
                                ELSE codecLive \cup {"encoder"})
    <3> DEFINE to == [codecPc EXCEPT !.at = "data"]
    <3>1. /\ to \in CodecPcs /\ to.at = "data" /\ to.op = codecPc.op
          /\ to.form = codecPc.form /\ to.ctx = codecPc.ctx
      BY <1>0 DEF CodecPcs
    <3>2. codecPc' = to
      BY <2>3
    <3> HIDE DEF to
    <3>3. /\ to.op = "public" => to.form = "SPKI" /\ to.ctx = key.ctx
          /\ to.op # "parse" /\ key.open /\ ~Code!WrongKind(to.form)
      BY <1>0, <2>1, <3>1 DEF CodecStage
    <3>4. QED
      BY <1>0, <2>1, <2>3, <3>1, <3>2, <3>3, CodecMoves
  <2>4. QED
    BY <1>1, <2>2, <2>3 DEF Code!NewEncoder
<1>2. CASE Code!ToData
  <2>1. /\ codecPc.at = "data" /\ codecLive' = {} /\ UNCHANGED key
        /\ codecPc.op # "parse" /\ ~Code!WrongKind(codecPc.form)
        /\ codecPc.op = "public" => codecPc.form = "SPKI" /\ codecPc.ctx = key.ctx
    BY <1>0, <1>2 DEF Code!ToData, CodecStage
  <2> DEFINE b == [alg |-> key.alg, form |-> codecPc.form]
  <2>2. /\ b \in Code!Blobs /\ b # Code!None /\ b.alg = key.alg /\ b.form = codecPc.form
        /\ b.form = "SEC1" => b.alg = "EC"
        /\ b.form = "PKCS1" => b.alg = "RSA"
    BY <1>0, <1>n, <2>1, EncodedForm DEF Code!Blobs
  <2>3. /\ Code!Encoded(codecPc.form) \in {{}, {b}}
        /\ codecPc.form = "SPKI" => Code!Encoded(codecPc.form) # {}
    BY <1>0, <2>1, EncodedForm
  <2>4. PICK res \in {{}, Code!Encoded(codecPc.form)} :
          CASE res = {} ->
                 /\ codecPc' = Code!Idle
                 /\ Code!Reply(codecPc, "Error", Code!None, Code!Encoded(codecPc.form) # {})
                 /\ UNCHANGED blob
            [] res # {} /\ codecPc.op = "marshal" ->
                 /\ codecPc' = Code!Idle
                 /\ blob' \in res
                 /\ Code!Reply(codecPc, "ok", Code!None, FALSE)
            [] res # {} /\ codecPc.op = "public" ->
                 /\ \E x \in res : codecPc' = [codecPc EXCEPT !.at = "decoder", !.ctx = Code!Home,
                                                              !.from = x]
                 /\ UNCHANGED <<blob, codecReply>>
    BY <1>2 DEF Code!ToData
  <2> HIDE DEF b
  <2>5. CASE res = {}
    <3>1. /\ codecPc' = Code!Idle /\ UNCHANGED blob
          /\ Code!Reply(codecPc, "Error", Code!None, Code!Encoded(codecPc.form) # {})
      BY <2>4, <2>5
    <3>2. (Code!Encoded(codecPc.form) # {}) \in BOOLEAN
      OBVIOUS
    <3>3. blob' \in Code!Blobs \cup {Code!None} /\ BlobSound'
      BY <1>0, <3>1 DEF CodecTypes, BlobSound
    <3>4. QED
      BY <1>0, <2>1, <2>3, <3>1, <3>2, <3>3, CodecReplies
  <2>6. CASE res # {} /\ codecPc.op = "marshal"
    <3>1. /\ codecPc' = Code!Idle /\ blob' = b /\ Code!Reply(codecPc, "ok", Code!None, FALSE)
      BY <2>3, <2>4, <2>6
    <3>2. blob' \in Code!Blobs \cup {Code!None} /\ BlobSound' /\ FALSE \in BOOLEAN
          /\ blob' = [alg |-> key.alg, form |-> codecPc.form]
      BY <2>2, <3>1 DEF BlobSound, b
    <3>3. QED
      BY <1>0, <2>1, <2>6, <3>1, <3>2, CodecReplies
  <2>7. CASE res # {} /\ codecPc.op = "public"
    <3> DEFINE to == [codecPc EXCEPT !.at = "decoder", !.ctx = Code!Home, !.from = b]
    <3>1. codecPc' = to /\ UNCHANGED <<blob, codecReply>>
      BY <2>3, <2>4, <2>7
    <3>2. /\ to \in CodecPcs /\ to.at = "decoder" /\ to.op = "public" /\ to.form = "SPKI"
          /\ to.ctx = key.ctx /\ to.from = b
      BY <1>0, <2>1, <2>2, <2>7 DEF CodecPcs, Code!Home
    <3>3. to.from = [alg |-> key.alg, form |-> "SPKI"] /\ to.from \in Code!Blobs
      BY <2>1, <2>2, <2>7, <3>2 DEF b
    <3> HIDE DEF to
    <3>4. QED
      BY <1>0, <2>1, <3>1, <3>2, <3>3, CodecMoves
  <2>8. QED
    BY <1>0, <2>1, <2>5, <2>6, <2>7 DEF CodecPcs
<1>3. CASE Code!NewDecoder
  <2>1. codecPc.at = "decoder" /\ codecLive = {} /\ UNCHANGED <<key, blob>>
    BY <1>0, <1>3 DEF Code!NewDecoder, CodecStage
  <2>2. CASE codecPc' = Code!Idle /\ Code!Reply(codecPc, "Error", Code!None, TRUE)
               /\ UNCHANGED codecLive
    BY <2>1, <2>2, CodecFails
  <2>3. CASE codecPc' = [codecPc EXCEPT !.at = "from data"] /\ UNCHANGED codecReply
               /\ codecLive' = (IF codecPc.form \in Code!Raw THEN codecLive
                                ELSE codecLive \cup {"decoder", "copy"})
    <3> DEFINE to == [codecPc EXCEPT !.at = "from data"]
    <3>1. /\ to \in CodecPcs /\ to.at = "from data" /\ to.op = codecPc.op
          /\ to.form = codecPc.form /\ to.ctx = codecPc.ctx /\ to.from = codecPc.from
      BY <1>0 DEF CodecPcs
    <3>2. codecPc' = to
      BY <2>3
    <3> HIDE DEF to
    <3>3. /\ to.op = "public" => to.form = "SPKI" /\ to.ctx = key.ctx
          /\ \/ to.op = "parse" /\ blob # Code!None /\ to.from = blob
             \/ to.op = "public" /\ to.from = [alg |-> key.alg, form |-> "SPKI"]
          /\ to.from \in Code!Blobs
      BY <1>0, <2>1, <3>1 DEF CodecStage
    <3>4. QED
      BY <1>0, <2>1, <2>3, <3>1, <3>2, <3>3, CodecMoves
  <2>4. QED
    BY <1>3, <2>2, <2>3 DEF Code!NewDecoder
<1>4. CASE Code!FromData
  <2> DEFINE from == codecPc.from
             g == [alg |-> from.alg, part |-> Code!Half(from.form), ctx |-> codecPc.ctx]
             can == Code!Has(codecPc.ctx, from.alg) /\ Code!Decodable(codecPc.form, from)
  <2>1. /\ codecPc.at = "from data" /\ UNCHANGED <<key, blob>> /\ codecPc' = Code!Idle
        /\ \/ codecPc.op = "parse" /\ blob # Code!None /\ from = blob
           \/ /\ codecPc.op = "public" /\ from = [alg |-> key.alg, form |-> "SPKI"]
              /\ codecPc.form = "SPKI" /\ codecPc.ctx = key.ctx
        /\ from \in Code!Blobs
        /\ codecLive \subseteq {"decoder", "copy"}
    BY <1>0, <1>4 DEF Code!FromData, CodecStage
  <2>p. /\ from.alg \in Code!Algs /\ from.form \in Code!Forms
        /\ codecPc.op \in {"parse", "public"}
        /\ codecPc.op = "public" => /\ from.alg = key.alg /\ from.form = "SPKI"
                                    /\ codecPc.form = "SPKI" /\ codecPc.ctx = key.ctx
        /\ codecPc.op = "parse" => from = blob /\ blob # Code!None
    <3>1. from.alg \in Code!Algs /\ from.form \in Code!Forms
      BY <2>1 DEF Code!Blobs
    <3>2. CASE codecPc.op = "parse"
      BY <2>1, <3>1, <3>2
    <3>3. CASE codecPc.op = "public"
      <4>1. from = [alg |-> key.alg, form |-> "SPKI"]
        BY <2>1, <3>3
      <4>2. from.alg = key.alg /\ from.form = "SPKI"
        BY <4>1
      <4>3. QED
        BY <2>1, <3>1, <3>3, <4>2
    <3>4. QED
      BY <2>1, <3>2, <3>3
  <2>2. g \in Gots /\ g # Code!None
    <3>1. Code!Half(from.form) \in {"private", "public"}
      BY DEF Code!Half
    <3>2. g \in Gots
      BY <1>0, <2>p, <3>1 DEF Gots
    <3>3. QED
      BY <1>n, <3>2
  <2>3. can \in BOOLEAN
    BY <1>0, <2>1 DEF Code!Decodable, Code!Has, Code!Forms, Code!PrivateForms, Code!Raw
  <2>4. Code!Has(codecPc.ctx, from.alg) /\ (codecPc.op = "public" \/ codecPc.form = from.form) => can
    <3>1. /\ from.form = "SEC1" => from.alg = "EC"
          /\ from.form = "PKCS1" => from.alg = "RSA"
      BY <1>0, <2>p DEF BlobSound
    <3>2. codecPc.op = "public" => codecPc.form = from.form
      BY <2>p
    <3>3. QED
      BY <1>0, <3>1, <3>2 DEF Code!Decodable, Code!Forms, Code!PrivateForms, Code!Raw
  <2>5. blob' \in Code!Blobs \cup {Code!None} /\ BlobSound'
    BY <1>0, <2>1 DEF CodecTypes, BlobSound
  <2>6. codecPc.op = "public" => /\ Code!Has(codecPc.ctx, from.alg)
                                 /\ g = [alg |-> key.alg, part |-> "public", ctx |-> key.ctx]
    BY <1>0, <2>p DEF CodecTypes, Code!Half, Code!PrivateForms
  <2>7. codecPc.op = "parse" =>
          /\ from = blob'
          /\ g = [alg |-> blob'.alg, part |-> Code!Half(blob'.form), ctx |-> codecPc.ctx]
    BY <2>1, <2>p
  <2>8. \/ codecLive' = {"pkey"} /\ Code!Reply(codecPc, "ok", g, FALSE)
        \/ codecLive' = {} /\ Code!Reply(codecPc, "Error", Code!None, can)
    BY <1>4, <2>1 DEF Code!FromData
  <2> HIDE DEF from, g, can
  <2>9. CASE codecLive' = {"pkey"} /\ Code!Reply(codecPc, "ok", g, FALSE)
    <3>1. FALSE \in BOOLEAN
      OBVIOUS
    <3>2. codecPc.op # "marshal"
      BY <2>p
    <3>3. QED
      BY <1>0, <2>1, <2>2, <2>5, <2>6, <2>7, <2>9, <3>1, <3>2, CodecReplies
  <2>10. CASE codecLive' = {} /\ Code!Reply(codecPc, "Error", Code!None, can)
    BY <1>0, <2>1, <2>3, <2>4, <2>5, <2>6, <2>7, <2>10, CodecReplies
  <2>11. QED
    BY <2>8, <2>9, <2>10
<1>5. QED
  BY <1>1, <1>2, <1>3, <1>4

(* Every step of encoding and decoding preserves the invariant.             *)
LEMMA CodecNext == CodecInv /\ [Code!Next]_codecVars => CodecInv'
<1> SUFFICES ASSUME CodecInv, [Code!Next]_codecVars PROVE CodecInv'
  OBVIOUS
<1>1. ASSUME NEW form \in Code!Forms, Code!Marshal("marshal", form) PROVE CodecInv'
  BY <1>1, CodecMarshal
<1>2. ASSUME Code!Marshal("public", "SPKI") PROVE CodecInv'
  <2>1. "SPKI" \in Code!Forms
    BY DEF Code!Forms
  <2>2. QED
    BY <1>2, <2>1, CodecMarshal
<1>3. ASSUME NEW c \in Code!Contexts, NEW form \in Code!Forms, Code!Parse(c, form) PROVE CodecInv'
  <2> DEFINE to == [op |-> "parse", form |-> form, ctx |-> c, from |-> blob, at |-> "decoder"]
  <2>1. /\ codecPc = Code!Idle /\ codecReply = Code!None /\ blob # Code!None
        /\ UNCHANGED <<key, blob, codecLive, codecReply>> /\ codecPc' = to
        /\ codecLive = {} /\ blob \in Code!Blobs
    BY <1>3 DEF Code!Parse, Code!Free, CodecInv, Code!NothingLeaks, CodecTypes
  <2>2. /\ to \in CodecPcs /\ to.op = "parse" /\ to.at = "decoder" /\ to.from = blob
    BY <2>1 DEF CodecPcs
  <2> HIDE DEF to
  <2>3. QED
    BY <2>1, <2>2, CodecMoves
<1>4. ASSUME Code!Taken PROVE CodecInv'
  <2>1. /\ codecPc = Code!Idle /\ UNCHANGED <<key, blob, codecPc>> /\ codecReply' = Code!None
        /\ codecLive' = {}
    BY <1>4 DEF Code!Taken, CodecInv, CodecStage, Code!NothingLeaks
  <2>2. QED
    BY <2>1
       DEF CodecInv, CodecTypes, BlobSound, CodecStage, Code!EncodingsHonest, Code!NothingLeaks
<1>5. ASSUME Code!Close PROVE CodecInv'
  <2>1. /\ codecPc = Code!Idle /\ codecReply = Code!None
        /\ UNCHANGED <<blob, codecLive, codecPc, codecReply>>
        /\ key' \in Code!Keys /\ (key.ctx)' = key.ctx /\ (key.alg)' = key.alg
    BY <1>5 DEF Code!Close, Code!Free, CodecInv, CodecTypes, Code!Keys
  <2>2. CodecTypes'
    BY <2>1 DEF CodecInv, CodecTypes
  <2>3. QED
    BY <2>1, <2>2
       DEF CodecInv, BlobSound, CodecStage, Code!EncodingsHonest, Code!NothingLeaks
<1>6. CASE UNCHANGED codecVars
  BY <1>6
     DEF codecVars, CodecInv, CodecTypes, BlobSound, CodecStage, Code!EncodingsHonest,
         Code!NothingLeaks, Code!WrongKind
<1>7. QED
  BY <1>1, <1>2, <1>3, <1>4, <1>5, <1>6, CodecCCalls DEF Code!Next

(* Encoding and decoding keep their invariant whatever the subject.         *)
THEOREM CodecInvariance == CallsSpec => []CodecInv
<1>1. CallsInit => CodecInv
  BY CodecInit DEF CallsInit
<1>2. CodecInv /\ [CallsNext]_callsVars => CodecInv'
  BY CodecNext, KeyProjection
<1>3. QED
  BY <1>1, <1>2, PTL DEF CallsSpec, callsVars

(* An encoding has the structure that was asked for, reads back into the    *)
(* Context it is read through, and Public stays in the Context of its Key   *)
(* (pkey_pem.go:74-78, 287-295), in any order of calls and failures.        *)
THEOREM EncodingsAreHonest == CallsSpec => []EncodingsHonest
<1>1. CodecInv => EncodingsHonest
  BY DEF CodecInv, EncodingsHonest
<1>2. QED
  BY <1>1, CodecInvariance, PTL

-----------------------------------------------------------------------------
(* StoreWalk.                                                               *)

WalkTypes ==
  /\ store \in Seq(Walk!Objects)
  /\ pos \in 0..Len(store) /\ eof \in BOOLEAN
  /\ expect \in Walk!KeyKinds \cup {"any"}
  /\ walkPc \in [at : {"open", "expect", "walk", "take"}, call : DOMAIN Walk!Calls] \cup {Walk!Idle}
  /\ item \in 0..Len(store)
  /\ walkLive \subseteq {"ctx", "info", "pkey"}
  /\ seen \in Seq(Walk!Objects \ {"bad"})

WalkReplies ==
  walkReply = Walk!None
    \/ walkReply \in [call : DOMAIN Walk!Calls, kind : {"key", "not found", "list", "Error"},
                      at : Nat, list : Seq(Walk!Objects \ {"bad"})]

(* A walk that is narrowed has passed no object of the asked kind; one that *)
(* is not has collected every object it has passed.  An object in hand is   *)
(* the last one passed.                                                     *)
Passed(n) ==
  IF walkPc.call = "ListStore"
  THEN expect = "any" /\ seen = SubSeq(store, 1, n)
  ELSE /\ expect = Walk!Calls[walkPc.call] /\ seen = <<>>
       /\ \A i \in 1..n : store[i] # Walk!Calls[walkPc.call]

WalkStage ==
  walkPc # Walk!Idle =>
    /\ walkReply = Walk!None
    /\ walkLive = (CASE walkPc.at = "open" -> {}
                     [] walkPc.at \in {"expect", "walk"} -> {"ctx"}
                     [] walkPc.at = "take" -> {"ctx", "info"})
    /\ walkPc.at = "open" => seen = <<>>
    /\ walkPc.at = "expect" =>
         walkPc.call # "ListStore" /\ pos = 0 /\ seen = <<>> /\ (eof => store = <<>>)
    /\ walkPc.at = "walk" =>
         \/ Passed(pos) /\ (eof => pos = Len(store))
         \/ /\ pos = Len(store) /\ pos > 0 /\ eof /\ store[pos] = "bad" /\ Passed(pos - 1)
    /\ walkPc.at = "take" =>
         /\ item = pos /\ pos > 0 /\ store[pos] # "bad" /\ Passed(pos - 1)
         /\ (eof => pos = Len(store))
         /\ walkPc.call # "ListStore" => store[pos] \in {expect, "name"}

WalkInv ==
  /\ WalkTypes /\ WalkReplies /\ WalkStage
  /\ walkPc = Walk!Idle => seen = <<>>
  /\ Walk!FirstMatch /\ Walk!NothingLeaks

(* The calls, and what each is after.                                       *)
LEMMA WalkCalls ==
  /\ DOMAIN Walk!Calls = {"LoadKey", "LoadPublicKey", "ListStore"}
  /\ Walk!Calls["LoadKey"] = "pkey" /\ Walk!Calls["LoadPublicKey"] = "pubkey"
  /\ \A c \in DOMAIN Walk!Calls : c # "ListStore" => Walk!Calls[c] \in Walk!KeyKinds
  /\ \A c \in DOMAIN Walk!Calls : Walk!Calls[c] \notin {"bad", "name", "other", "cert"}
BY DEF Walk!Calls, Walk!KeyKinds

(* The pc is a call and its next step, or there is no call; a reply is not  *)
(* the absence of one.                                                      *)
LEMMA WalkPc ==
  WalkTypes => /\ walkPc # Walk!Idle => /\ walkPc.at \in {"open", "expect", "walk", "take"}
                                        /\ walkPc.call \in DOMAIN Walk!Calls
               /\ walkPc.at # "idle" => walkPc # Walk!Idle
               /\ walkPc = Walk!Idle => walkPc.at = "idle"
BY DEF WalkTypes, Walk!Idle

(* The initial states satisfy the invariant.                                *)
LEMMA WalkInit == Walk!Init => WalkInv
<1> SUFFICES ASSUME Walk!Init PROVE WalkInv
  OBVIOUS
<1>1. store \in Seq(Walk!Objects)
  <2>1. PICK n \in 0..MaxObjects : store \in [1..n -> Walk!Objects]
    BY DEF Walk!Init, Walk!Stores
  <2>2. n \in Nat
    BY BoundsAssumption
  <2>3. QED
    BY <2>1, <2>2
<1>2. Len(store) \in Nat
  BY <1>1, LenProperties
<1>3. WalkTypes
  <2>1. eof \in BOOLEAN /\ seen = <<>> /\ <<>> \in Seq(Walk!Objects \ {"bad"})
    BY EmptySeq DEF Walk!Init
  <2>2. QED
    BY <1>1, <1>2, <2>1 DEF Walk!Init, WalkTypes
<1>4. QED
  BY <1>3 DEF Walk!Init, WalkInv, WalkReplies, WalkStage, Walk!FirstMatch, Walk!NothingLeaks

(* A call that goes on: its next step, and what it has passed by then.      *)
LEMMA WalkMoves ==
  ASSUME WalkInv, NEW to \in [at : {"open", "expect", "walk", "take"}, call : DOMAIN Walk!Calls],
         walkPc' = to, UNCHANGED store, walkReply = Walk!None, UNCHANGED walkReply,
         pos' \in 0..Len(store), eof' \in BOOLEAN, expect' \in Walk!KeyKinds \cup {"any"},
         item' \in 0..Len(store), seen' \in Seq(Walk!Objects \ {"bad"}),
         WalkStage'
  PROVE  WalkInv'
<1>1. to # Walk!Idle
  <2>1. to.at # "idle"
    OBVIOUS
  <2>2. QED
    BY <2>1 DEF Walk!Idle
<1>2. to.at \in {"open", "expect", "walk", "take"}
  OBVIOUS
<1>3. walkLive' \subseteq {"ctx", "info", "pkey"}
  BY <1>1, <1>2 DEF WalkStage
<1>4. WalkTypes'
  BY <1>3 DEF WalkInv, WalkTypes
<1>5. QED
  BY <1>1, <1>4 DEF WalkInv, WalkReplies, Walk!FirstMatch, Walk!NothingLeaks

(* A call that returns.                                                     *)
LEMMA WalkReturns ==
  ASSUME WalkInv, walkPc # Walk!Idle, UNCHANGED store,
         pos' \in 0..Len(store), eof' \in BOOLEAN, expect' \in Walk!KeyKinds \cup {"any"},
         item' \in 0..Len(store),
         NEW kind \in {"key", "not found", "list", "Error"}, NEW n \in Nat, NEW holds,
         Walk!Return(kind, n, holds),
         holds \ {"ctx"} = IF kind = "key" THEN {"pkey"} ELSE {},
         kind = "key" => /\ n \in 1..Len(store) /\ store[n] = Walk!Calls[walkPc.call]
                         /\ \A i \in 1..n - 1 : store[i] # Walk!Calls[walkPc.call],
         kind = "not found" => \A i \in 1..Len(store) : store[i] # Walk!Calls[walkPc.call],
         kind = "list" => store = seen \/ store = Append(seen, "bad")
  PROVE  WalkInv'
<1> DEFINE r == [call |-> walkPc.call, kind |-> kind, at |-> n, list |-> seen]
<1>1. walkReply' = r /\ walkPc' = Walk!Idle /\ walkLive' = holds \ {"ctx"} /\ seen' = <<>>
  BY DEF Walk!Return
<1>2. /\ r \in [call : DOMAIN Walk!Calls, kind : {"key", "not found", "list", "Error"},
                at : Nat, list : Seq(Walk!Objects \ {"bad"})]
      /\ r.call = walkPc.call /\ r.kind = kind /\ r.at = n /\ r.list = seen
  BY WalkPc DEF WalkInv, WalkTypes
<1>3. r # Walk!None
  <2>1. DOMAIN r = {"call", "kind", "at", "list"} /\ DOMAIN Walk!None = {"kind"}
    BY DEF Walk!None
  <2>2. QED
    BY <2>1, ZenonT(40)
<1> HIDE DEF r
<1>4. WalkTypes'
  BY <1>1, EmptySeq DEF WalkInv, WalkTypes
<1>5. WalkReplies' /\ WalkStage'
  BY <1>1, <1>2 DEF WalkReplies, WalkStage
<1>6. Walk!NothingLeaks'
  BY <1>1, <1>2, <1>3 DEF Walk!NothingLeaks
<1>7. Walk!FirstMatch'
  <2>0. Len(store) \in Nat
    BY LenProperties DEF WalkInv, WalkTypes
  <2>1. CASE kind = "key"
    <3>1. \A i \in 1..Len(store) : store[i] = Walk!Calls[walkPc.call] => n <= i
      BY <2>0, <2>1
    <3>2. QED
      BY <1>1, <1>2, <2>1, <3>1 DEF Walk!FirstMatch
  <2>2. CASE kind # "key"
    BY <1>1, <1>2, <2>2 DEF Walk!FirstMatch
  <2>3. QED
    BY <2>1, <2>2
<1>8. QED
  BY <1>1, <1>4, <1>5, <1>6, <1>7 DEF WalkInv

(* How far a walk has come, one object later.                               *)
LEMMA PassedOne ==
  ASSUME WalkTypes, walkPc # Walk!Idle, NEW i \in 1..Len(store), Passed(i - 1)
  PROVE  /\ walkPc.call = "ListStore" => Append(seen, store[i]) = SubSeq(store, 1, i)
         /\ walkPc.call # "ListStore" /\ store[i] # Walk!Calls[walkPc.call] => Passed(i)
<1>0. store \in Seq(Walk!Objects) /\ Len(store) \in Nat
  BY LenProperties DEF WalkTypes
<1>1. ASSUME walkPc.call = "ListStore" PROVE Append(seen, store[i]) = SubSeq(store, 1, i)
  <2>1. seen = SubSeq(store, 1, i - 1) /\ seen \in Seq(Walk!Objects) /\ store[i] \in Walk!Objects
    <3>1. seen \in Seq(Walk!Objects \ {"bad"})
      BY DEF WalkTypes
    <3>2. QED
      BY <1>0, <1>1, <3>1, SeqMonotonic, ElementOfSeq DEF Passed
  <2>2. SubSeq(store, 1, i) = SubSeq(store, 1, i - 1) \o <<store[i]>>
    <3>1. 1 \in 1..Len(store) /\ i \in 1..Len(store)
      BY <1>0
    <3>2. QED
      BY <1>0, <3>1, SubSeqRecursiveSecond
  <2>3. QED
    BY <2>1, <2>2, AppendIsConcat
<1>2. ASSUME walkPc.call # "ListStore", store[i] # Walk!Calls[walkPc.call] PROVE Passed(i)
  BY <1>0, <1>2 DEF Passed
<1>3. QED
  BY <1>1, <1>2

(* Opening a store and narrowing the walk.                                  *)
LEMMA WalkOpens == WalkInv /\ (Walk!Open \/ Walk!Expect) => WalkInv'
<1> SUFFICES ASSUME WalkInv, Walk!Open \/ Walk!Expect PROVE WalkInv'
  OBVIOUS
<1>a. WalkTypes /\ WalkStage /\ store \in Seq(Walk!Objects) /\ Len(store) \in Nat
  BY LenProperties DEF WalkInv, WalkTypes
<1>b. walkPc.at \in {"open", "expect"} /\ UNCHANGED store
  BY DEF Walk!Open, Walk!Expect
<1>c. walkPc # Walk!Idle /\ walkPc.call \in DOMAIN Walk!Calls
  BY <1>a, <1>b, WalkPc
<1>0. /\ WalkTypes /\ WalkStage /\ store \in Seq(Walk!Objects) /\ Len(store) \in Nat
      /\ walkPc # Walk!Idle /\ walkPc.call \in DOMAIN Walk!Calls /\ walkReply = Walk!None
      /\ UNCHANGED store /\ 0 \in 0..Len(store) /\ 0 \in Nat
  BY <1>a, <1>b, <1>c DEF WalkStage
<1>1. CASE Walk!Open
  <2>1. walkPc.at = "open" /\ walkLive = {} /\ seen = <<>> /\ UNCHANGED item
    BY <1>0, <1>1 DEF Walk!Open, WalkStage
  <2>2. CASE Walk!Return("Error", 0, walkLive)
    <3>1. UNCHANGED <<pos, eof, expect>>
      BY <1>1, <2>1, <2>2 DEF Walk!Open, Walk!Return, Walk!Idle
    <3>2. QED
      BY <1>0, <2>1, <2>2, <3>1, WalkReturns DEF WalkTypes
  <2>3. CASE ~Walk!Return("Error", 0, walkLive)
    <3> DEFINE to == [walkPc EXCEPT !.at = IF walkPc.call = "ListStore" THEN "walk" ELSE "expect"]
    <3>1. /\ walkLive' = {"ctx"} /\ pos' = 0 /\ eof' \in {FALSE, store = <<>>} /\ expect' = "any"
          /\ walkPc' = to /\ UNCHANGED <<seen, walkReply>>
      BY <1>1, <2>3 DEF Walk!Open
    <3>2. /\ to \in [at : {"open", "expect", "walk", "take"}, call : DOMAIN Walk!Calls]
          /\ to.call = walkPc.call
          /\ to.at = IF walkPc.call = "ListStore" THEN "walk" ELSE "expect"
      BY <1>0 DEF WalkTypes, Walk!Idle
    <3>3. eof' \in BOOLEAN /\ (eof' => store = <<>>)
      BY <3>1
    <3> HIDE DEF to
    <3>4. WalkStage'
      <4>1. walkPc.call = "ListStore" => Passed(pos)' /\ (eof' => pos' = Len(store'))
        <5>1. SubSeq(store, 1, 0) = <<>>
          BY SubSeqEmpty
        <5>2. QED
          BY <1>0, <2>1, <3>1, <3>2, <3>3, <5>1 DEF Passed
      <4>2. QED
        BY <1>0, <2>1, <3>1, <3>2, <3>3, <4>1 DEF WalkStage
    <3>5. QED
      BY <1>0, <2>1, <3>1, <3>2, <3>3, <3>4, WalkMoves DEF WalkTypes
  <2>4. QED
    BY <2>2, <2>3
<1>2. CASE Walk!Expect
  <2>1. /\ walkPc.at = "expect" /\ walkLive = {"ctx"} /\ seen = <<>> /\ pos = 0
        /\ walkPc.call # "ListStore" /\ (eof => store = <<>>) /\ UNCHANGED <<pos, eof, item>>
    BY <1>0, <1>2 DEF Walk!Expect, WalkStage
  <2>2. CASE Walk!Return("Error", 0, walkLive)
    <3>1. UNCHANGED expect
      BY <1>2, <2>1, <2>2 DEF Walk!Expect, Walk!Return, Walk!Idle
    <3>2. QED
      BY <1>0, <2>1, <2>2, <3>1, WalkReturns DEF WalkTypes
  <2>3. CASE ~Walk!Return("Error", 0, walkLive)
    <3> DEFINE to == [walkPc EXCEPT !.at = "walk"]
    <3>1. /\ expect' = Walk!Calls[walkPc.call] /\ walkPc' = to
          /\ UNCHANGED <<walkLive, seen, walkReply>>
      BY <1>2, <2>3 DEF Walk!Expect
    <3>2. /\ to \in [at : {"open", "expect", "walk", "take"}, call : DOMAIN Walk!Calls]
          /\ to.call = walkPc.call /\ to.at = "walk"
      BY <1>0 DEF WalkTypes, Walk!Idle
    <3> HIDE DEF to
    <3>3. expect' \in Walk!KeyKinds
      BY <1>0, <2>1, <3>1, WalkCalls
    <3>4. WalkStage'
      <4>1. Passed(pos)' /\ (eof' => pos' = Len(store'))
        BY <1>0, <2>1, <3>1, <3>2 DEF Passed
      <4>2. QED
        BY <1>0, <2>1, <3>1, <3>2, <4>1 DEF WalkStage
    <3>5. QED
      BY <1>0, <2>1, <3>1, <3>2, <3>3, <3>4, WalkMoves DEF WalkTypes
  <2>4. QED
    BY <2>2, <2>3
<1>3. QED
  BY <1>1, <1>2

(* What a walk knows while it is at its loop, or has an object in hand.     *)
LEMMA WalkAt ==
  ASSUME WalkInv, walkPc.at \in {"walk", "take"}
  PROVE  /\ WalkTypes /\ WalkStage /\ store \in Seq(Walk!Objects) /\ Len(store) \in Nat
         /\ pos \in 0..Len(store) /\ walkPc # Walk!Idle /\ walkReply = Walk!None
         /\ walkPc.call \in DOMAIN Walk!Calls
         /\ walkPc.call = "ListStore" => expect = "any"
         /\ walkPc.call # "ListStore" => /\ expect = Walk!Calls[walkPc.call]
                                         /\ expect \in Walk!KeyKinds /\ expect # "any"
<1>1. WalkTypes /\ WalkStage /\ store \in Seq(Walk!Objects) /\ Len(store) \in Nat
  BY LenProperties DEF WalkInv, WalkTypes
<1>2. walkPc # Walk!Idle /\ walkPc.call \in DOMAIN Walk!Calls
  BY <1>1, WalkPc
<1>3. /\ walkPc.call = "ListStore" => expect = "any"
      /\ walkPc.call # "ListStore" => expect = Walk!Calls[walkPc.call]
  BY <1>1, <1>2 DEF WalkStage, Passed
<1>4. Walk!KeyKinds = {"pkey", "pubkey"}
  BY DEF Walk!KeyKinds
<1>5. QED
  BY <1>1, <1>2, <1>3, <1>4, WalkCalls DEF WalkTypes, WalkStage

(* What is skipped on the way to the next object is of no asked kind; a     *)
(* list skips nothing.                                                      *)
LEMMA WalkSkips ==
  ASSUME WalkInv, walkPc.at = "walk", ~eof, NEW i \in pos..Len(store),
         \A j \in pos + 1..i : Walk!Skips(store[j])
  PROVE  Passed(i)
<1>0. /\ WalkTypes /\ pos \in Nat /\ Len(store) \in Nat /\ Passed(pos)
      /\ walkPc.call = "ListStore" => expect = "any"
      /\ walkPc.call # "ListStore" => expect = Walk!Calls[walkPc.call]
  BY WalkAt DEF WalkStage
<1>1. CASE walkPc.call = "ListStore"
  <2>1. pos = i
    BY <1>0, <1>1 DEF Walk!Skips
  <2>2. QED
    BY <1>0, <2>1
<1>2. CASE walkPc.call # "ListStore"
  <2>1. \A j \in pos + 1..i : store[j] # Walk!Calls[walkPc.call]
    BY <1>0, <1>2 DEF Walk!Skips
  <2>2. QED
    BY <1>0, <1>2, <2>1 DEF Passed
<1>3. QED
  BY <1>1, <1>2

(* An object is delivered.                                                  *)
LEMMA WalkLoads == WalkInv /\ Walk!Load => WalkInv'
<1> SUFFICES ASSUME WalkInv, Walk!Load PROVE WalkInv'
  OBVIOUS
<1>0. /\ walkPc.at = "walk" /\ ~eof /\ UNCHANGED <<store, expect, seen, walkReply>>
  BY DEF Walk!Load
<1>1. /\ WalkTypes /\ WalkStage /\ store \in Seq(Walk!Objects) /\ Len(store) \in Nat
      /\ pos \in 0..Len(store) /\ walkPc # Walk!Idle /\ walkReply = Walk!None
      /\ walkPc.call \in DOMAIN Walk!Calls /\ walkLive = {"ctx"}
      /\ walkPc.call # "ListStore" => expect = Walk!Calls[walkPc.call] /\ expect # "any"
  BY <1>0, WalkAt DEF WalkStage
<1> DEFINE to == [walkPc EXCEPT !.at = "take"]
<1>2. PICK i \in Walk!Reachable :
        /\ Walk!Delivers(store[i]) /\ item' = i /\ pos' = i
        /\ eof' \in {FALSE, i = Len(store)}
        /\ walkLive' = walkLive \cup {"info"}
        /\ walkPc' = to
  BY DEF Walk!Load
<1>3. /\ to \in [at : {"open", "expect", "walk", "take"}, call : DOMAIN Walk!Calls]
      /\ to.call = walkPc.call /\ to.at = "take"
  BY <1>1 DEF WalkTypes, Walk!Idle
<1> HIDE DEF to
<1>4. i \in pos + 1..Len(store) /\ i - 1 \in pos..Len(store) /\ i > 0
      /\ \A j \in pos + 1..i - 1 : Walk!Skips(store[j])
  BY <1>1 DEF Walk!Reachable
<1>5. Passed(i - 1)
  BY <1>0, <1>4, WalkSkips
<1>6. eof' \in BOOLEAN /\ (eof' => i = Len(store))
  BY <1>2
<1>7. store[i] # "bad" /\ (walkPc.call # "ListStore" => store[i] \in {expect, "name"})
  BY <1>1, <1>2 DEF Walk!Delivers
<1>8. WalkStage'
  <2>1. Passed(i - 1)'
    BY <1>0, <1>2, <1>3, <1>5 DEF Passed
  <2>2. QED
    BY <1>0, <1>1, <1>2, <1>3, <1>4, <1>6, <1>7, <2>1 DEF WalkStage
<1>9. QED
  BY <1>0, <1>1, <1>2, <1>3, <1>4, <1>6, <1>8, WalkMoves DEF WalkTypes

(* NULL: nothing is left, or the object could not be read.                  *)
LEMMA WalkLoadsNull == WalkInv /\ Walk!LoadNull => WalkInv'
<1> SUFFICES ASSUME WalkInv, Walk!LoadNull PROVE WalkInv'
  OBVIOUS
<1>0. /\ walkPc.at = "walk" /\ ~eof /\ UNCHANGED <<store, expect, item>>
  BY DEF Walk!LoadNull
<1>1. /\ WalkTypes /\ WalkStage /\ store \in Seq(Walk!Objects) /\ Len(store) \in Nat
      /\ pos \in 0..Len(store) /\ walkPc # Walk!Idle /\ walkReply = Walk!None
      /\ walkPc.call \in DOMAIN Walk!Calls /\ walkLive = {"ctx"}
  BY <1>0, WalkAt DEF WalkStage
<1>2. walkPc \in [at : {"open", "expect", "walk", "take"}, call : DOMAIN Walk!Calls]
  BY <1>1 DEF WalkTypes
<1>3. CASE Walk!Runs /\ pos' = Len(store) /\ eof' = TRUE
             /\ UNCHANGED <<walkPc, walkLive, seen, walkReply>>
  <2>1. Passed(Len(store))
    BY <1>0, <1>1, <1>3, WalkSkips DEF Walk!Runs
  <2>2. Passed(pos)'
    BY <1>0, <1>3, <2>1 DEF Passed
  <2>3. WalkStage'
    BY <1>0, <1>1, <1>3, <2>2 DEF WalkStage
  <2>4. QED
    BY <1>0, <1>1, <1>2, <1>3, <2>3, WalkMoves DEF WalkTypes
<1>4. ASSUME NEW i \in Walk!Reachable, store[i] = "bad", pos' = i,
             eof' \in {FALSE, i = Len(store)},
             IF eof' THEN UNCHANGED <<walkPc, walkLive, seen, walkReply>>
             ELSE Walk!Return("Error", 0, walkLive)
      PROVE  WalkInv'
  <2>1. i \in pos + 1..Len(store) /\ i - 1 \in pos..Len(store) /\ i > 0 /\ i \in 0..Len(store)
        /\ \A j \in pos + 1..i - 1 : Walk!Skips(store[j])
    BY <1>1 DEF Walk!Reachable
  <2>2. Passed(i - 1)
    BY <1>0, <2>1, WalkSkips
  <2>3. eof' \in BOOLEAN /\ (eof' => i = Len(store))
    BY <1>4
  <2>4. CASE eof'
    <3>1. UNCHANGED <<walkPc, walkLive, seen, walkReply>>
      BY <1>4, <2>4
    <3>2. Passed(i - 1)'
      BY <1>0, <2>2, <3>1 DEF Passed
    <3>3. WalkStage'
      BY <1>0, <1>1, <1>4, <2>1, <2>3, <2>4, <3>1, <3>2 DEF WalkStage
    <3>4. QED
      BY <1>0, <1>1, <1>2, <1>4, <2>1, <2>3, <3>1, <3>3, WalkMoves DEF WalkTypes
  <2>5. CASE ~eof'
    <3>1. Walk!Return("Error", 0, walkLive) /\ 0 \in Nat
      BY <1>4, <2>5
    <3>2. QED
      BY <1>0, <1>1, <1>4, <2>1, <2>3, <3>1, WalkReturns DEF WalkTypes
  <2>6. QED
    BY <2>4, <2>5
<1>5. QED
  BY <1>3, <1>4 DEF Walk!LoadNull

(* The object in hand is a key, which ends the walk, or is passed over.     *)
LEMMA WalkTakes == WalkInv /\ Walk!Take => WalkInv'
<1> SUFFICES ASSUME WalkInv, Walk!Take PROVE WalkInv'
  OBVIOUS
<1>0. /\ walkPc.at = "take" /\ UNCHANGED <<store, pos, eof, expect, item>>
  BY DEF Walk!Take
<1>1. /\ WalkTypes /\ WalkStage /\ store \in Seq(Walk!Objects) /\ Len(store) \in Nat
      /\ pos \in 0..Len(store) /\ walkPc # Walk!Idle /\ walkReply = Walk!None
      /\ walkPc.call \in DOMAIN Walk!Calls /\ walkLive = {"ctx", "info"}
      /\ item = pos /\ pos \in 1..Len(store) /\ store[pos] # "bad" /\ Passed(pos - 1)
      /\ (eof => pos = Len(store))
      /\ walkPc.call = "ListStore" => expect = "any"
      /\ walkPc.call # "ListStore" => /\ expect = Walk!Calls[walkPc.call]
                                      /\ store[pos] \in {expect, "name"}
  BY <1>0, WalkAt DEF WalkStage
<1>2. CASE walkPc.call # "ListStore" /\ store[pos] \in Walk!KeyKinds
  <2>1. Walk!Return("key", pos, (walkLive \ {"info"}) \cup {"pkey"})
    BY <1>1, <1>2 DEF Walk!Take
  <2>2. store[pos] = Walk!Calls[walkPc.call]
    BY <1>1, <1>2 DEF Walk!KeyKinds
  <2>3. \A i \in 1..pos - 1 : store[i] # Walk!Calls[walkPc.call]
    BY <1>1, <1>2 DEF Passed
  <2>4. ((walkLive \ {"info"}) \cup {"pkey"}) \ {"ctx"} = {"pkey"} /\ pos \in Nat
    BY <1>1
  <2>5. QED
    BY <1>0, <1>1, <2>1, <2>2, <2>3, <2>4, WalkReturns DEF WalkTypes
<1>3. CASE ~(walkPc.call # "ListStore" /\ store[pos] \in Walk!KeyKinds)
  <2> DEFINE to == [walkPc EXCEPT !.at = "walk"]
  <2>1. /\ seen' = IF walkPc.call = "ListStore" THEN Append(seen, store[pos]) ELSE seen
        /\ walkPc' = to /\ walkLive' = {"ctx"} /\ UNCHANGED walkReply
    BY <1>1, <1>3 DEF Walk!Take
  <2>2. /\ to \in [at : {"open", "expect", "walk", "take"}, call : DOMAIN Walk!Calls]
        /\ to.call = walkPc.call /\ to.at = "walk"
    BY <1>1 DEF WalkTypes, Walk!Idle
  <2> HIDE DEF to
  <2>3. seen' \in Seq(Walk!Objects \ {"bad"})
    <3>1. store[pos] \in Walk!Objects \ {"bad"} /\ seen \in Seq(Walk!Objects \ {"bad"})
      BY <1>1, ElementOfSeq DEF WalkTypes
    <3>2. QED
      BY <2>1, <3>1
  <2>4. Passed(pos)'
    <3>1. CASE walkPc.call = "ListStore"
      BY <1>0, <1>1, <2>1, <2>2, <3>1, PassedOne DEF Passed
    <3>2. CASE walkPc.call # "ListStore"
      <4>1. store[pos] # Walk!Calls[walkPc.call]
        BY <1>1, <1>3, <3>2, WalkCalls
      <4>2. Passed(pos)
        BY <1>1, <3>2, <4>1, PassedOne
      <4>3. QED
        BY <1>0, <2>1, <2>2, <3>2, <4>2 DEF Passed
    <3>3. QED
      BY <3>1, <3>2
  <2>5. WalkStage'
    BY <1>0, <1>1, <2>1, <2>2, <2>4 DEF WalkStage
  <2>6. QED
    BY <1>0, <1>1, <2>1, <2>2, <2>3, <2>5, WalkMoves DEF WalkTypes
<1>4. QED
  BY <1>2, <1>3

(* The end: a list has every object but an unreadable last one, and a key   *)
(* that was not found is not there.                                         *)
LEMMA WalkEnds == WalkInv /\ Walk!End => WalkInv'
<1> SUFFICES ASSUME WalkInv, Walk!End PROVE WalkInv'
  OBVIOUS
<1>0. /\ walkPc.at = "walk" /\ eof /\ UNCHANGED <<store, pos, eof, expect, item>>
      /\ Walk!Return(IF walkPc.call = "ListStore" THEN "list" ELSE "not found", 0, walkLive)
  BY DEF Walk!End, Walk!Ended
<1>1. /\ WalkTypes /\ store \in Seq(Walk!Objects) /\ Len(store) \in Nat
      /\ pos \in 0..Len(store) /\ walkPc # Walk!Idle
      /\ walkPc.call \in DOMAIN Walk!Calls /\ walkLive = {"ctx"}
      /\ pos = Len(store)
      /\ Passed(pos) \/ (pos > 0 /\ store[pos] = "bad" /\ Passed(pos - 1))
  BY <1>0, WalkAt DEF WalkStage
<1>2. CASE walkPc.call = "ListStore"
  <2>1. store = SubSeq(store, 1, Len(store))
    BY <1>1, SubSeqFull
  <2>2. store = seen \/ store = Append(seen, "bad")
    <3>1. CASE Passed(pos)
      BY <1>1, <1>2, <2>1, <3>1 DEF Passed
    <3>2. CASE pos > 0 /\ store[pos] = "bad" /\ Passed(pos - 1)
      <4>1. pos \in 1..Len(store)
        BY <1>1, <3>2
      <4>2. Append(seen, store[pos]) = SubSeq(store, 1, pos)
        BY <1>1, <1>2, <3>2, <4>1, PassedOne
      <4>3. QED
        BY <1>1, <2>1, <3>2, <4>2
    <3>3. QED
      BY <1>1, <3>1, <3>2
  <2>3. Walk!Return("list", 0, walkLive) /\ 0 \in Nat
    BY <1>0, <1>2
  <2>4. QED
    BY <1>0, <1>1, <2>2, <2>3, WalkReturns DEF WalkTypes
<1>3. CASE walkPc.call # "ListStore"
  <2>1. \A i \in 1..Len(store) : store[i] # Walk!Calls[walkPc.call]
    <3>1. Passed(pos - 1) /\ pos > 0 /\ store[pos] = "bad" => Passed(pos)
      <4>1. ASSUME Passed(pos - 1), pos > 0, store[pos] = "bad" PROVE Passed(pos)
        <5>1. pos \in 1..Len(store) /\ store[pos] # Walk!Calls[walkPc.call]
          BY <1>1, <4>1, WalkCalls
        <5>2. QED
          BY <1>1, <1>3, <4>1, <5>1, PassedOne
      <4>2. QED
        BY <4>1
    <3>2. Passed(pos)
      BY <1>1, <3>1
    <3>3. QED
      BY <1>1, <1>3, <3>2 DEF Passed
  <2>2. Walk!Return("not found", 0, walkLive) /\ 0 \in Nat
    BY <1>0, <1>3
  <2>3. QED
    BY <1>0, <1>1, <2>1, <2>2, WalkReturns DEF WalkTypes
<1>4. QED
  BY <1>2, <1>3

(* Every step of a walk preserves the invariant.                            *)
LEMMA WalkNext == WalkInv /\ [Walk!Next]_walkVars => WalkInv'
<1> SUFFICES ASSUME WalkInv, [Walk!Next]_walkVars PROVE WalkInv'
  OBVIOUS
<1>1. ASSUME NEW c \in DOMAIN Walk!Calls, Walk!Begin(c) PROVE WalkInv'
  <2> DEFINE to == [at |-> "open", call |-> c]
  <2>1. /\ walkPc = Walk!Idle /\ walkReply = Walk!None /\ walkPc' = to
        /\ UNCHANGED <<store, pos, eof, expect, item, walkLive, seen, walkReply>>
        /\ walkLive = {} /\ seen = <<>>
    BY <1>1 DEF Walk!Begin, WalkInv, Walk!NothingLeaks
  <2>2. to \in [at : {"open", "expect", "walk", "take"}, call : DOMAIN Walk!Calls]
        /\ to.at = "open"
    OBVIOUS
  <2> HIDE DEF to
  <2>3. WalkStage'
    BY <2>1, <2>2 DEF WalkStage
  <2>4. QED
    BY <2>1, <2>2, <2>3, WalkMoves DEF WalkInv, WalkTypes
<1>2. ASSUME Walk!Taken PROVE WalkInv'
  <2>1. /\ UNCHANGED <<store, pos, eof, expect, walkPc, item, seen>>
        /\ walkReply' = Walk!None /\ walkPc = Walk!Idle
        /\ walkLive' = {}
    BY <1>2 DEF Walk!Taken, WalkInv, WalkStage, Walk!NothingLeaks
  <2>2. WalkTypes'
    BY <2>1 DEF WalkInv, WalkTypes
  <2>3. QED
    BY <2>1, <2>2 DEF WalkInv, WalkReplies, WalkStage, Walk!FirstMatch, Walk!NothingLeaks
<1>3. CASE UNCHANGED walkVars
  BY <1>3
     DEF walkVars, WalkInv, WalkTypes, WalkReplies, WalkStage, Passed, Walk!FirstMatch,
         Walk!NothingLeaks
<1>4. QED
  BY <1>1, <1>2, <1>3, WalkOpens, WalkLoads, WalkLoadsNull, WalkTakes, WalkEnds DEF Walk!Next

(* Walks keep their invariant whatever the subject.                         *)
THEOREM WalkInvariance == CallsSpec => []WalkInv
<1>1. CallsInit => WalkInv
  BY WalkInit DEF CallsInit
<1>2. WalkInv /\ [CallsNext]_callsVars => WalkInv'
  BY WalkNext, KeyProjection
<1>3. QED
  BY <1>1, <1>2, PTL DEF CallsSpec, callsVars

(* However many objects a URI holds and wherever the store notices its end, *)
(* a loaded key is the first of its kind, "not found" means none, and a     *)
(* list lacks at most an unreadable last object (store.go:71-72, 94-96).    *)
THEOREM FirstIsMatched == CallsSpec => []FirstMatch
<1>1. WalkInv => FirstMatch
  BY DEF WalkInv, FirstMatch
<1>2. QED
  BY <1>1, WalkInvariance, PTL
=============================================================================

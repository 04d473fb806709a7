---------------------------- MODULE CipherProofs -----------------------------
(***************************************************************************)
(* Of the subjects of MCCalls: the messages of ciphers and key wraps       *)
(* (CipherMessage), with blocks of any size, and the trials over them      *)
(* (Trial).                                                                *)
(*                                                                         *)
(* TrialInv is what holds whatever the lengths are.  DataInv adds what a   *)
(* call is of, what was made of what and what was answered; it needs       *)
(* lengths that a C.int can hold, for run passes C.int(len(in)) to EVP.    *)
(***************************************************************************)
EXTENDS KeyProofs, FiniteSetTheorems

(* A step of MCCalls is a step of a cipher, of a trial, which makes the     *)
(* steps of a cipher too, or a stutter.                                     *)
LEMMA CipherProjection ==
  [CallsNext]_callsVars => /\ UNCHANGED subject
                           /\ \/ subject = "cipher" /\ Ciph!Next /\ UNCHANGED trialVars
                              \/ subject = "trial" /\ Ciph!TrialNext
                              \/ UNCHANGED cipherVars /\ UNCHANGED trialVars
BY DEF CallsNext, callsVars, Of

-----------------------------------------------------------------------------
(* CipherMessage.                                                           *)

Octets == Seq(Nat)
Modes  == Ciph!Paddings \cup Ciph!Wraps

(* Powers of two, as the number of subsets of an interval.                  *)
LEMMA PowerOfTwo == ASSUME NEW k \in Nat PROVE 2^k \in Nat \ {0}
<1>1. IsFiniteSet(1..k) /\ Cardinality(1..k) = k
  BY FS_Interval
<1>2. Cardinality(SUBSET (1..k)) = 2^k /\ IsFiniteSet(SUBSET (1..k))
  BY <1>1, FS_SUBSET
<1>3. SUBSET (1..k) # {}
  OBVIOUS
<1>4. QED
  BY <1>2, <1>3, FS_CardinalityType, FS_EmptySet

(* A length that is handed to C as a C.int never grows.                     *)
LEMMA NarrowingShortens ==
  ASSUME NEW n \in Nat
  PROVE  Ciph!CInt(n) \in Int /\ Ciph!CInt(n) <= n
<1> DEFINE h == 2^(IntBits - 1)
           w == 2^IntBits
<1>1. h \in Nat \ {0} /\ w \in Nat \ {0}
  BY PowerOfTwo, BoundsAssumption
<1>2. Ciph!CInt(n) = ((n + h) % w) - h
  BY DEF Ciph!CInt
<1> HIDE DEF h, w
<1>3. (n + h) % w \in Nat /\ (n + h) % w <= n + h
  BY <1>1
<1>4. QED
  BY <1>1, <1>2, <1>3

(* What padding is made of.                                                 *)
LEMMA Pieces ==
  ASSUME NEW n \in Nat
  PROVE  /\ Ciph!Zeros(n) \in Octets /\ Len(Ciph!Zeros(n)) = n
         /\ \A i \in 1..n : Ciph!Zeros(n)[i] = 0
         /\ Ciph!PKCS7(n) \in Octets /\ Len(Ciph!PKCS7(n)) = n
         /\ \A i \in 1..n : Ciph!PKCS7(n)[i] = n
         /\ <<n>> \in Octets /\ Len(<<n>>) = 1 /\ <<n>>[1] = n
<1>1. Ciph!Zeros(n) \in [1..n -> Nat] /\ Ciph!PKCS7(n) \in [1..n -> Nat]
  BY DEF Ciph!Zeros, Ciph!PKCS7
<1>2. Ciph!Zeros(n) \in Octets /\ Ciph!PKCS7(n) \in Octets
  BY <1>1, SeqDef DEF Octets
<1>3. Len(Ciph!Zeros(n)) = n /\ Len(Ciph!PKCS7(n)) = n
  BY <1>1, <1>2, LenProperties DEF Octets
<1>4. /\ \A i \in 1..n : Ciph!Zeros(n)[i] = 0
      /\ \A i \in 1..n : Ciph!PKCS7(n)[i] = n
  BY DEF Ciph!Zeros, Ciph!PKCS7
<1>5. <<n>> \in Octets /\ Len(<<n>>) = 1 /\ <<n>>[1] = n
  BY DEF Octets
<1>6. QED
  BY <1>2, <1>3, <1>4, <1>5

(* The rest of a block is at least a byte and at most a block.              *)
LEMMA BlockRest ==
  ASSUME NEW s \in Octets
  PROVE  /\ Len(s) \in Nat /\ Block \in Nat \ {0}
         /\ Ciph!Missing(s) \in 1..Block /\ Ciph!Missing(s) % Block \in 0..Block - 1
<1>1. Len(s) \in Nat /\ Block \in Nat \ {0}
  BY BoundsAssumption, LenProperties DEF Octets
<1>2. Len(s) % Block \in 0..Block - 1
  BY <1>1
<1>3. Ciph!Missing(s) \in 1..Block
  BY <1>1, <1>2 DEF Ciph!Missing
<1>4. QED
  BY <1>1, <1>3

(* What is padded in Go is bytes.                                           *)
LEMMA PaddedOctets ==
  ASSUME NEW p \in Ciph!Paddings \ {"PKCS7"}, NEW s \in Octets
  PROVE  Ciph!ApplyPadding(p, s) \in Octets
<1>1. Ciph!Missing(s) - 1 \in Nat /\ Ciph!Missing(s) \in Nat /\ Ciph!Missing(s) % Block \in Nat
  BY BlockRest
<1>2. /\ Ciph!Zeros(Ciph!Missing(s) - 1) \in Octets /\ Ciph!Zeros(Ciph!Missing(s) % Block) \in Octets
      /\ <<Ciph!Missing(s)>> \in Octets /\ <<128>> \in Octets
  BY <1>1, Pieces
<1>3. \A t, u \in Octets : t \o u \in Octets
  BY ConcatProperties DEF Octets
<1>4. QED
  BY <1>2, <1>3 DEF Ciph!ApplyPadding, Ciph!Paddings

(* A part of bytes is bytes.                                                *)
LEMMA PartOctets ==
  ASSUME NEW s \in Octets, NEW m \in Nat \ {0}, NEW n \in Int, n <= Len(s)
  PROVE  SubSeq(s, m, n) \in Octets
<1>1. \A i \in m..n : s[i] \in Nat
  BY ElementOfSeq, LenProperties DEF Octets
<1>2. QED
  BY <1>1, SubSeqProperties DEF Octets

(* What EVP encrypts to, or decrypts to, and what is left of it, is bytes.  *)
LEMMA EncryptedOctets ==
  ASSUME NEW p \in Modes, NEW s \in Octets
  PROVE  Ciph!EVPEncrypt(p, s) \in SUBSET Octets
<1>1. \A t, u \in Octets : t \o u \in Octets
  BY ConcatProperties DEF Octets
<1>2. /\ Block - 1 \in Nat /\ Block \in Nat /\ Len(s) \in Nat /\ Ciph!Missing(s) \in Nat
  BY BlockRest
<1>3. /\ Ciph!PKCS7(Block) \in Octets /\ Ciph!PKCS7(Block - 1) \in Octets /\ <<Len(s)>> \in Octets
      /\ Ciph!PKCS7(Ciph!Missing(s)) \in Octets
  BY <1>2, Pieces
<1>4. Ciph!ApplyPadding("Zero", s) \in Octets
  BY PaddedOctets DEF Ciph!Paddings
<1>5. Ciph!KWP(s) \in Octets
  BY <1>1, <1>3, <1>4 DEF Ciph!KWP
<1>6. QED
  BY <1>1, <1>3, <1>5 DEF Ciph!EVPEncrypt, Modes, Ciph!Wraps, Ciph!Paddings

(* What OpenSSL decrypts, its own padding and wrap removed, is a message of *)
(* bytes.                                                                   *)
LEMMA DecryptedOctets ==
  ASSUME NEW p \in Modes, NEW s \in Octets
  PROVE  Ciph!EVPDecrypt(p, s) \in SUBSET Octets
<1>1. Block \in Nat \ {0} /\ Len(s) \in Nat
  BY BlockRest
<1>2. SubSeq(s, Block + 1, Len(s)) \in Octets
  BY <1>1, PartOctets
<1>3. \A n \in Block..Len(s) : SubSeq(s, Block + 1, n) \in Octets
  BY <1>1, PartOctets
<1>4. \A n \in 1..Block : n <= Len(s) => Ciph!Without(s, n) \in Octets
  BY <1>1, PartOctets DEF Ciph!Without
<1>5. QED
  BY <1>2, <1>3, <1>4 DEF Ciph!EVPDecrypt, Modes, Ciph!Wraps, Ciph!Paddings

(* Removing the package's own padding leaves a message of bytes.            *)
LEMMA RemovedOctets ==
  ASSUME NEW p \in Ciph!Paddings \ {"PKCS7"}, NEW s \in Octets
  PROVE  Ciph!RemovePadding(p, s) \in SUBSET Octets
<1>1. Block \in Nat \ {0} /\ Len(s) \in Nat
  BY BlockRest
<1>2. \A n \in 1..Len(s) : Ciph!Without(s, n) \in Octets
  BY <1>1, PartOctets DEF Ciph!Without
<1>3. \A n \in 1..Block : Ciph!Without(s, n) \in Octets
  BY <1>1, PartOctets DEF Ciph!Without
<1>4. QED
  BY <1>2, <1>3 DEF Ciph!RemovePadding, Ciph!Paddings

CipherTypes ==
  /\ cipherPc \in {"idle", "new", "init", "padding", "update", "final", "return"}
  /\ cipherCall \in [op : Ciph!Ops, p : Modes, arg : Octets, in : Octets,
                     out : SUBSET Octets, fault : BOOLEAN] \cup {Ciph!Idle}
  /\ cipherPc = "idle" <=> cipherCall = Ciph!Idle
  /\ ctxs = (IF cipherPc \in {"idle", "new", "return"} THEN 0 ELSE 1)
  /\ cipherBuf \in {"none", "data", "zeroed"}
  /\ made \in [kind : {"made"}, p : Modes, arg : Octets, out : SUBSET Octets] \cup {Ciph!None}
  /\ cipherReply \in [op : Ciph!Ops, p : Modes, arg : Octets, kind : {"ok", "ErrVerification", "Error"},
                      out : SUBSET Octets, fault : BOOLEAN] \cup {Ciph!None}

(* The buffer has data only between an Update and a failure.                *)
CipherStage ==
  /\ cipherPc # "idle" => cipherReply = Ciph!None
  /\ cipherPc \in {"new", "init", "padding", "update"} => cipherBuf = "none"
  /\ cipherPc \in {"new", "init", "padding", "update", "final"} => ~cipherCall.fault
  /\ cipherPc = "return" /\ cipherCall.fault => cipherBuf # "data"

CipherInv == CipherTypes /\ CipherStage /\ Ciph!FailuresAlike /\ Ciph!BufferWiped

(* The initial states satisfy the invariant.                                *)
LEMMA CipherInit == Ciph!Init => CipherInv
BY DEF Ciph!Init, CipherInv, CipherTypes, CipherStage, Ciph!FailuresAlike, Ciph!BufferWiped

(* A call that begins or goes on.                                           *)
LEMMA CipherMoves ==
  ASSUME CipherInv, cipherReply = Ciph!None, UNCHANGED <<made, cipherReply>>,
         cipherPc' \in {"new", "init", "padding", "update", "final", "return"},
         cipherCall' \in [op : Ciph!Ops, p : Modes, arg : Octets, in : Octets,
                         out : SUBSET Octets, fault : BOOLEAN],
         cipherBuf' \in {"none", "data", "zeroed"},
         ctxs' = (IF cipherPc' \in {"new", "return"} THEN 0 ELSE 1),
         cipherPc' \in {"new", "init", "padding", "update"} => cipherBuf' = "none",
         IF cipherPc' = "return" THEN (cipherCall.fault)' => cipherBuf' # "data"
         ELSE ~(cipherCall.fault)'
  PROVE  CipherInv'
<1>1. cipherCall' # Ciph!Idle
  <2>1. (cipherCall.op)' \in Ciph!Ops
    OBVIOUS
  <2>2. Ciph!Idle.op = "none" /\ "none" \notin Ciph!Ops
    BY DEF Ciph!Idle, Ciph!Ops
  <2>3. QED
    BY <2>1, <2>2
<1>2. CipherTypes'
  BY <1>1 DEF CipherInv, CipherTypes
<1>3. CipherStage'
  BY DEF CipherStage
<1>4. (Ciph!FailuresAlike)' /\ (Ciph!BufferWiped)'
  BY DEF Ciph!FailuresAlike, Ciph!BufferWiped
<1>5. QED
  BY <1>2, <1>3, <1>4 DEF CipherInv

(* A call is answered, at once or when it has run.                          *)
LEMMA CipherAnswers ==
  ASSUME CipherInv, NEW op \in Ciph!Ops, NEW p \in Modes, NEW arg \in Octets,
         NEW kind \in {"ok", "ErrVerification", "Error"}, NEW o \in SUBSET Octets,
         NEW fault1 \in BOOLEAN,
         Ciph!Answer(op, p, arg, kind, o, fault1),
         cipherPc' = "idle", cipherCall' = Ciph!Idle, ctxs' = 0,
         cipherBuf' \in {"none", "data", "zeroed"},
         made' \in [kind : {"made"}, p : Modes, arg : Octets, out : SUBSET Octets] \cup {Ciph!None},
         op = "decrypt" => kind # "Error",
         fault1 => cipherBuf' # "data"
  PROVE  CipherInv'
<1> DEFINE r == [op |-> op, p |-> p, arg |-> arg, kind |-> kind, out |-> o, fault |-> fault1]
<1>1. cipherReply' = r
  BY DEF Ciph!Answer
<1>2. /\ r \in [op : Ciph!Ops, p : Modes, arg : Octets, kind : {"ok", "ErrVerification", "Error"},
                out : SUBSET Octets, fault : BOOLEAN]
      /\ r.op = op /\ r.kind = kind /\ r.fault = fault1
  OBVIOUS
<1> HIDE DEF r
<1>3. CipherTypes'
  BY <1>1, <1>2 DEF CipherTypes
<1>4. CipherStage'
  BY DEF CipherStage
<1>5. (Ciph!FailuresAlike)' /\ (Ciph!BufferWiped)'
  BY <1>1, <1>2 DEF Ciph!FailuresAlike, Ciph!BufferWiped
<1>6. QED
  BY <1>3, <1>4, <1>5 DEF CipherInv

(* An operation is refused, or begins.                                      *)
LEMMA CipherRefuses ==
  ASSUME CipherInv, cipherPc = "idle", NEW op \in Ciph!Ops, NEW p \in Modes, NEW arg \in Octets,
         NEW kind \in {"ErrVerification", "Error"}, op = "decrypt" => kind = "ErrVerification",
         Ciph!Refuse(op, p, arg, kind)
  PROVE  CipherInv'
<1>1. /\ cipherPc' = "idle" /\ cipherCall' = Ciph!Idle /\ ctxs' = 0 /\ cipherBuf' = "none"
      /\ Ciph!Answer(op, p, arg, kind, {}, FALSE) /\ UNCHANGED made
  BY DEF Ciph!Refuse, CipherInv, CipherTypes
<1>2. made' \in [kind : {"made"}, p : Modes, arg : Octets, out : SUBSET Octets] \cup {Ciph!None}
  BY <1>1 DEF CipherInv, CipherTypes
<1>3. FALSE \in BOOLEAN /\ {} \in SUBSET Octets /\ kind \in {"ok", "ErrVerification", "Error"}
  OBVIOUS
<1>4. QED
  BY <1>1, <1>2, <1>3, CipherAnswers

(* A call that passes the checks of its arguments begins with nothing       *)
(* allocated and no buffer.                                                 *)
LEMMA CipherStarts ==
  ASSUME CipherInv, cipherPc = "idle", cipherReply = Ciph!None,
         NEW op \in Ciph!Ops, NEW p \in Modes, NEW arg \in Octets, NEW data \in Octets,
         Ciph!Start(op, p, arg, data)
  PROVE  CipherInv'
<1> DEFINE c == [op |-> op, p |-> p, arg |-> arg, in |-> data, out |-> {}, fault |-> FALSE]
<1>1. /\ cipherCall' = c /\ cipherPc' = "new" /\ cipherBuf' = "none"
      /\ UNCHANGED <<ctxs, made, cipherReply>>
  BY DEF Ciph!Start
<1>2. FALSE \in BOOLEAN
  OBVIOUS
<1>3. /\ c \in [op : Ciph!Ops, p : Modes, arg : Octets, in : Octets,
                out : SUBSET Octets, fault : BOOLEAN]
      /\ ~c.fault
  BY <1>2
<1> HIDE DEF c
<1>4. ctxs' = 0
  BY <1>1 DEF CipherInv, CipherTypes
<1>5. QED
  BY <1>1, <1>3, <1>4, CipherMoves

(* The four operations of a caller.                                         *)
LEMMA CipherCalls ==
  ASSUME CipherInv, cipherPc = "idle", cipherReply = Ciph!None, NEW m \in Octets,
         \/ \E p \in Ciph!Paddings : Ciph!Encrypt(p, m) \/ Ciph!Decrypt(p, m)
         \/ \E p \in Ciph!Wraps : Ciph!Wrap(p, m) \/ Ciph!Unwrap(p, m)
  PROVE  CipherInv'
<1>0. {"encrypt", "decrypt"} = Ciph!Ops
  BY DEF Ciph!Ops
<1>1. ASSUME NEW p \in Ciph!Paddings, Ciph!Encrypt(p, m) PROVE CipherInv'
  <2> DEFINE data == IF ~Ciph!Stream /\ p # "PKCS7" THEN Ciph!ApplyPadding(p, m) ELSE m
  <2>1. data \in Octets /\ p \in Modes
    BY PaddedOctets DEF Modes
  <2>2. Ciph!Refuse("encrypt", p, m, "Error") \/ Ciph!Start("encrypt", p, m, data)
    BY <1>1 DEF Ciph!Encrypt
  <2>3. QED
    BY <1>0, <2>1, <2>2, CipherRefuses, CipherStarts
<1>2. ASSUME NEW p \in Ciph!Paddings, Ciph!Decrypt(p, m) PROVE CipherInv'
  <2>1. Ciph!Refuse("decrypt", p, m, "ErrVerification") \/ Ciph!Start("decrypt", p, m, m)
    BY <1>2 DEF Ciph!Decrypt
  <2>2. QED
    BY <1>0, <2>1, CipherRefuses, CipherStarts DEF Modes
<1>3. ASSUME NEW p \in Ciph!Wraps, Ciph!Wrap(p, m) PROVE CipherInv'
  <2>1. Ciph!Refuse("encrypt", p, m, "Error") \/ Ciph!Start("encrypt", p, m, m)
    BY <1>3 DEF Ciph!Wrap
  <2>2. QED
    BY <1>0, <2>1, CipherRefuses, CipherStarts DEF Modes
<1>4. ASSUME NEW p \in Ciph!Wraps, Ciph!Unwrap(p, m) PROVE CipherInv'
  <2>1. Ciph!Refuse("decrypt", p, m, "ErrVerification") \/ Ciph!Start("decrypt", p, m, m)
    BY <1>4 DEF Ciph!Unwrap
  <2>2. QED
    BY <1>0, <2>1, CipherRefuses, CipherStarts DEF Modes
<1>5. QED
  BY <1>1, <1>2, <1>3, <1>4

(* What is known of a call under way.                                       *)
LEMMA CipherUnderWay ==
  ASSUME CipherInv, cipherPc # "idle"
  PROVE  /\ cipherCall \in [op : Ciph!Ops, p : Modes, arg : Octets, in : Octets,
                            out : SUBSET Octets, fault : BOOLEAN]
         /\ cipherReply = Ciph!None /\ CipherTypes /\ CipherStage
         /\ made \in [kind : {"made"}, p : Modes, arg : Octets, out : SUBSET Octets] \cup {Ciph!None}
BY DEF CipherInv, CipherTypes, CipherStage

(* A call leaves run, with an answer of EVP or without.                     *)
LEMMA CipherLeaves ==
  ASSUME CipherInv, cipherPc # "idle", cipherPc # "return", NEW o \in SUBSET Octets,
         Ciph!Leave(o), cipherBuf' \in {"none", "data", "zeroed"},
         o = {} => cipherBuf' # "data"
  PROVE  CipherInv'
<1> DEFINE c == [cipherCall EXCEPT !.out = o, !.fault = @ \/ o = {}]
<1>1. /\ cipherCall' = c /\ cipherPc' = "return" /\ ctxs' = 0
      /\ UNCHANGED <<made, cipherReply>>
  BY DEF Ciph!Leave
<1>2. ~cipherCall.fault
  BY CipherUnderWay DEF CipherStage, CipherTypes
<1>3. (o = {}) \in BOOLEAN /\ (cipherCall.fault \/ o = {}) \in BOOLEAN
  OBVIOUS
<1>4. /\ c \in [op : Ciph!Ops, p : Modes, arg : Octets, in : Octets,
                out : SUBSET Octets, fault : BOOLEAN]
      /\ c.fault => o = {}
  BY <1>2, <1>3, CipherUnderWay
<1> HIDE DEF c
<1>5. QED
  BY <1>1, <1>4, CipherUnderWay, CipherMoves

(* run: the context, the initialisation and the padding.                    *)
LEMMA CipherPrepares == CipherInv /\ (Ciph!New \/ Ciph!Prepare) => CipherInv'
<1> SUFFICES ASSUME CipherInv, Ciph!New \/ Ciph!Prepare PROVE CipherInv'
  OBVIOUS
<1>1. cipherPc \in {"new", "init", "padding"}
  BY DEF Ciph!New, Ciph!Prepare
<1>2. cipherBuf = "none" /\ ~cipherCall.fault
  BY <1>1, CipherUnderWay DEF CipherStage
<1>3. CASE Ciph!Leave({}) /\ UNCHANGED cipherBuf
  <2>1. {} \in SUBSET Octets
    OBVIOUS
  <2>2. cipherBuf' = "none"
    BY <1>2, <1>3
  <2>3. QED
    BY <1>1, <1>3, <2>1, <2>2, CipherLeaves
<1>4. CASE /\ cipherPc' \in {"init", "padding", "update"} /\ ctxs' = 1
           /\ UNCHANGED <<cipherCall, cipherBuf, made, cipherReply>>
  BY <1>1, <1>2, <1>4, CipherUnderWay, CipherMoves
<1>5. cipherPc # "new" => ctxs = 1
  BY <1>1, CipherUnderWay DEF CipherTypes
<1>6. QED
  BY <1>3, <1>4, <1>5 DEF Ciph!New, Ciph!Prepare

(* run: EVP is given what C.int makes of the length.                        *)
LEMMA CipherUpdates == CipherInv /\ Ciph!Update => CipherInv'
<1> SUFFICES ASSUME CipherInv, Ciph!Update PROVE CipherInv'
  OBVIOUS
<1> DEFINE n == Ciph!CInt(Len(cipherCall.in))
           c == [cipherCall EXCEPT !.in = SubSeq(@, 1, n)]
<1>1. cipherPc = "update"
  BY DEF Ciph!Update
<1>2. /\ cipherBuf = "none" /\ ~cipherCall.fault /\ ctxs = 1 /\ cipherCall.in \in Octets
  BY <1>1, CipherUnderWay DEF CipherStage, CipherTypes
<1>3. CASE Ciph!Leave({}) /\ cipherBuf' = "zeroed"
  <2>1. {} \in SUBSET Octets
    OBVIOUS
  <2>2. QED
    BY <1>1, <1>3, <2>1, CipherLeaves
<1>4. CASE /\ n >= 0 /\ cipherCall' = c /\ cipherPc' = "final"
           /\ cipherBuf' = IF n = 0 THEN "none" ELSE "data"
           /\ UNCHANGED <<ctxs, made, cipherReply>>
  <2>1. n \in Int /\ n <= Len(cipherCall.in)
    BY <1>2, NarrowingShortens, LenProperties DEF Octets
  <2>2. SubSeq(cipherCall.in, 1, n) \in Octets
    BY <1>2, <2>1, PartOctets
  <2> HIDE DEF n
  <2>3. /\ c \in [op : Ciph!Ops, p : Modes, arg : Octets, in : Octets,
                  out : SUBSET Octets, fault : BOOLEAN]
        /\ ~c.fault
    BY <1>1, <1>2, <2>2, CipherUnderWay
  <2> HIDE DEF c
  <2>4. cipherBuf' \in {"none", "data", "zeroed"}
    BY <1>4
  <2>5. QED
    BY <1>1, <1>2, <1>4, <2>3, <2>4, CipherUnderWay, CipherMoves
<1>5. QED
  BY <1>1, <1>3, <1>4 DEF Ciph!Update

(* run: EVP makes something of the input, or fails.                         *)
LEMMA CipherFinishes == CipherInv /\ Ciph!Final => CipherInv'
<1> SUFFICES ASSUME CipherInv, Ciph!Final PROVE CipherInv'
  OBVIOUS
<1>1. cipherPc = "final" /\ cipherCall.in \in Octets /\ cipherCall.p \in Modes
  BY CipherUnderWay DEF Ciph!Final
<1>2. PICK o \in {{}, IF cipherCall.op = "encrypt" THEN Ciph!EVPEncrypt(cipherCall.p, cipherCall.in)
                      ELSE Ciph!EVPDecrypt(cipherCall.p, cipherCall.in)} :
        Ciph!Leave(o) /\ cipherBuf' = IF o = {} THEN "zeroed" ELSE cipherBuf
  BY DEF Ciph!Final
<1>3. o \in SUBSET Octets
  <2>1. {} \in SUBSET Octets
    OBVIOUS
  <2>2. QED
    BY <1>1, <1>2, <2>1, EncryptedOctets, DecryptedOctets
<1>4. cipherBuf' \in {"none", "data", "zeroed"} /\ (o = {} => cipherBuf' # "data")
  BY <1>2 DEF CipherInv, CipherTypes
<1>5. QED
  BY <1>1, <1>2, <1>3, <1>4, CipherLeaves

(* What comes back of a decryption.                                         *)
Left == IF Ciph!Stream \/ cipherCall.p \notin Ciph!Paddings \ {"PKCS7"} THEN cipherCall.out
        ELSE UNION {Ciph!RemovePadding(cipherCall.p, s) : s \in cipherCall.out}

(* The call returns.                                                        *)
LEMMA CipherReturns == CipherInv /\ (Ciph!ReturnEncrypt \/ Ciph!ReturnDecrypt) => CipherInv'
<1> SUFFICES ASSUME CipherInv, Ciph!ReturnEncrypt \/ Ciph!ReturnDecrypt PROVE CipherInv'
  OBVIOUS
<1>1. cipherPc = "return"
  BY DEF Ciph!ReturnEncrypt, Ciph!ReturnDecrypt
<1>2. /\ cipherCall.op \in Ciph!Ops /\ cipherCall.p \in Modes /\ cipherCall.arg \in Octets
      /\ cipherCall.out \in SUBSET Octets /\ cipherCall.fault \in BOOLEAN
      /\ ctxs = 0 /\ (cipherCall.fault => cipherBuf # "data")
      /\ cipherBuf \in {"none", "data", "zeroed"}
      /\ made \in [kind : {"made"}, p : Modes, arg : Octets, out : SUBSET Octets] \cup {Ciph!None}
  BY <1>1, CipherUnderWay DEF CipherTypes, CipherStage
<1>3. ASSUME NEW kind \in {"ok", "ErrVerification", "Error"}, NEW o \in SUBSET Octets,
             Ciph!Finish(kind, o), cipherCall.op = "decrypt" => kind # "Error",
             made' \in [kind : {"made"}, p : Modes, arg : Octets, out : SUBSET Octets]
                         \cup {Ciph!None}
      PROVE  CipherInv'
  <2>1. /\ cipherPc' = "idle" /\ cipherCall' = Ciph!Idle /\ UNCHANGED <<ctxs, cipherBuf>>
        /\ Ciph!Answer(cipherCall.op, cipherCall.p, cipherCall.arg, kind, o, cipherCall.fault)
    BY <1>3 DEF Ciph!Finish
  <2>2. QED
    BY <1>2, <1>3, <2>1, CipherAnswers
<1>4. CASE Ciph!ReturnEncrypt
  <2> DEFINE m == [kind |-> "made", p |-> cipherCall.p, arg |-> cipherCall.arg, out |-> cipherCall.out]
  <2>1. m \in [kind : {"made"}, p : Modes, arg : Octets, out : SUBSET Octets]
    BY <1>2
  <2>2. /\ made' = (IF cipherCall.out = {} THEN made ELSE m) /\ cipherCall.op = "encrypt"
        /\ IF cipherCall.out = {} THEN Ciph!Finish("Error", {}) ELSE Ciph!Finish("ok", cipherCall.out)
    BY <1>4 DEF Ciph!ReturnEncrypt
  <2> HIDE DEF m
  <2>3. {} \in SUBSET Octets
    OBVIOUS
  <2>4. QED
    BY <1>2, <1>3, <2>1, <2>2, <2>3
<1>5. CASE Ciph!ReturnDecrypt
  <2>1. Ciph!Finish(IF Left = {} THEN "ErrVerification" ELSE "ok", Left) /\ UNCHANGED made
    BY <1>5 DEF Ciph!ReturnDecrypt, Left
  <2>2. Left \in SUBSET Octets
    BY <1>2, RemovedOctets DEF Left
  <2>3. (IF Left = {} THEN "ErrVerification" ELSE "ok") \in {"ok", "ErrVerification", "Error"} \ {"Error"}
    OBVIOUS
  <2>4. QED
    BY <1>2, <1>3, <2>1, <2>2, <2>3
<1>6. QED
  BY <1>4, <1>5

(* The caller takes the answer.                                             *)
LEMMA CipherTaken == CipherInv /\ Ciph!Taken => CipherInv'
<1> SUFFICES ASSUME CipherInv, Ciph!Taken PROVE CipherInv'
  OBVIOUS
<1>1. cipherReply' = Ciph!None /\ UNCHANGED <<cipherPc, cipherCall, ctxs, cipherBuf, made>>
  BY DEF Ciph!Taken
<1>2. CipherTypes' /\ CipherStage'
  BY <1>1 DEF CipherInv, CipherTypes, CipherStage
<1>3. (Ciph!FailuresAlike)' /\ (Ciph!BufferWiped)'
  BY <1>1 DEF Ciph!FailuresAlike, Ciph!BufferWiped
<1>4. QED
  BY <1>2, <1>3 DEF CipherInv

(* Every step of a cipher preserves the invariant.                          *)
LEMMA CipherNext == CipherInv /\ Ciph!Next => CipherInv'
<1> SUFFICES ASSUME CipherInv, Ciph!Next PROVE CipherInv'
  OBVIOUS
<1>1. Ciph!Messages \subseteq Octets
  <2> SUFFICES ASSUME NEW m \in Ciph!Messages PROVE m \in Octets
    OBVIOUS
  <2>1. PICK n \in 0..MaxLen : m \in [1..n -> Bytes]
    BY DEF Ciph!Messages
  <2>2. n \in Nat
    BY BoundsAssumption
  <2>3. m \in [1..n -> Nat]
    BY <2>1, BytesAssumption
  <2>4. QED
    BY <2>2, <2>3, SeqDef DEF Octets
<1>2. Ciph!Inputs \subseteq Octets
  BY <1>1 DEF Ciph!Inputs, CipherInv, CipherTypes
<1>3. CASE /\ cipherPc = "idle" /\ cipherReply = Ciph!None
           /\ \/ /\ made = Ciph!None
                 /\ \E m \in Ciph!Messages : \/ \E p \in Ciph!Paddings : Ciph!Encrypt(p, m)
                                            \/ \E p \in Ciph!Wraps : Ciph!Wrap(p, m)
              \/ \E c \in Ciph!Inputs : \/ \E p \in Ciph!Paddings : Ciph!Decrypt(p, c)
                                       \/ \E p \in Ciph!Wraps : Ciph!Unwrap(p, c)
  BY <1>1, <1>2, <1>3, CipherCalls
<1>4. QED
  BY <1>3, CipherPrepares, CipherUpdates, CipherFinishes, CipherReturns, CipherTaken
     DEF Ciph!Next

(* One C call of an operation: it goes on, or is answered.                  *)
LEMMA CipherRuns ==
  ASSUME CipherInv,
         \/ Ciph!New \/ Ciph!Prepare \/ Ciph!Update \/ Ciph!Final
         \/ Ciph!ReturnEncrypt \/ Ciph!ReturnDecrypt
  PROVE  /\ cipherPc # "idle"
         /\ \/ /\ cipherPc' # "idle" /\ UNCHANGED <<made, cipherReply>>
               /\ (cipherCall.op)' = cipherCall.op /\ (cipherCall.p)' = cipherCall.p
               /\ (cipherCall.arg)' = cipherCall.arg
            \/ /\ cipherPc = "return" /\ cipherPc' = "idle" /\ cipherReply' # Ciph!None
               /\ (cipherReply.op)' = cipherCall.op /\ (cipherReply.p)' = cipherCall.p
               /\ (cipherReply.arg)' = cipherCall.arg /\ (cipherReply.fault)' = cipherCall.fault
               /\ IF cipherCall.op = "encrypt"
                  THEN /\ (cipherReply.out)' = cipherCall.out
                       /\ (cipherReply.kind)' = IF cipherCall.out = {} THEN "Error" ELSE "ok"
                       /\ made' = IF cipherCall.out = {} THEN made
                                  ELSE [kind |-> "made", p |-> cipherCall.p,
                                        arg |-> cipherCall.arg, out |-> cipherCall.out]
                  ELSE /\ (cipherReply.out)' = Left /\ UNCHANGED made
                       /\ (cipherReply.kind)' = IF Left = {} THEN "ErrVerification" ELSE "ok"
<1>1. cipherPc # "idle"
  BY DEF Ciph!New, Ciph!Prepare, Ciph!Update, Ciph!Final, Ciph!ReturnEncrypt, Ciph!ReturnDecrypt
<1>2. cipherCall \in [op : Ciph!Ops, p : Modes, arg : Octets, in : Octets,
                     out : SUBSET Octets, fault : BOOLEAN]
  BY <1>1, CipherUnderWay
<1>3. ASSUME NEW kind \in {"ok", "ErrVerification", "Error"}, NEW o \in SUBSET Octets,
             Ciph!Finish(kind, o)
      PROVE  /\ cipherPc' = "idle" /\ cipherReply' # Ciph!None
             /\ (cipherReply.op)' = cipherCall.op /\ (cipherReply.p)' = cipherCall.p
             /\ (cipherReply.arg)' = cipherCall.arg /\ (cipherReply.fault)' = cipherCall.fault
             /\ (cipherReply.out)' = o /\ (cipherReply.kind)' = kind
  <2> DEFINE r == [op |-> cipherCall.op, p |-> cipherCall.p, arg |-> cipherCall.arg, kind |-> kind,
                   out |-> o, fault |-> cipherCall.fault]
  <2>1. cipherPc' = "idle" /\ cipherReply' = r
    BY <1>3 DEF Ciph!Finish, Ciph!Answer
  <2>2. /\ r.op = cipherCall.op /\ r.p = cipherCall.p /\ r.arg = cipherCall.arg
        /\ r.kind = kind /\ r.out = o /\ r.fault = cipherCall.fault
    OBVIOUS
  <2> HIDE DEF r
  <2>3. Ciph!None.kind = "none"
    BY DEF Ciph!None
  <2>4. QED
    BY <2>1, <2>2, <2>3
<1>4. CASE \E o \in SUBSET Octets : Ciph!Leave(o)
  <2>1. PICK o \in SUBSET Octets : Ciph!Leave(o)
    BY <1>4
  <2> DEFINE c == [cipherCall EXCEPT !.out = o, !.fault = @ \/ o = {}]
  <2>2. cipherPc' = "return" /\ cipherCall' = c /\ UNCHANGED <<made, cipherReply>>
    BY <2>1 DEF Ciph!Leave
  <2>3. c.op = cipherCall.op /\ c.p = cipherCall.p /\ c.arg = cipherCall.arg
    BY <1>2
  <2> HIDE DEF c
  <2>4. QED
    BY <1>1, <2>2, <2>3
<1>5. {} \in SUBSET Octets
  OBVIOUS
<1>6. CASE Ciph!New \/ Ciph!Prepare
  BY <1>1, <1>4, <1>5, <1>6 DEF Ciph!New, Ciph!Prepare
<1>7. CASE Ciph!Update
  <2> DEFINE data == SubSeq(cipherCall.in, 1, Ciph!CInt(Len(cipherCall.in)))
             c == [cipherCall EXCEPT !.in = data]
  <2>1. \/ Ciph!Leave({})
        \/ cipherPc' = "final" /\ cipherCall' = c /\ UNCHANGED <<made, cipherReply>>
    BY <1>7 DEF Ciph!Update
  <2> HIDE DEF data
  <2>2. c.op = cipherCall.op /\ c.p = cipherCall.p /\ c.arg = cipherCall.arg
    BY <1>2
  <2> HIDE DEF c
  <2>3. QED
    BY <1>1, <1>4, <1>5, <2>1, <2>2
<1>8. CASE Ciph!Final
  <2>1. PICK o \in {{}, IF cipherCall.op = "encrypt" THEN Ciph!EVPEncrypt(cipherCall.p, cipherCall.in)
                        ELSE Ciph!EVPDecrypt(cipherCall.p, cipherCall.in)} : Ciph!Leave(o)
    BY <1>8 DEF Ciph!Final
  <2>2. o \in SUBSET Octets
    BY <1>2, <1>5, <2>1, EncryptedOctets, DecryptedOctets
  <2>3. QED
    BY <1>4, <2>1, <2>2
<1>9. CASE Ciph!ReturnEncrypt
  <2>1. /\ cipherCall.op = "encrypt" /\ cipherPc = "return"
        /\ Ciph!Finish(IF cipherCall.out = {} THEN "Error" ELSE "ok", cipherCall.out)
        /\ made' = IF cipherCall.out = {} THEN made
                   ELSE [kind |-> "made", p |-> cipherCall.p,
                         arg |-> cipherCall.arg, out |-> cipherCall.out]
    BY <1>9 DEF Ciph!ReturnEncrypt
  <2>2. cipherCall.out \in SUBSET Octets
    BY <1>2
  <2>3. QED
    BY <1>1, <1>3, <2>1, <2>2
<1>10. CASE Ciph!ReturnDecrypt
  <2>1. /\ cipherCall.op = "decrypt" /\ cipherPc = "return" /\ UNCHANGED made
        /\ Ciph!Finish(IF Left = {} THEN "ErrVerification" ELSE "ok", Left)
    BY <1>10 DEF Ciph!ReturnDecrypt, Left
  <2>2. Left \in SUBSET Octets
    BY <1>2, RemovedOctets DEF Left
  <2>3. QED
    BY <1>1, <1>3, <2>1, <2>2
<1>11. QED
  BY <1>6, <1>7, <1>8, <1>9, <1>10

-----------------------------------------------------------------------------
(* Trial.                                                                   *)

TrialTypes ==
  /\ cap \in Ciph!Caps
  /\ at \in {"idle", "check", "checked", "make", "protect", "protecting",
             "recover", "recovering", "compare"}
  /\ got \in {"nothing", "same", "different"}
  /\ unwell \in BOOLEAN
  /\ verdict \in {"none", "ok", "unsupported", "failed in practice"}

(* One handle at most is open; nothing has gone wrong until the end.        *)
TrialStage ==
  /\ trialHandles \in Nat
  /\ at \in {"idle", "check", "make"} => trialHandles = 0
  /\ at \notin {"idle", "check", "make", "checked"} => trialHandles = 1
  /\ at # "idle" => verdict = "none"
  /\ verdict = "none" => ~unwell
  /\ at = "idle" /\ verdict = "ok" => got = "same" /\ ~unwell

(* The cipher is at work only while the trial waits for it.                 *)
TrialCipher ==
  /\ subject \in Subjects /\ (subject = "cipher" => at = "idle")
  /\ at \in {"protecting", "recovering"} => /\ cap.kind = "cipher"
                                            /\ cipherPc = "idle" => cipherReply # Ciph!None
  /\ at \notin {"protecting", "recovering"} /\ subject # "cipher" =>
       cipherPc = "idle" /\ cipherReply = Ciph!None
  /\ at = "protecting" => /\ cipherPc # "idle" => cipherCall.op = "encrypt"
                          /\ cipherReply # Ciph!None /\ cipherReply.kind = "ok" => made # Ciph!None
  /\ at \in {"recover", "recovering"} /\ cap.kind = "cipher" => made # Ciph!None

TrialInv == CipherInv /\ TrialTypes /\ TrialStage /\ TrialCipher

(* The initial states satisfy the invariant.                                *)
LEMMA TrialInitial == Ciph!TrialInit /\ subject \in Subjects => TrialInv
<1> SUFFICES ASSUME Ciph!TrialInit, subject \in Subjects PROVE TrialInv
  OBVIOUS
<1>1. CipherInv /\ cipherPc = "idle" /\ cipherReply = Ciph!None
  BY CipherInit DEF Ciph!TrialInit, Ciph!Init
<1>2. TrialTypes /\ TrialStage /\ TrialCipher
  BY <1>1 DEF Ciph!TrialInit, TrialTypes, TrialStage, TrialCipher
<1>3. QED
  BY <1>1, <1>2 DEF TrialInv

(* The probe is a block of bytes.                                           *)
LEMMA ProbeOctets == "trial" \in Subjects => Ciph!Probe \in Octets /\ Len(Ciph!Probe) = Block
<1> SUFFICES ASSUME "trial" \in Subjects PROVE Ciph!Probe \in Octets /\ Len(Ciph!Probe) = Block
  OBVIOUS
<1>1. Ciph!Mark \in Nat
  BY ProbeAssumption, BytesAssumption DEF Ciph!Mark
<1>2. Block \in Nat
  BY BoundsAssumption
<1>3. Ciph!Probe \in [1..Block -> Nat]
  BY <1>1 DEF Ciph!Probe
<1>4. Ciph!Probe \in Octets
  BY <1>2, <1>3, SeqDef DEF Octets
<1>5. QED
  BY <1>2, <1>3, <1>4, LenProperties DEF Octets

(* A cipher that does nothing keeps its invariant.                          *)
LEMMA CipherStutters == CipherInv /\ UNCHANGED cipherVars => CipherInv'
<1> SUFFICES ASSUME CipherInv, UNCHANGED cipherVars PROVE CipherInv'
  OBVIOUS
<1>1. UNCHANGED <<cipherPc, cipherCall, ctxs, cipherBuf, made, cipherReply>>
  BY DEF cipherVars
<1>2. CipherTypes' /\ CipherStage'
  BY <1>1 DEF CipherInv, CipherTypes, CipherStage
<1>3. (Ciph!FailuresAlike)' /\ (Ciph!BufferWiped)'
  BY <1>1 DEF CipherInv, Ciph!FailuresAlike, Ciph!BufferWiped
<1>4. QED
  BY <1>2, <1>3 DEF CipherInv

(* The steps of VerifyCapability in which no cipher works.                  *)
LEMMA TrialSteps ==
  ASSUME TrialInv, subject = "trial", UNCHANGED subject,
         Ciph!Ask \/ Ciph!Check \/ Ciph!CheckClose \/ Ciph!Make \/ Ciph!Protect \/ Ciph!Recover
           \/ Ciph!Compare
  PROVE  TrialInv'
<1>0. /\ CipherInv /\ TrialTypes /\ TrialStage /\ TrialCipher
      /\ subject \in Subjects /\ UNCHANGED subject
  BY DEF TrialInv, TrialCipher
<1>1. UNCHANGED <<cipherPc, cipherCall, ctxs, cipherBuf, made, cipherReply>> /\ UNCHANGED cap
  BY DEF Ciph!Ask, Ciph!Check, Ciph!CheckClose, Ciph!Make, Ciph!Protect, Ciph!Recover, Ciph!Compare,
         Ciph!Move, Ciph!NotBuilt, Ciph!Conclude, Ciph!Ends, Ciph!vars
<1>2. CipherInv'
  BY <1>0, <1>1, CipherStutters DEF cipherVars
<1>3. at \notin {"protecting", "recovering"} /\ at' \notin {"protecting", "recovering"}
  BY DEF Ciph!Ask, Ciph!Check, Ciph!CheckClose, Ciph!Make, Ciph!Protect, Ciph!Recover, Ciph!Compare,
         Ciph!Move, Ciph!NotBuilt, Ciph!Conclude, Ciph!Ends
<1>4. cipherPc = "idle" /\ cipherReply = Ciph!None
  BY <1>0, <1>3 DEF TrialCipher
<1>5. at' = "recover" => cap.kind # "cipher"
  BY DEF Ciph!Ask, Ciph!Check, Ciph!CheckClose, Ciph!Make, Ciph!Protect, Ciph!Recover, Ciph!Compare,
         Ciph!Move, Ciph!NotBuilt, Ciph!Conclude, Ciph!Ends
<1>6. TrialCipher'
  BY <1>0, <1>1, <1>3, <1>4, <1>5 DEF TrialCipher
<1>7. ASSUME NEW v \in {"ok", "unsupported", "failed in practice"}, NEW bad \in BOOLEAN,
             NEW n, n = 0, at # "idle", Ciph!Ends(v, bad, n), got' \in {got, "same", "different"},
             v = "ok" => got' = "same" /\ ~bad
      PROVE  TrialTypes' /\ TrialStage'
  <2>1. /\ at' = "idle" /\ verdict' = v /\ unwell' = (unwell \/ bad) /\ trialHandles' = 0
        /\ UNCHANGED cap
    BY <1>7 DEF Ciph!Ends
  <2>2. unwell' \in BOOLEAN
    BY <1>0, <1>7, <2>1 DEF TrialTypes
  <2>3. verdict' = "ok" => got' = "same" /\ ~unwell'
    BY <1>0, <1>7, <2>1 DEF TrialStage
  <2>4. TrialTypes'
    BY <1>0, <1>7, <2>1, <2>2 DEF TrialTypes
  <2>5. TrialStage'
    BY <2>1, <2>3 DEF TrialStage
  <2>6. QED
    BY <2>4, <2>5
<1>8. ASSUME at # "idle" \/ verdict = "none", UNCHANGED <<cap, got, unwell, verdict>>,
             at' \in {"check", "checked", "make", "protect", "recover"}, trialHandles' \in {0, 1},
             at' \in {"check", "make"} => trialHandles' = 0,
             at' \in {"protect", "recover"} => trialHandles' = 1
      PROVE  TrialTypes' /\ TrialStage'
  <2>1. TrialTypes'
    BY <1>0, <1>8 DEF TrialTypes
  <2>2. verdict = "none" /\ ~unwell
    BY <1>0, <1>8 DEF TrialStage
  <2>3. TrialStage'
    BY <1>8, <2>2 DEF TrialStage
  <2>4. QED
    BY <2>1, <2>3
<1>9. TrialTypes' /\ TrialStage'
  <2>0. /\ at \in {"idle", "check", "make"} => trialHandles = 0
        /\ at \in {"protect", "recover", "compare"} => trialHandles = 1 /\ trialHandles - 1 = 0
    BY <1>0 DEF TrialStage
  <2>b. TRUE \in BOOLEAN /\ FALSE \in BOOLEAN
    OBVIOUS
  <2>1. CASE Ciph!Ask
    <3>1. at = "idle" /\ trialHandles = 0
      BY <2>0, <2>1 DEF Ciph!Ask
    <3>2. QED
      BY <1>8, <2>1, <3>1 DEF Ciph!Ask
  <2>2. CASE Ciph!Check
    <3>1. trialHandles = 0 /\ at = "check"
      BY <2>0, <2>2 DEF Ciph!Check
    <3>2. QED
      BY <1>7, <1>8, <2>b, <2>2, <3>1 DEF Ciph!Check, Ciph!Move, Ciph!NotBuilt
  <2>3. CASE Ciph!CheckClose
    BY <1>8, <2>3 DEF Ciph!CheckClose, Ciph!Move
  <2>4. CASE Ciph!Make
    <3>1. trialHandles = 0 /\ at = "make"
      BY <2>0, <2>4 DEF Ciph!Make
    <3>2. CASE Ciph!Move("protect", trialHandles + 1) /\ UNCHANGED got
      <4>1. trialHandles' = 1
        BY <3>1, <3>2 DEF Ciph!Move
      <4>2. QED
        BY <1>8, <3>1, <3>2, <4>1 DEF Ciph!Move
    <3>3. CASE Ciph!NotBuilt("failed in practice") /\ UNCHANGED got
      BY <1>7, <2>b, <3>1, <3>3 DEF Ciph!NotBuilt
    <3>4. QED
      BY <2>4, <3>2, <3>3 DEF Ciph!Make
  <2>5. CASE Ciph!Protect
    <3>1. trialHandles = 1 /\ trialHandles - 1 = 0 /\ at = "protect"
      BY <2>0, <2>5 DEF Ciph!Protect
    <3>2. QED
      BY <1>7, <1>8, <2>b, <2>5, <3>1 DEF Ciph!Protect, Ciph!Move, Ciph!Conclude
  <2>6. CASE Ciph!Recover
    <3>1. trialHandles - 1 = 0 /\ at = "recover"
      BY <2>0, <2>6 DEF Ciph!Recover
    <3>2. CASE Ciph!Conclude("failed in practice", TRUE) /\ got' \in {got, "same", "different"}
      BY <1>7, <2>b, <3>1, <3>2 DEF Ciph!Conclude
    <3>3. CASE Ciph!Conclude("ok", FALSE) /\ got' = "same"
      BY <1>7, <2>b, <3>1, <3>3 DEF Ciph!Conclude
    <3>4. QED
      BY <2>6, <3>2, <3>3 DEF Ciph!Recover
  <2>7. CASE Ciph!Compare
    <3>1. trialHandles - 1 = 0 /\ at = "compare"
      BY <2>0, <2>7 DEF Ciph!Compare
    <3>2. CASE got = "same"
      BY <1>7, <2>b, <2>7, <3>1, <3>2 DEF Ciph!Conclude, Ciph!Compare
    <3>3. CASE got # "same"
      BY <1>7, <2>b, <2>7, <3>1, <3>3 DEF Ciph!Conclude, Ciph!Compare
    <3>4. QED
      BY <3>2, <3>3
  <2>8. QED
    BY <2>1, <2>2, <2>3, <2>4, <2>5, <2>6, <2>7
<1>10. QED
  BY <1>2, <1>6, <1>9 DEF TrialInv

(* The steps in which one does.                                             *)
LEMMA TrialCalls ==
  ASSUME TrialInv, subject = "trial", UNCHANGED subject, Ciph!TrialEncrypt \/ Ciph!TrialDecrypt
  PROVE  TrialInv'
<1>0. /\ CipherInv /\ TrialTypes /\ TrialStage /\ TrialCipher /\ subject \in Subjects
  BY DEF TrialInv, TrialCipher
<1>1. /\ at \in {"protect", "recover"} /\ cap.kind = "cipher"
      /\ UNCHANGED <<cap, trialHandles, got, unwell, verdict>>
      /\ at' = IF at = "protect" THEN "protecting" ELSE "recovering"
  BY DEF Ciph!TrialEncrypt, Ciph!TrialDecrypt
<1>2. cipherPc = "idle" /\ cipherReply = Ciph!None /\ cap.p \in Ciph!Paddings
  BY <1>0, <1>1 DEF TrialCipher, TrialTypes, Ciph!Caps
<1>3. UNCHANGED made /\ (cipherPc' = "idle" => (cipherReply # Ciph!None)')
  BY <1>2 DEF Ciph!TrialEncrypt, Ciph!TrialDecrypt, Ciph!Encrypt, Ciph!Decrypt, Ciph!Refuse,
              Ciph!Start, Ciph!Answer, Ciph!None
<1>4. CipherInv'
  <2>1. CASE Ciph!TrialEncrypt
    <3>1. Ciph!Encrypt(cap.p, Ciph!Probe)
      BY <2>1 DEF Ciph!TrialEncrypt
    <3>2. QED
      BY <1>0, <1>2, <3>1, ProbeOctets, CipherCalls
  <2>2. CASE Ciph!TrialDecrypt
    <3>1. PICK c \in made.out : Ciph!Decrypt(cap.p, c)
      BY <2>2 DEF Ciph!TrialDecrypt
    <3>2. made # Ciph!None
      BY <1>0, <1>1, <2>2 DEF TrialCipher, Ciph!TrialDecrypt
    <3>3. c \in Octets
      BY <1>0, <3>2 DEF CipherInv, CipherTypes
    <3>4. QED
      BY <1>0, <1>2, <3>1, <3>3, CipherCalls
  <2>3. QED
    BY <2>1, <2>2
<1>5. TrialTypes' /\ TrialStage'
  BY <1>0, <1>1 DEF TrialTypes, TrialStage
<1>6. TrialCipher'
  <2>1. CASE at = "protect"
    <3>1. cipherPc' # "idle" => (cipherCall.op)' = "encrypt"
      <4> DEFINE data == IF ~Ciph!Stream /\ cap.p # "PKCS7" THEN Ciph!ApplyPadding(cap.p, Ciph!Probe)
                         ELSE Ciph!Probe
                 c == [op |-> "encrypt", p |-> cap.p, arg |-> Ciph!Probe, in |-> data,
                       out |-> {}, fault |-> FALSE]
      <4>1. cipherPc' = "idle" \/ cipherCall' = c
        BY <1>2, <2>1 DEF Ciph!TrialEncrypt, Ciph!TrialDecrypt, Ciph!Encrypt, Ciph!Refuse, Ciph!Start
      <4>2. c.op = "encrypt"
        OBVIOUS
      <4> HIDE DEF c
      <4>3. QED
        BY <4>1, <4>2
    <3>2. (cipherReply # Ciph!None)' => (cipherReply.kind)' # "ok"
      BY <1>2, <2>1 DEF Ciph!TrialEncrypt, Ciph!TrialDecrypt, Ciph!Encrypt, Ciph!Refuse, Ciph!Start,
                        Ciph!Answer
    <3>3. QED
      BY <1>0, <1>1, <1>3, <2>1, <3>1, <3>2 DEF TrialCipher
  <2>2. CASE at = "recover"
    BY <1>0, <1>1, <1>3, <2>2 DEF TrialCipher
  <2>3. QED
    BY <1>1, <2>1, <2>2
<1>7. QED
  BY <1>4, <1>5, <1>6 DEF TrialInv

(* The steps and the answer of the cipher call that a trial waits for.      *)
LEMMA TrialWorks ==
  ASSUME TrialInv, subject = "trial", UNCHANGED subject, Ciph!Calling \/ Ciph!Called
  PROVE  TrialInv'
<1>0. /\ CipherInv /\ TrialTypes /\ TrialStage /\ TrialCipher /\ subject \in Subjects
      /\ at \in {"protecting", "recovering"} /\ cap.kind = "cipher"
  BY DEF TrialInv, TrialCipher, Ciph!Calling, Ciph!Called
<1>1. CASE Ciph!Calling
  <2>1. /\ UNCHANGED <<cap, at, trialHandles, got, unwell, verdict>>
        /\ \/ Ciph!New \/ Ciph!Prepare \/ Ciph!Update \/ Ciph!Final
           \/ Ciph!ReturnEncrypt \/ Ciph!ReturnDecrypt
    BY <1>1 DEF Ciph!Calling, Ciph!trialVars
  <2>2. CipherInv'
    BY <1>0, <2>1, CipherPrepares, CipherUpdates, CipherFinishes, CipherReturns
  <2>3. TrialTypes' /\ TrialStage'
    BY <1>0, <2>1 DEF TrialTypes, TrialStage
  <2>4. TrialCipher'
    <3>1. made # Ciph!None => made' # Ciph!None
      <4>1. Ciph!None.kind = "none"
        BY DEF Ciph!None
      <4>2. QED
        BY <1>0, <2>1, <4>1, CipherRuns
    <3>2. cipherPc' = "idle" => (cipherReply # Ciph!None)'
      BY <1>0, <2>1, CipherRuns
    <3>3. ASSUME at = "protecting"
          PROVE  /\ cipherPc' # "idle" => (cipherCall.op)' = "encrypt"
                 /\ (cipherReply # Ciph!None)' /\ (cipherReply.kind)' = "ok" => made' # Ciph!None
      <4>1. cipherPc # "idle" /\ cipherCall.op = "encrypt" /\ cipherReply = Ciph!None
        BY <1>0, <2>1, <3>3, CipherRuns, CipherUnderWay DEF TrialCipher
      <4>2. cipherPc' # "idle" => (cipherCall.op)' = "encrypt"
        BY <1>0, <2>1, <4>1, CipherRuns
      <4>3. ASSUME cipherReply' # Ciph!None, (cipherReply.kind)' = "ok" PROVE made' # Ciph!None
        <5>1. made' = [kind |-> "made", p |-> cipherCall.p,
                       arg |-> cipherCall.arg, out |-> cipherCall.out]
          BY <1>0, <2>1, <4>1, <4>3, CipherRuns
        <5>2. (made.kind)' = "made" /\ Ciph!None.kind = "none"
          BY <5>1 DEF Ciph!None
        <5>3. QED
          BY <5>2
      <4>4. QED
        BY <4>2, <4>3
    <3>4. QED
      BY <1>0, <2>1, <3>1, <3>2, <3>3 DEF TrialCipher
  <2>5. QED
    BY <2>2, <2>3, <2>4 DEF TrialInv
<1>2. CASE Ciph!Called
  <2>1. /\ cipherReply # Ciph!None /\ Ciph!Taken
        /\ UNCHANGED cap /\ got' \in {got, "same", "different"}
        /\ IF cipherReply.kind # "ok"
           THEN /\ Ciph!Ends("failed in practice", cipherReply.fault, trialHandles - 1)
                /\ UNCHANGED got
           ELSE /\ at' = IF at = "protecting" THEN "recover" ELSE "compare"
                /\ UNCHANGED <<trialHandles, unwell, verdict>>
    BY <1>2 DEF Ciph!Called, Ciph!Ends
  <2>2. CipherInv'
    BY <1>0, <2>1, CipherTaken
  <2>3. /\ cipherPc = "idle" /\ cipherPc' = "idle" /\ cipherReply' = Ciph!None
        /\ UNCHANGED made /\ cipherReply.fault \in BOOLEAN
    BY <1>0, <2>1 DEF Ciph!Taken, CipherInv, CipherStage, CipherTypes
  <2>4. at' = "recover" => made # Ciph!None
    BY <1>0, <2>1 DEF TrialCipher, Ciph!Ends
  <2>5. CASE cipherReply.kind # "ok"
    <3>1. /\ at' = "idle" /\ verdict' = "failed in practice" /\ trialHandles' = trialHandles - 1
          /\ unwell' = (unwell \/ cipherReply.fault) /\ UNCHANGED got
      BY <2>1, <2>5 DEF Ciph!Ends
    <3>2. unwell' \in BOOLEAN
      BY <1>0, <2>3, <3>1 DEF TrialTypes
    <3>3. trialHandles' = 0
      <4>1. trialHandles = 1
        BY <1>0 DEF TrialStage
      <4>2. trialHandles' = trialHandles - 1
        BY <3>1
      <4>3. QED
        BY <4>1, <4>2
    <3>4. TrialTypes' /\ TrialStage'
      <4>1. TrialTypes'
        BY <1>0, <2>1, <3>1, <3>2 DEF TrialTypes
      <4>2. at' = "idle" /\ verdict' = "failed in practice"
        BY <3>1
      <4>3. TrialStage'
        BY <3>3, <4>2 DEF TrialStage
      <4>4. QED
        BY <4>1, <4>3
    <3>5. TrialCipher'
      BY <1>0, <2>3, <3>1 DEF TrialCipher
    <3>6. QED
      BY <2>2, <3>4, <3>5 DEF TrialInv
  <2>6. CASE cipherReply.kind = "ok"
    <3>1. at' = (IF at = "protecting" THEN "recover" ELSE "compare")
          /\ UNCHANGED <<trialHandles, unwell, verdict>>
      BY <2>1, <2>6
    <3>2. TrialTypes' /\ TrialStage'
      BY <1>0, <2>1, <3>1 DEF TrialTypes, TrialStage
    <3>3. TrialCipher'
      BY <1>0, <2>1, <2>3, <2>4, <3>1 DEF TrialCipher
    <3>4. QED
      BY <2>2, <3>2, <3>3 DEF TrialInv
  <2>7. QED
    BY <2>5, <2>6
<1>3. QED
  BY <1>1, <1>2

(* Every step preserves the invariant, of a cipher on its own and of one in *)
(* a trial.                                                                 *)
LEMMA TrialNext == TrialInv /\ [CallsNext]_callsVars => TrialInv'
<1> SUFFICES ASSUME TrialInv, [CallsNext]_callsVars PROVE TrialInv'
  OBVIOUS
<1>0. CipherInv /\ TrialTypes /\ TrialStage /\ TrialCipher /\ UNCHANGED subject
  BY CipherProjection DEF TrialInv
<1>1. CASE subject = "cipher" /\ Ciph!Next /\ UNCHANGED trialVars
  <2>1. CipherInv'
    BY <1>0, <1>1, CipherNext
  <2>2. UNCHANGED <<cap, at, trialHandles, got, unwell, verdict>>
    BY <1>1 DEF trialVars
  <2>3. TrialTypes' /\ TrialStage' /\ TrialCipher'
    BY <1>0, <1>1, <2>2 DEF TrialTypes, TrialStage, TrialCipher
  <2>4. QED
    BY <2>1, <2>3 DEF TrialInv
<1>2. CASE subject = "trial" /\ Ciph!TrialNext
  BY <1>0, <1>2, TrialSteps, TrialCalls, TrialWorks DEF Ciph!TrialNext
<1>3. CASE UNCHANGED cipherVars /\ UNCHANGED trialVars
  <2>1. CipherInv'
    BY <1>0, <1>3, CipherStutters
  <2>2. /\ UNCHANGED <<cap, at, trialHandles, got, unwell, verdict>>
        /\ UNCHANGED <<cipherPc, cipherCall, ctxs, cipherBuf, made, cipherReply>>
    BY <1>3 DEF trialVars, cipherVars
  <2>3. TrialTypes' /\ TrialStage' /\ TrialCipher'
    BY <1>0, <2>2 DEF TrialTypes, TrialStage, TrialCipher
  <2>4. QED
    BY <2>1, <2>3 DEF TrialInv
<1>4. QED
  BY <1>1, <1>2, <1>3, CipherProjection

(* Ciphers, key wraps and trials keep the invariant whatever the subject.   *)
THEOREM TrialInvariance == CallsSpec => []TrialInv
<1>1. CallsInit => TrialInv
  BY TrialInitial DEF CallsInit
<1>2. TrialInv /\ [CallsNext]_callsVars => TrialInv'
  BY TrialNext
<1>3. QED
  BY <1>1, <1>2, PTL DEF CallsSpec, callsVars

-----------------------------------------------------------------------------
(* Lengths, blocks and padding: what the operators of CipherMessage make of *)
(* messages of any length, with blocks of any size.                         *)

(* One element more doubles the number of subsets.                          *)
LEMMA PowerDoubles == ASSUME NEW k \in Nat PROVE 2^(k + 1) = 2 * 2^k
<1> DEFINE x == k + 1
           S == SUBSET (1..k)
           T == {u \cup {x} : u \in S}
           f == [u \in S |-> u \cup {x}]
<1>1. /\ IsFiniteSet(1..k) /\ Cardinality(1..k) = k
      /\ IsFiniteSet(1..k + 1) /\ Cardinality(1..k + 1) = k + 1
  BY FS_Interval
<1>2. /\ Cardinality(S) = 2^k /\ IsFiniteSet(S)
      /\ Cardinality(SUBSET (1..k + 1)) = 2^(k + 1)
  BY <1>1, FS_SUBSET
<1>3. x \notin 1..k /\ 1..k + 1 = (1..k) \cup {x}
  OBVIOUS
<1>4. SUBSET (1..k + 1) = S \cup T
  <2>1. ASSUME NEW v \in SUBSET (1..k + 1), v \notin S PROVE v \in T
    <3>1. x \in v /\ v \ {x} \in S
      BY <1>3, <2>1
    <3>2. v = (v \ {x}) \cup {x}
      BY <3>1
    <3>3. QED
      BY <3>1, <3>2
  <2>2. \A v \in S : v \in SUBSET (1..k + 1) /\ v \cup {x} \in SUBSET (1..k + 1)
    BY <1>3
  <2>3. T \subseteq SUBSET (1..k + 1) /\ S \subseteq SUBSET (1..k + 1)
    BY <2>2
  <2>4. SUBSET (1..k + 1) \subseteq S \cup T
    BY <2>1
  <2> HIDE DEF S, T
  <2>5. QED
    BY <2>3, <2>4
<1>5. S \cap T = {}
  BY <1>3
<1>6. f \in Bijection(S, T)
  <2>1. \A u, v \in S : f[u] = f[v] => u = v
    <3> SUFFICES ASSUME NEW u \in S, NEW v \in S, u \cup {x} = v \cup {x} PROVE u = v
      OBVIOUS
    <3>1. u = (u \cup {x}) \ {x} /\ v = (v \cup {x}) \ {x}
      BY <1>3
    <3>2. QED
      BY <3>1
  <2>2. f \in [S -> T] /\ \A t \in T : \E u \in S : f[u] = t
    OBVIOUS
  <2>3. QED
    BY <2>1, <2>2 DEF Bijection, Injection, Surjection, IsInjective
<1>7. IsFiniteSet(T) /\ Cardinality(T) = Cardinality(S)
  <2>1. ExistsBijection(S, T)
    BY <1>6 DEF ExistsBijection
  <2> HIDE DEF S, T
  <2>2. QED
    BY <1>2, <2>1, FS_Bijection
<1>8. Cardinality(S \cup T) = Cardinality(S) + Cardinality(T) - Cardinality(S \cap T)
  BY <1>2, <1>7, FS_Union
<1>9. Cardinality(S \cap T) = 0
  BY <1>5, FS_EmptySet
<1>10. 2^k \in Nat
  BY PowerOfTwo
<1> HIDE DEF S, T
<1>11. Cardinality(SUBSET (1..k + 1)) = Cardinality(S) + Cardinality(S)
  <2>1. Cardinality(S) \in Nat
    BY <1>2, <1>10
  <2>2. Cardinality(S \cup T) = Cardinality(S) + Cardinality(S)
    BY <1>7, <1>8, <1>9, <2>1
  <2>3. QED
    BY <1>4, <2>2
<1>12. QED
  BY <1>2, <1>10, <1>11

(* A length that a C.int can hold is kept.                                  *)
LEMMA NarrowingKeeps ==
  ASSUME NEW n \in Nat, n < 2^(IntBits - 1)
  PROVE  Ciph!CInt(n) = n
<1> DEFINE h == 2^(IntBits - 1)
<1>1. h \in Nat \ {0} /\ IntBits - 1 \in Nat /\ IntBits = (IntBits - 1) + 1
  BY PowerOfTwo, BoundsAssumption
<1>2. 2^IntBits = 2 * h
  BY <1>1, PowerDoubles
<1>3. Ciph!CInt(n) = ((n + h) % (2 * h)) - h
  BY <1>2 DEF Ciph!CInt
<1> HIDE DEF h
<1>4. (n + h) % (2 * h) = n + h
  <2>1. n < h
    BY DEF h
  <2>2. n + h \in 0..2 * h - 1
    BY <1>1, <2>1
  <2>3. \A w \in Nat \ {0} : \A m \in 0..w - 1 : m % w = m
    OBVIOUS
  <2>4. QED
    BY <1>1, <2>2, <2>3
<1>5. QED
  BY <1>1, <1>3, <1>4

(* What is missing to a whole block, and nothing else up to a block, fills  *)
(* the last one.                                                            *)
LEMMA RestFills ==
  ASSUME NEW b \in Nat \ {0}, NEW n \in Nat
  PROVE  /\ (n + (b - (n % b))) % b = 0
         /\ \A k \in 1..b : (n + k) % b = 0 => b - (n % b) = k
         /\ n % b = 0 => (n + b) % b = 0
<1>1. (n + (b - (n % b))) % b = 0
  OBVIOUS
<1>2. \A q \in Int : \A r \in 0..b - 1 : ((q * b) + r) % b = r
  OBVIOUS
<1>3. \A m \in Nat : m = ((m \div b) * b) + (m % b) /\ m \div b \in Nat
  OBVIOUS
<1>4. ASSUME NEW k \in 1..b, (n + k) % b = 0 PROVE b - (n % b) = k
  <2> DEFINE q == (n + k) \div b
  <2>1. n + k = (q * b) + 0 /\ q \in Nat
    BY <1>3, <1>4
  <2> HIDE DEF q
  <2>2. n = ((q - 1) * b) + (b - k)
    <3>1. (q - 1) * b = (q * b) - b
      BY <2>1
    <3>2. QED
      BY <2>1, <3>1
  <2>3. q - 1 \in Int /\ b - k \in 0..b - 1
    BY <2>1
  <2>4. (((q - 1) * b) + (b - k)) % b = b - k
    BY <1>2, <2>3
  <2>5. QED
    BY <2>2, <2>4
<1>5. ASSUME n % b = 0 PROVE (n + b) % b = 0
  BY <1>1, <1>5
<1>6. QED
  BY <1>1, <1>4, <1>5

(* A message and its suffix, put together and taken apart.                  *)
LEMMA CutAndJoin ==
  ASSUME NEW s \in Octets, NEW t \in Octets
  PROVE  /\ s \o t \in Octets /\ Len(s \o t) = Len(s) + Len(t)
         /\ Len(s) \in Nat /\ Len(t) \in Nat
         /\ Ciph!Without(s \o t, Len(t)) = s
         /\ SubSeq(s \o t, Len(s) + 1, Len(s \o t)) = t
         /\ \A i \in 1..Len(s) : (s \o t)[i] = s[i]
         /\ \A i \in 1..Len(t) : (s \o t)[Len(s) + i] = t[i]
<1>1. /\ s \o t \in Octets /\ Len(s \o t) = Len(s) + Len(t)
      /\ \A i \in 1..Len(s) + Len(t) : (s \o t)[i] = IF i <= Len(s) THEN s[i] ELSE t[i - Len(s)]
  BY ConcatProperties DEF Octets
<1>2. Len(s) \in Nat /\ Len(t) \in Nat
  BY LenProperties DEF Octets
<1>3. \A i \in 1..Len(s) : (s \o t)[i] = s[i]
  BY <1>1, <1>2
<1>4. \A i \in 1..Len(t) : (s \o t)[Len(s) + i] = t[i]
  <2> SUFFICES ASSUME NEW i \in 1..Len(t) PROVE (s \o t)[Len(s) + i] = t[i]
    OBVIOUS
  <2>1. Len(s) + i \in 1..Len(s) + Len(t) /\ ~(Len(s) + i <= Len(s)) /\ (Len(s) + i) - Len(s) = i
    BY <1>2
  <2>2. QED
    BY <1>1, <2>1
<1>5. Ciph!Without(s \o t, Len(t)) = s
  <2> DEFINE u == SubSeq(s \o t, 1, Len(s))
  <2>1. Ciph!Without(s \o t, Len(t)) = u
    <3>1. Len(s \o t) - Len(t) = Len(s)
      BY <1>1, <1>2
    <3>2. QED
      BY <3>1 DEF Ciph!Without
  <2>2. \A i \in 1..Len(s) : (s \o t)[i] \in Nat
    BY <1>3, ElementOfSeq DEF Octets
  <2>3. u \in Octets /\ Len(u) = Len(s) /\ \A i \in 1..Len(s) : u[i] = s[i]
    BY <1>2, <1>3, <2>2, SubSeqProperties DEF Octets
  <2> HIDE DEF u
  <2>4. u = s
    BY <2>3, SeqEqual DEF Octets
  <2>5. QED
    BY <2>1, <2>4
<1>6. SubSeq(s \o t, Len(s) + 1, Len(s \o t)) = t
  <2> DEFINE u == SubSeq(s \o t, Len(s) + 1, Len(s) + Len(t))
  <2>1. \A i \in Len(s) + 1..Len(s) + Len(t) : (s \o t)[i] \in Nat
    BY <1>1, <1>2, ElementOfSeq DEF Octets
  <2>2. /\ u \in Octets /\ Len(u) = Len(t)
        /\ \A i \in 1..Len(t) : u[i] = (s \o t)[Len(s) + i]
    BY <1>2, <2>1, SubSeqProperties DEF Octets
  <2> HIDE DEF u
  <2>3. u = t
    BY <1>4, <2>2, SeqEqual DEF Octets
  <2>4. QED
    BY <1>1, <2>3 DEF u
<1>7. QED
  BY <1>1, <1>2, <1>3, <1>4, <1>5, <1>6

(* A message is what is left of it without its suffix, and the suffix.      *)
LEMMA TakeApart ==
  ASSUME NEW c \in Octets, NEW n \in 0..Len(c)
  PROVE  /\ Ciph!Without(c, n) \in Octets /\ Len(Ciph!Without(c, n)) = Len(c) - n
         /\ c = Ciph!Without(c, n) \o SubSeq(c, Len(c) - n + 1, Len(c))
<1>1. Len(c) \in Nat /\ \A i \in 1..Len(c) : c[i] \in Nat
  BY LenProperties, ElementOfSeq DEF Octets
<1>2. Ciph!Without(c, n) \in Octets /\ Len(Ciph!Without(c, n)) = Len(c) - n
  <2>1. \A i \in 1..Len(c) - n : c[i] \in Nat
    BY <1>1
  <2>2. QED
    BY <1>1, <2>1, SubSeqProperties DEF Octets, Ciph!Without
<1>3. SubSeq(c, 1, Len(c) - n) \o SubSeq(c, (Len(c) - n) + 1, Len(c)) = SubSeq(c, 1, Len(c))
  <2>1. /\ 1 \in 1..Len(c) + 1 /\ Len(c) - n \in 1 - 1..Len(c)
        /\ Len(c) \in Len(c) - n..Len(c) /\ c \in Seq(Nat)
    BY <1>1 DEF Octets
  <2>2. QED
    BY <2>1, ConcatAdjacentSubSeq
<1>4. SubSeq(c, 1, Len(c)) = c
  BY SubSeqFull DEF Octets
<1>5. QED
  BY <1>2, <1>3, <1>4 DEF Ciph!Without

(* What stands between a head and a tail.                                   *)
LEMMA CutOut ==
  ASSUME NEW s \in Octets, NEW t \in Octets, NEW u \in Octets
  PROVE  SubSeq((s \o t) \o u, Len(s) + 1, Len(s) + Len(t)) = t
<1> DEFINE w == (s \o t) \o u
           v == SubSeq(w, Len(s) + 1, Len(s) + Len(t))
<1>1. /\ s \o t \in Octets /\ Len(s \o t) = Len(s) + Len(t)
      /\ Len(s) \in Nat /\ Len(t) \in Nat /\ Len(u) \in Nat
      /\ \A i \in 1..Len(t) : (s \o t)[Len(s) + i] = t[i]
  BY CutAndJoin
<1>2. /\ w \in Octets /\ Len(w) = Len(s) + Len(t) + Len(u)
      /\ \A i \in 1..Len(s) + Len(t) : w[i] = (s \o t)[i]
  BY <1>1, CutAndJoin
<1> HIDE DEF w
<1>3. \A i \in 1..Len(t) : w[Len(s) + i] = t[i]
  <2> SUFFICES ASSUME NEW i \in 1..Len(t) PROVE w[Len(s) + i] = t[i]
    OBVIOUS
  <2>1. Len(s) + i \in 1..Len(s) + Len(t)
    BY <1>1
  <2>2. QED
    BY <1>1, <1>2, <2>1
<1>4. \A i \in Len(s) + 1..Len(s) + Len(t) : w[i] \in Nat
  <2>1. \A i \in Len(s) + 1..Len(s) + Len(t) : i \in 1..Len(w)
    BY <1>1, <1>2
  <2>2. QED
    BY <1>2, <2>1, ElementOfSeq DEF Octets
<1>5. v \in Octets /\ Len(v) = Len(t) /\ \A i \in 1..Len(t) : v[i] = w[Len(s) + i]
  <2>1. Len(s) + 1 \in Int /\ Len(s) + Len(t) \in Int
    BY <1>1
  <2>2. /\ v \in Seq(Nat)
        /\ Len(v) = (IF Len(s) + 1 <= Len(s) + Len(t)
                     THEN (Len(s) + Len(t)) - (Len(s) + 1) + 1 ELSE 0)
        /\ \A i \in 1..(Len(s) + Len(t)) - (Len(s) + 1) + 1 : v[i] = w[Len(s) + 1 + i - 1]
    BY <1>4, <2>1, SubSeqProperties
  <2> HIDE DEF v
  <2>3. QED
    BY <1>1, <2>2 DEF Octets
<1> HIDE DEF v
<1>6. v = t
  BY <1>3, <1>5, SeqEqual DEF Octets
<1>7. QED
  BY <1>6 DEF v, w

(* Zero padding completes a last block that is not whole, and no other.     *)
LEMMA ZeroPads ==
  ASSUME NEW s \in Octets
  PROVE  /\ Ciph!Missing(s) % Block \in 0..Block - 1
         /\ Ciph!ApplyPadding("Zero", s) = s \o Ciph!Zeros(Ciph!Missing(s) % Block)
         /\ Ciph!ApplyPadding("Zero", s) \in Octets
         /\ Len(Ciph!ApplyPadding("Zero", s)) = Len(s) + (Ciph!Missing(s) % Block)
         /\ Ciph!Whole(Ciph!ApplyPadding("Zero", s))
<1> DEFINE k == Ciph!Missing(s) % Block
           z == Ciph!Zeros(k)
<1>1. k \in 0..Block - 1 /\ k \in Nat /\ Block \in Nat \ {0} /\ Len(s) \in Nat
  BY BlockRest
<1>2. Ciph!ApplyPadding("Zero", s) = s \o z
  BY DEF Ciph!ApplyPadding
<1>3. z \in Octets /\ Len(z) = k
  BY <1>1, Pieces
<1>4. (Len(s) + k) % Block = 0
  <2>1. (Len(s) + (Block - (Len(s) % Block))) % Block = 0
    BY <1>1, RestFills
  <2>2. CASE Len(s) % Block = 0
    <3>1. k = 0
      BY <1>1, <2>2 DEF Ciph!Missing
    <3> HIDE DEF k
    <3>2. QED
      BY <1>1, <2>2, <3>1
  <2>3. CASE Len(s) % Block # 0
    <3>1. Block - (Len(s) % Block) \in 0..Block - 1
      BY <1>1, <2>3
    <3>2. k = Block - (Len(s) % Block)
      <4>1. \A b \in Nat \ {0} : \A r \in 0..b - 1 : r % b = r
        OBVIOUS
      <4>2. (Block - (Len(s) % Block)) % Block = Block - (Len(s) % Block)
        BY <1>1, <3>1, <4>1
      <4>3. QED
        BY <4>2 DEF Ciph!Missing
    <3> HIDE DEF k
    <3>3. QED
      BY <2>1, <3>2
  <2>4. QED
    BY <2>2, <2>3
<1> HIDE DEF z, k
<1>5. s \o z \in Octets /\ Len(s \o z) = Len(s) + k
  BY <1>3, CutAndJoin
<1>6. QED
  BY <1>1, <1>2, <1>4, <1>5 DEF Ciph!Whole, k, z

(* A wrapping of AES-KWP tells the length of what it wraps, and holds it.   *)
LEMMA WrappedForm ==
  ASSUME NEW s \in Octets
  PROVE  /\ Ciph!KWP(s) \in Octets
         /\ Len(Ciph!KWP(s)) = Block + Len(Ciph!ApplyPadding("Zero", s))
         /\ Ciph!KWP(s)[Block] = Len(s)
         /\ SubSeq(Ciph!KWP(s), Block + 1, Block + Len(s)) = s
<1> DEFINE a == Ciph!ApplyPadding("Zero", s)
           z == Ciph!Zeros(Ciph!Missing(s) % Block)
           g == Ciph!PKCS7(Block - 1)
           h == g \o <<Len(s)>>
<1>1. /\ Block \in Nat \ {0} /\ Block - 1 \in Nat /\ Len(s) \in Nat
      /\ Ciph!Missing(s) % Block \in Nat
  BY BlockRest
<1>2. /\ a \in Octets /\ a = s \o z
  BY ZeroPads
<1>3. /\ z \in Octets /\ g \in Octets /\ Len(g) = Block - 1
      /\ <<Len(s)>> \in Octets /\ Len(<<Len(s)>>) = 1 /\ <<Len(s)>>[1] = Len(s)
  BY <1>1, Pieces
<1>4. h \in Octets /\ Len(h) = Block /\ h[Block] = Len(s)
  <2> DEFINE o == <<Len(s)>>
  <2>1. o \in Octets /\ Len(o) = 1 /\ o[1] = Len(s) /\ h = g \o o
    BY <1>3
  <2> HIDE DEF g, h, o
  <2>2. h \in Octets /\ Len(h) = (Block - 1) + 1 /\ h[(Block - 1) + 1] = Len(s)
    <3>1. /\ g \o o \in Octets /\ Len(g \o o) = Len(g) + Len(o)
          /\ \A i \in 1..Len(o) : (g \o o)[Len(g) + i] = o[i]
      BY <1>3, <2>1, CutAndJoin
    <3>2. 1 \in 1..Len(o)
      BY <2>1
    <3>3. (g \o o)[Len(g) + 1] = o[1]
      BY <3>1, <3>2
    <3>4. QED
      BY <1>3, <2>1, <3>1, <3>3
  <2>3. (Block - 1) + 1 = Block
    BY <1>1
  <2>4. QED
    BY <2>2, <2>3
<1>5. Ciph!KWP(s) = h \o a
  BY DEF Ciph!KWP
<1> HIDE DEF h, a, z, g
<1>6. h \o a \in Octets /\ Len(h \o a) = Block + Len(a) /\ (h \o a)[Block] = Len(s)
  <2>1. Block \in 1..Len(h)
    BY <1>1, <1>4
  <2>2. QED
    BY <1>2, <1>4, <2>1, CutAndJoin
<1>7. h \o a = (h \o s) \o z
  <2>1. h \in Seq(Nat) /\ s \in Seq(Nat) /\ z \in Seq(Nat)
    BY <1>3, <1>4 DEF Octets
  <2>2. (h \o s) \o z = h \o (s \o z)
    BY <2>1, ConcatAssociative
  <2>3. QED
    BY <1>2, <2>2
<1>8. SubSeq((h \o s) \o z, Block + 1, Block + Len(s)) = s
  BY <1>3, <1>4, CutOut
<1>9. QED
  BY <1>5, <1>6, <1>7, <1>8 DEF a

(* The suffixes of n bytes, and the paddings that have one for every        *)
(* message.                                                                 *)
Suffixes == {"PKCS7", "ISO7816", "X923"}

Suffix(p, n) == IF p = "PKCS7" THEN Ciph!PKCS7(n)
                ELSE IF p = "ISO7816" THEN <<128>> \o Ciph!Zeros(n - 1)
                ELSE Ciph!Zeros(n - 1) \o <<n>>

(* A suffix tells its length: by its last byte, or by where its only byte   *)
(* that is not zero stands.                                                 *)
LEMMA SuffixForm ==
  ASSUME NEW p \in Suffixes, NEW n \in Nat \ {0}
  PROVE  /\ Suffix(p, n) \in Octets /\ Len(Suffix(p, n)) = n
         /\ p # "ISO7816" => Suffix(p, n)[n] = n
         /\ p = "ISO7816" => Suffix(p, n)[1] = 128 /\ \A i \in 2..n : Suffix(p, n)[i] = 0
<1> DEFINE z == Ciph!Zeros(n - 1)
           o == <<128>>
           e == <<n>>
<1>1. n - 1 \in Nat /\ 128 \in Nat /\ n \in Nat
  OBVIOUS
<1>2. /\ z \in Octets /\ Len(z) = n - 1 /\ \A i \in 1..n - 1 : z[i] = 0
      /\ o \in Octets /\ Len(o) = 1 /\ o[1] = 128
      /\ e \in Octets /\ Len(e) = 1 /\ e[1] = n
  BY <1>1, Pieces
<1>3. p = "PKCS7" => Suffix(p, n) = Ciph!PKCS7(n)
  BY DEF Suffix
<1>4. p = "ISO7816" => Suffix(p, n) = o \o z
  BY DEF Suffix
<1>5. p = "X923" => Suffix(p, n) = z \o e
  BY DEF Suffix, Suffixes
<1> HIDE DEF z, o, e
<1>0. z \in Octets /\ o \in Octets /\ e \in Octets
  BY <1>2
<1>6. CASE p = "PKCS7"
  <2>1. n \in 1..n
    OBVIOUS
  <2>2. QED
    BY <1>1, <1>3, <1>6, <2>1, Pieces
<1>7. CASE p = "ISO7816"
  <2>1. /\ o \o z \in Octets /\ Len(o \o z) = Len(o) + Len(z)
        /\ \A i \in 1..Len(o) : (o \o z)[i] = o[i]
        /\ \A i \in 1..Len(z) : (o \o z)[Len(o) + i] = z[i]
    BY <1>0, CutAndJoin
  <2>2. Len(o \o z) = n /\ 1 \in 1..Len(o)
    BY <1>1, <1>2, <2>1
  <2>3. (o \o z)[1] = 128
    BY <1>2, <2>1, <2>2
  <2>4. ASSUME NEW i \in 2..n PROVE (o \o z)[i] = 0
    <3>1. i - 1 \in 1..n - 1 /\ Len(o) + (i - 1) = i
      BY <1>1, <1>2
    <3>2. (o \o z)[Len(o) + (i - 1)] = z[i - 1]
      BY <1>2, <2>1, <3>1
    <3>3. QED
      BY <1>2, <3>1, <3>2
  <2>5. QED
    BY <1>4, <1>7, <2>1, <2>2, <2>3, <2>4, ZenonT(40)
<1>8. CASE p = "X923"
  <2>1. /\ z \o e \in Octets /\ Len(z \o e) = Len(z) + Len(e)
        /\ \A i \in 1..Len(e) : (z \o e)[Len(z) + i] = e[i]
    BY <1>0, CutAndJoin
  <2>2. Len(z \o e) = n /\ 1 \in 1..Len(e) /\ Len(z) + 1 = n
    BY <1>1, <1>2, <2>1
  <2>3. (z \o e)[Len(z) + 1] = e[1]
    BY <2>1, <2>2
  <2>4. QED
    BY <1>2, <1>5, <1>8, <2>1, <2>2, <2>3
<1>9. QED
  BY <1>6, <1>7, <1>8 DEF Suffixes

(* The bytes at the end of a message.                                       *)
LEMMA LastBytes ==
  ASSUME NEW c \in Octets, NEW n \in 0..Len(c), NEW t \in Octets, Len(t) = n,
         SubSeq(c, Len(c) - n + 1, Len(c)) = t
  PROVE  \A i \in 1..n : c[(Len(c) - n) + i] = t[i]
<1>1. /\ Ciph!Without(c, n) \in Octets /\ Len(Ciph!Without(c, n)) = Len(c) - n
      /\ c = Ciph!Without(c, n) \o SubSeq(c, Len(c) - n + 1, Len(c))
  BY TakeApart
<1> DEFINE w == Ciph!Without(c, n)
<1> HIDE DEF w
<1>2. \A i \in 1..Len(t) : (w \o t)[Len(w) + i] = t[i]
  BY <1>1, CutAndJoin DEF w
<1>3. c = w \o t
  BY <1>1 DEF w
<1>4. QED
  BY <1>1, <1>2, <1>3 DEF w

(* A message ends in at most one suffix of a padding.                       *)
LEMMA OneSuffix ==
  ASSUME NEW p \in Suffixes, NEW c \in Octets, NEW n \in 1..Len(c), NEW m \in 1..Len(c),
         SubSeq(c, Len(c) - n + 1, Len(c)) = Suffix(p, n),
         SubSeq(c, Len(c) - m + 1, Len(c)) = Suffix(p, m)
  PROVE  n = m
<1>1. Len(c) \in Nat /\ n \in Nat \ {0} /\ m \in Nat \ {0} /\ n \in 0..Len(c) /\ m \in 0..Len(c)
  BY LenProperties DEF Octets
<1>2. ASSUME NEW k \in Nat \ {0}, k \in 0..Len(c),
             SubSeq(c, Len(c) - k + 1, Len(c)) = Suffix(p, k)
      PROVE  \A i \in 1..k : c[(Len(c) - k) + i] = Suffix(p, k)[i]
  <2>1. Suffix(p, k) \in Octets /\ Len(Suffix(p, k)) = k
    BY SuffixForm
  <2>2. QED
    BY <1>2, <2>1, LastBytes
<1>3. /\ \A i \in 1..n : c[(Len(c) - n) + i] = Suffix(p, n)[i]
      /\ \A i \in 1..m : c[(Len(c) - m) + i] = Suffix(p, m)[i]
  BY <1>1, <1>2
<1>4. CASE p # "ISO7816"
  <2>1. c[(Len(c) - n) + n] = n /\ c[(Len(c) - m) + m] = m
    <3>1. n \in 1..n /\ m \in 1..m
      BY <1>1
    <3>2. Suffix(p, n)[n] = n /\ Suffix(p, m)[m] = m
      BY <1>1, <1>4, SuffixForm
    <3>3. QED
      BY <1>3, <3>1, <3>2
  <2>2. (Len(c) - n) + n = Len(c) /\ (Len(c) - m) + m = Len(c)
    BY <1>1
  <2>3. QED
    BY <2>1, <2>2
<1>5. ASSUME NEW k \in 1..Len(c), NEW l \in 1..Len(c), k < l, p = "ISO7816",
             \A i \in 1..k : c[(Len(c) - k) + i] = Suffix(p, k)[i],
             \A i \in 1..l : c[(Len(c) - l) + i] = Suffix(p, l)[i]
      PROVE  FALSE
  <2> DEFINE i == (l - k) + 1
  <2>1. k \in Nat \ {0} /\ l \in Nat \ {0} /\ 1 \in 1..k /\ i \in 2..l /\ i \in 1..l
        /\ (Len(c) - l) + i = (Len(c) - k) + 1
    BY <1>1, <1>5
  <2> HIDE DEF i
  <2>2. Suffix(p, k)[1] = 128 /\ Suffix(p, l)[i] = 0
    <3>1. /\ p = "ISO7816" => Suffix(p, k)[1] = 128
          /\ p = "ISO7816" => \A j \in 2..l : Suffix(p, l)[j] = 0
      BY <2>1, SuffixForm
    <3>2. QED
      BY <1>5, <2>1, <3>1
  <2>3. c[(Len(c) - k) + 1] = 128 /\ c[(Len(c) - l) + i] = 0
    BY <1>5, <2>1, <2>2
  <2>4. QED
    BY <2>1, <2>3
<1>6. CASE p = "ISO7816"
  <2>1. n < m \/ m < n \/ n = m
    BY <1>1
  <2>2. QED
    BY <1>3, <1>5, <1>6, <2>1
<1>7. QED
  BY <1>4, <1>6

(* With a suffix, a message is a whole number of blocks.                    *)
Padded(p, s) == s \o Suffix(p, Ciph!Missing(s))

(* A padded message is whole blocks, longer by one to Block bytes; what it  *)
(* is longer by is the suffix, and without it the message is left.          *)
LEMMA PaddedForm ==
  ASSUME NEW p \in Suffixes, NEW s \in Octets
  PROVE  /\ Padded(p, s) \in Octets /\ Len(Padded(p, s)) = Len(s) + Ciph!Missing(s)
         /\ Ciph!Missing(s) \in 1..Block /\ Ciph!Whole(Padded(p, s))
         /\ Ciph!Without(Padded(p, s), Ciph!Missing(s)) = s
         /\ SubSeq(Padded(p, s), Len(s) + 1, Len(Padded(p, s))) = Suffix(p, Ciph!Missing(s))
         /\ p # "PKCS7" => Ciph!ApplyPadding(p, s) = Padded(p, s)
<1> DEFINE n == Ciph!Missing(s)
           t == Suffix(p, n)
<1>1. n \in 1..Block /\ Len(s) \in Nat /\ Block \in Nat \ {0}
  BY BlockRest
<1>2. n \in Nat \ {0} /\ n - 1 \in Nat /\ n \in Nat
  BY <1>1
<1>3. t \in Octets /\ Len(t) = n
  BY <1>2, SuffixForm
<1>4. (Len(s) + n) % Block = 0
  BY <1>1, RestFills DEF Ciph!Missing
<1>5. p = "ISO7816" => Ciph!ApplyPadding(p, s) = s \o t
  <2> DEFINE o == <<128>>
             z == Ciph!Zeros(n - 1)
  <2>1. o \in Seq(Nat) /\ z \in Seq(Nat) /\ s \in Seq(Nat)
    BY <1>2, Pieces DEF Octets
  <2>2. p = "ISO7816" => Ciph!ApplyPadding(p, s) = (s \o o) \o z /\ t = o \o z
    BY DEF Ciph!ApplyPadding, Suffix
  <2> HIDE DEF o, z
  <2>3. (s \o o) \o z = s \o (o \o z)
    BY <2>1, ConcatAssociative
  <2>4. QED
    BY <2>2, <2>3
<1>6. p = "X923" => Ciph!ApplyPadding(p, s) = s \o t
  <2> DEFINE o == <<n>>
             z == Ciph!Zeros(n - 1)
  <2>1. o \in Seq(Nat) /\ z \in Seq(Nat) /\ s \in Seq(Nat)
    BY <1>2, Pieces DEF Octets
  <2>2. p = "X923" => Ciph!ApplyPadding(p, s) = (s \o z) \o o /\ t = z \o o
    BY DEF Ciph!ApplyPadding, Suffix
  <2> HIDE DEF o, z
  <2>3. (s \o z) \o o = s \o (z \o o)
    BY <2>1, ConcatAssociative
  <2>4. QED
    BY <2>2, <2>3
<1>7. Padded(p, s) = s \o t
  BY DEF Padded
<1> HIDE DEF t, n
<1>8. /\ s \o t \in Octets /\ Len(s \o t) = Len(s) + n
      /\ Ciph!Without(s \o t, n) = s
      /\ SubSeq(s \o t, Len(s) + 1, Len(s \o t)) = t
  BY <1>3, CutAndJoin
<1>9. Ciph!Whole(s \o t)
  BY <1>4, <1>8 DEF Ciph!Whole
<1>10. QED
  BY <1>1, <1>5, <1>6, <1>7, <1>8, <1>9 DEF t, n, Suffixes

(* What is left of a message without a suffix of at most most bytes.        *)
Stripped(p, c, most) ==
  {Ciph!Without(c, n) : n \in {m \in 1..most :
     m <= Len(c) /\ SubSeq(c, Len(c) - m + 1, Len(c)) = Suffix(p, m)}}

(* Of what was padded, what was padded is left and nothing else.            *)
LEMMA StripPadded ==
  ASSUME NEW p \in Suffixes, NEW s \in Octets, NEW most \in Nat, Block <= most
  PROVE  Stripped(p, Padded(p, s), most) = {s}
<1> DEFINE c == Padded(p, s)
           n == Ciph!Missing(s)
<1>1. /\ c \in Octets /\ Len(c) = Len(s) + n /\ n \in 1..Block
      /\ Ciph!Without(c, n) = s /\ SubSeq(c, Len(s) + 1, Len(c)) = Suffix(p, n)
  BY PaddedForm
<1>2. Len(s) \in Nat /\ Block \in Nat \ {0}
  BY BlockRest
<1> HIDE DEF c, n
<1>3. /\ n \in 1..most /\ n <= Len(c) /\ n \in 1..Len(c)
      /\ Len(c) - n + 1 = Len(s) + 1
  BY <1>1, <1>2
<1>4. SubSeq(c, Len(c) - n + 1, Len(c)) = Suffix(p, n)
  BY <1>1, <1>3
<1>5. ASSUME NEW m \in 1..most, m <= Len(c), SubSeq(c, Len(c) - m + 1, Len(c)) = Suffix(p, m)
      PROVE  m = n
  <2>1. m \in 1..Len(c)
    BY <1>1, <1>2, <1>5
  <2>2. QED
    BY <1>1, <1>3, <1>4, <1>5, <2>1, OneSuffix
<1>6. {m \in 1..most : m <= Len(c) /\ SubSeq(c, Len(c) - m + 1, Len(c)) = Suffix(p, m)} = {n}
  BY <1>3, <1>4, <1>5
<1>7. Stripped(p, c, most) = {Ciph!Without(c, n)}
  BY <1>6 DEF Stripped
<1>8. QED
  BY <1>1, <1>7 DEF c

(* Whole blocks that something is left of were padded to what they are,     *)
(* unless the zeros of ISO 7816-4 fill a block.                             *)
LEMMA StrippedPads ==
  ASSUME NEW p \in Suffixes, NEW c \in Octets, NEW most \in Nat,
         Ciph!Whole(c), most <= Block \/ (p = "ISO7816" /\ ~Ciph!Overrun(c)),
         NEW s \in Stripped(p, c, most)
  PROVE  s \in Octets /\ c = Padded(p, s)
<1>1. Len(c) \in Nat /\ Block \in Nat \ {0}
  BY BlockRest
<1>2. PICK n \in 1..most : /\ n <= Len(c) /\ s = Ciph!Without(c, n)
                           /\ SubSeq(c, Len(c) - n + 1, Len(c)) = Suffix(p, n)
  BY DEF Stripped
<1>3. n \in 0..Len(c) /\ n \in Nat \ {0}
  BY <1>1, <1>2
<1>4. s \in Octets /\ Len(s) = Len(c) - n /\ c = s \o Suffix(p, n)
  BY <1>2, <1>3, TakeApart
<1>5. n <= Block
  <2> SUFFICES ASSUME n > Block, p = "ISO7816", ~Ciph!Overrun(c) PROVE FALSE
    BY <1>1, <1>2
  <2>1. Suffix(p, n) \in Octets /\ Len(Suffix(p, n)) = n /\ \A i \in 2..n : Suffix(p, n)[i] = 0
    BY <1>3, SuffixForm
  <2>2. \A i \in 1..n : c[(Len(c) - n) + i] = Suffix(p, n)[i]
    BY <1>2, <1>3, <2>1, LastBytes
  <2> DEFINE u == SubSeq(c, Len(c) - Block + 1, Len(c))
             z == Ciph!Zeros(Block)
  <2>3. /\ u \in Octets /\ Len(u) = Block
        /\ \A i \in 1..Block : u[i] = c[(Len(c) - Block) + i]
    <3>1. \A i \in Len(c) - Block + 1..Len(c) : c[i] \in Nat
      <4>1. \A i \in Len(c) - Block + 1..Len(c) : i \in 1..Len(c)
        BY <1>1, <1>2
      <4>2. QED
        BY <4>1, ElementOfSeq DEF Octets
    <3>2. Len(c) - Block + 1 \in Int /\ Len(c) \in Int
      BY <1>1
    <3>3. /\ u \in Seq(Nat)
          /\ Len(u) = (IF Len(c) - Block + 1 <= Len(c)
                       THEN Len(c) - (Len(c) - Block + 1) + 1 ELSE 0)
          /\ \A i \in 1..Len(c) - (Len(c) - Block + 1) + 1 :
               u[i] = c[Len(c) - Block + 1 + i - 1]
      BY <3>1, <3>2, SubSeqProperties
    <3> HIDE DEF u
    <3>4. QED
      BY <1>1, <3>3 DEF Octets
  <2>4. z \in Octets /\ Len(z) = Block /\ \A i \in 1..Block : z[i] = 0
    BY <1>1, Pieces
  <2>5. ASSUME NEW i \in 1..Block PROVE u[i] = z[i]
    <3> HIDE DEF u, z
    <3> DEFINE j == (n - Block) + i
    <3>1. j \in 2..n /\ j \in 1..n /\ (Len(c) - n) + j = (Len(c) - Block) + i
      BY <1>1, <1>3
    <3> HIDE DEF j
    <3>2. QED
      BY <2>1, <2>2, <2>3, <2>4, <3>1
  <2> HIDE DEF u, z
  <2>6. u = z
    BY <2>3, <2>4, <2>5, SeqEqual DEF Octets
  <2>7. Block <= Len(c)
    BY <1>1, <1>2
  <2>8. QED
    BY <2>6, <2>7 DEF Ciph!Overrun, u, z
<1>6. n = Ciph!Missing(s)
  <2>1. n \in 1..Block /\ Len(s) \in Nat /\ Len(s) + n = Len(c)
    BY <1>1, <1>3, <1>4, <1>5
  <2>2. (Len(s) + n) % Block = 0
    BY <2>1 DEF Ciph!Whole
  <2>3. QED
    BY <1>1, <2>1, <2>2, RestFills DEF Ciph!Missing
<1>7. QED
  BY <1>4, <1>6 DEF Padded

(* What is handed to run, what is refused before it, and what a decryption  *)
(* gives back if nothing fails.                                             *)
Handed(op, p, arg) ==
  IF op = "encrypt" /\ ~Ciph!Stream /\ p \in Ciph!Paddings \ {"PKCS7"}
  THEN Ciph!ApplyPadding(p, arg) ELSE arg

Admitted(op, p, arg) ==
  IF p \in Ciph!Wraps
  THEN IF op = "encrypt" THEN Ciph!WrapFits(p, arg)
       ELSE Len(arg) >= 2 * Block /\ Ciph!Whole(arg)
  ELSE op = "encrypt" \/ Ciph!Stream \/ Ciph!Whole(arg)

Opened(p, c) ==
  IF Ciph!Stream \/ p \notin Ciph!Paddings \ {"PKCS7"} THEN Ciph!EVPDecrypt(p, c)
  ELSE UNION {Ciph!RemovePadding(p, s) : s \in Ciph!EVPDecrypt(p, c)}

(* Whole blocks are none, or a block at least.                              *)
LEMMA WholeBlocks ==
  ASSUME NEW c \in Octets, Ciph!Whole(c)
  PROVE  Len(c) = 0 \/ Block <= Len(c)
<1>1. Len(c) \in Nat /\ Block \in Nat \ {0}
  BY BlockRest
<1>2. \A b \in Nat \ {0} : \A r \in 0..b - 1 : r % b = r
  OBVIOUS
<1>3. QED
  BY <1>1, <1>2 DEF Ciph!Whole

(* Decrypting whole blocks strips them of a suffix, or gives them back.     *)
LEMMA OpenedStrips ==
  ASSUME NEW p \in Suffixes, NEW c \in Octets, Ciph!Whole(c), ~Ciph!Stream
  PROVE  Opened(p, c) = Stripped(p, c, IF p = "ISO7816" THEN Len(c) ELSE Block)
<1>1. Len(c) \in Nat /\ Block \in Nat \ {0} /\ (Len(c) = 0 \/ Block <= Len(c))
  BY BlockRest, WholeBlocks
<1>2. Suffixes \subseteq Ciph!Paddings
  BY DEF Suffixes, Ciph!Paddings
<1>3. CASE p = "PKCS7"
  <2>1. Opened(p, c) = Ciph!EVPDecrypt("PKCS7", c)
    BY <1>3 DEF Opened
  <2>2. Ciph!EVPDecrypt("PKCS7", c) =
          {Ciph!Without(c, n) : n \in {m \in 1..Block : m <= Len(c) /\ Ciph!Whole(c)
             /\ SubSeq(c, Len(c) - m + 1, Len(c)) = Ciph!PKCS7(m)}}
    BY <1>2 DEF Ciph!EVPDecrypt, Ciph!Paddings
  <2>3. {m \in 1..Block : m <= Len(c) /\ Ciph!Whole(c)
             /\ SubSeq(c, Len(c) - m + 1, Len(c)) = Ciph!PKCS7(m)}
        = {m \in 1..Block : m <= Len(c) /\ SubSeq(c, Len(c) - m + 1, Len(c)) = Suffix(p, m)}
    BY <1>3 DEF Suffix
  <2>4. QED
    BY <1>3, <2>1, <2>2, <2>3 DEF Stripped
<1>4. CASE p # "PKCS7"
  <2>1. p \in Ciph!Paddings \ {"PKCS7"}
    BY <1>2, <1>4
  <2>2. Ciph!EVPDecrypt(p, c) = {c}
    BY <1>4, <2>1 DEF Ciph!EVPDecrypt, Ciph!Paddings
  <2>3. Opened(p, c) = Ciph!RemovePadding(p, c)
    <3>1. UNION {Ciph!RemovePadding(p, s) : s \in {c}} = Ciph!RemovePadding(p, c)
      OBVIOUS
    <3>2. QED
      BY <2>1, <2>2, <3>1 DEF Opened
  <2>4. CASE p = "ISO7816"
    <3>1. Ciph!RemovePadding(p, c) =
            {Ciph!Without(c, n) : n \in {m \in 1..Len(c) :
               SubSeq(c, Len(c) - m + 1, Len(c)) = <<128>> \o Ciph!Zeros(m - 1)}}
      BY <2>4 DEF Ciph!RemovePadding
    <3>2. {m \in 1..Len(c) : SubSeq(c, Len(c) - m + 1, Len(c)) = <<128>> \o Ciph!Zeros(m - 1)}
          = {m \in 1..Len(c) : m <= Len(c) /\ SubSeq(c, Len(c) - m + 1, Len(c)) = Suffix(p, m)}
      <4>1. \A m \in 1..Len(c) : m <= Len(c)
        BY <1>1
      <4>2. \A m \in 1..Len(c) : Suffix(p, m) = <<128>> \o Ciph!Zeros(m - 1)
        BY <2>4 DEF Suffix
      <4>3. QED
        BY <4>1, <4>2
    <3>3. QED
      BY <2>3, <2>4, <3>1, <3>2 DEF Stripped
  <2>5. CASE p = "X923"
    <3>1. Ciph!RemovePadding(p, c) =
            {Ciph!Without(c, n) : n \in {m \in 1..Block : c # <<>>
               /\ SubSeq(c, Len(c) - m + 1, Len(c)) = Ciph!Zeros(m - 1) \o <<m>>}}
      BY <2>5 DEF Ciph!RemovePadding
    <3>2. c # <<>> <=> Block <= Len(c)
      BY <1>1, EmptySeq DEF Octets
    <3>3. {m \in 1..Block : c # <<>>
             /\ SubSeq(c, Len(c) - m + 1, Len(c)) = Ciph!Zeros(m - 1) \o <<m>>}
          = {m \in 1..Block : m <= Len(c) /\ SubSeq(c, Len(c) - m + 1, Len(c)) = Suffix(p, m)}
      <4>1. \A m \in 1..Block : c # <<>> <=> m <= Len(c)
        BY <1>1, <3>2
      <4>2. \A m \in 1..Block : Suffix(p, m) = Ciph!Zeros(m - 1) \o <<m>>
        BY <2>5 DEF Suffix
      <4>3. QED
        BY <4>1, <4>2
    <3>4. QED
      BY <2>3, <2>5, <3>1, <3>3 DEF Stripped
  <2>6. QED
    BY <1>4, <2>4, <2>5 DEF Suffixes
<1>5. QED
  BY <1>3, <1>4

(* A stream mode, and a padding that is not removed, give back what was     *)
(* decrypted.                                                               *)
LEMMA OpenedAsIs ==
  ASSUME NEW p \in Ciph!Paddings, NEW c \in Octets,
         Ciph!Stream \/ (p \in {"None", "Zero"} /\ Ciph!Whole(c))
  PROVE  Opened(p, c) = {c}
<1>1. p \notin {"KW", "KWP"}
  BY DEF Ciph!Paddings
<1>2. Ciph!EVPDecrypt(p, c) = {c}
  BY <1>1 DEF Ciph!EVPDecrypt
<1>3. CASE Ciph!Stream
  BY <1>2, <1>3 DEF Opened
<1>4. CASE ~Ciph!Stream
  <2>1. Ciph!RemovePadding(p, c) = {c}
    BY <1>4 DEF Ciph!RemovePadding
  <2>2. UNION {Ciph!RemovePadding(p, s) : s \in {c}} = Ciph!RemovePadding(p, c)
    OBVIOUS
  <2>3. QED
    BY <1>2, <1>4, <2>1, <2>2 DEF Opened
<1>5. QED
  BY <1>3, <1>4

(* A key wrap gives back what was wrapped.                                  *)
LEMMA UnwrapsKW ==
  ASSUME NEW s \in Octets, Ciph!WrapFits("KW", s), NEW c \in Ciph!EVPEncrypt("KW", s)
  PROVE  /\ c \in Octets /\ Len(c) = Len(s) + Block
         /\ Admitted("decrypt", "KW", c) /\ Opened("KW", c) = {s}
<1> DEFINE g == Ciph!PKCS7(Block)
<1>1. Block \in Nat \ {0} /\ Block \in Nat /\ Len(s) \in Nat
  BY BlockRest
<1>2. c = g \o s
  <2>1. Ciph!EVPEncrypt("KW", s) = {g \o s}
    BY DEF Ciph!EVPEncrypt, Ciph!Paddings
  <2>2. QED
    BY <2>1
<1>3. g \in Octets /\ Len(g) = Block
  BY <1>1, Pieces
<1>4. /\ c \in Octets /\ Len(c) = Block + Len(s)
      /\ SubSeq(c, Block + 1, Len(c)) = s
  <2> HIDE DEF g
  <2>1. /\ g \o s \in Octets /\ Len(g \o s) = Len(g) + Len(s)
        /\ SubSeq(g \o s, Len(g) + 1, Len(g \o s)) = s
    BY <1>3, CutAndJoin
  <2>2. QED
    BY <1>2, <1>3, <2>1
<1>5. Admitted("decrypt", "KW", c)
  <2>1. Len(s) >= 2 * Block /\ Len(s) % Block = 0
    BY DEF Ciph!WrapFits, Ciph!Whole
  <2>2. (Len(s) + Block) % Block = 0
    BY <1>1, <2>1, RestFills
  <2>3. Len(c) = Len(s) + Block /\ Len(c) >= 2 * Block
    BY <1>1, <1>4, <2>1
  <2>4. QED
    BY <2>2, <2>3 DEF Admitted, Ciph!Whole, Ciph!Wraps
<1>6. Opened("KW", c) = {t \in {SubSeq(c, Block + 1, Len(c))} : c = g \o t}
  <2>1. "KW" \notin Ciph!Paddings
    BY DEF Ciph!Paddings
  <2>2. QED
    BY <2>1 DEF Opened, Ciph!EVPDecrypt
<1> HIDE DEF g
<1>7. Opened("KW", c) = {s}
  <2>1. Opened("KW", c) = {t \in {s} : c = g \o t}
    BY <1>4, <1>6
  <2>2. QED
    BY <1>2, <2>1
<1>8. QED
  BY <1>1, <1>4, <1>5, <1>7

(* The padded key wrap of a key unwraps to that key, and is at most two     *)
(* blocks longer.                                                           *)
LEMMA UnwrapsKWP ==
  ASSUME NEW s \in Octets, Ciph!WrapFits("KWP", s), NEW c \in Ciph!EVPEncrypt("KWP", s)
  PROVE  /\ c \in Octets /\ Len(c) <= Len(s) + 2 * Block /\ Len(s) <= Len(c)
         /\ Admitted("decrypt", "KWP", c) /\ Opened("KWP", c) = {s}
<1> DEFINE k == Ciph!Missing(s) % Block
<1>1. Block \in Nat \ {0} /\ Len(s) \in Nat /\ Len(s) > 0 /\ k \in 0..Block - 1
  BY BlockRest DEF Ciph!WrapFits
<1>2. c = Ciph!KWP(s)
  <2>1. Ciph!EVPEncrypt("KWP", s) = {Ciph!KWP(s)}
    BY DEF Ciph!EVPEncrypt, Ciph!Paddings
  <2>2. QED
    BY <2>1
<1>3. /\ Len(Ciph!ApplyPadding("Zero", s)) = Len(s) + k
      /\ Ciph!ApplyPadding("Zero", s) \in Octets
      /\ Ciph!Whole(Ciph!ApplyPadding("Zero", s))
  BY ZeroPads
<1>4. /\ c \in Octets /\ Len(c) = Block + (Len(s) + k)
      /\ c[Block] = Len(s) /\ SubSeq(c, Block + 1, Block + Len(s)) = s
  BY <1>2, <1>3, WrappedForm
<1> HIDE DEF k
<1>5. Admitted("decrypt", "KWP", c)
  <2>1. (Len(s) + k) % Block = 0 /\ Block <= Len(s) + k
    BY <1>1, <1>3, WholeBlocks DEF Ciph!Whole
  <2>2. ((Len(s) + k) + Block) % Block = 0
    <3>1. Len(s) + k \in Nat
      BY <1>1
    <3>2. QED
      BY <1>1, <2>1, <3>1, RestFills
  <2>3. Len(c) = (Len(s) + k) + Block /\ Len(c) >= 2 * Block
    BY <1>1, <1>4, <2>1
  <2>4. QED
    BY <2>2, <2>3 DEF Admitted, Ciph!Whole, Ciph!Wraps
<1>6. Opened("KWP", c) = {t \in {SubSeq(c, Block + 1, n) : n \in Block..Len(c)} : c = Ciph!KWP(t)}
  <2>1. "KWP" \notin Ciph!Paddings
    BY DEF Ciph!Paddings
  <2>2. QED
    BY <2>1 DEF Opened, Ciph!EVPDecrypt
<1>7. s \in Opened("KWP", c)
  <2>1. Block + Len(s) \in Block..Len(c)
    BY <1>1, <1>4
  <2>2. s \in {SubSeq(c, Block + 1, n) : n \in Block..Len(c)}
    BY <1>4, <2>1
  <2>3. QED
    BY <1>2, <1>6, <2>2
<1>8. ASSUME NEW t \in Opened("KWP", c) PROVE t = s
  <2>1. PICK n \in Block..Len(c) : t = SubSeq(c, Block + 1, n)
    BY <1>6
  <2>2. c = Ciph!KWP(t)
    BY <1>6
  <2>3. t \in Octets
    <3>1. Block + 1 \in Nat \ {0} /\ n \in Int /\ n <= Len(c)
      BY <1>1, <1>4, <2>1
    <3>2. QED
      BY <1>4, <2>1, <3>1, PartOctets
  <2>4. c[Block] = Len(t) /\ SubSeq(c, Block + 1, Block + Len(t)) = t
    BY <2>2, <2>3, WrappedForm
  <2>5. QED
    BY <1>4, <2>4
<1>9. Len(c) <= Len(s) + 2 * Block /\ Len(s) <= Len(c)
  BY <1>1, <1>4
<1>10. QED
  BY <1>4, <1>5, <1>7, <1>8, <1>9

(* What comes back of what was encrypted: the message, or with zero padding *)
(* the padded message.                                                      *)
Back(p, m) == IF p = "Zero" /\ ~Ciph!Stream THEN Ciph!ApplyPadding("Zero", m) ELSE m

(* What encrypting an admitted message makes is admitted for decryption and *)
(* gives the message back, with the zeroes of zero padding.                 *)
LEMMA RoundTrips ==
  ASSUME NEW p \in Modes, NEW m \in Octets, Admitted("encrypt", p, m),
         NEW c \in Ciph!EVPEncrypt(p, Handed("encrypt", p, m))
  PROVE  /\ c \in Octets
         /\ Len(c) <= Len(m) + (IF p \in Ciph!Wraps THEN 2 * Block ELSE Block)
         /\ Len(m) <= Len(c)
         /\ Admitted("decrypt", p, c) /\ Opened(p, c) = {Back(p, m)}
<1>1. Block \in Nat \ {0} /\ Block \in Nat /\ Len(m) \in Nat
  BY BlockRest
<1>2. CASE p \in Ciph!Wraps
  <2>1. Handed("encrypt", p, m) = m /\ Back(p, m) = m /\ Ciph!WrapFits(p, m)
    BY <1>2 DEF Handed, Back, Admitted, Ciph!Wraps, Ciph!Paddings
  <2>2. p = "KW" \/ p = "KWP"
    BY <1>2 DEF Ciph!Wraps
  <2>3. CASE p = "KW"
    BY <1>1, <1>2, <2>1, <2>3, UnwrapsKW
  <2>4. CASE p = "KWP"
    BY <1>1, <1>2, <2>1, <2>4, UnwrapsKWP
  <2>5. QED
    BY <2>2, <2>3, <2>4
<1>3. CASE p \in Ciph!Paddings /\ Ciph!Stream
  <2>1. p \notin Ciph!Wraps /\ p \notin {"KW", "KWP"}
    BY <1>3 DEF Ciph!Paddings, Ciph!Wraps
  <2>2. Handed("encrypt", p, m) = m /\ Back(p, m) = m
    BY <1>3 DEF Handed, Back
  <2>3. c = m
    BY <1>3, <2>1, <2>2 DEF Ciph!EVPEncrypt
  <2>4. Admitted("decrypt", p, c)
    BY <1>3, <2>1 DEF Admitted
  <2>5. QED
    BY <1>1, <1>3, <2>1, <2>2, <2>3, <2>4, OpenedAsIs
<1>4. CASE p \in Suffixes /\ ~Ciph!Stream
  <2>1. p \in Ciph!Paddings /\ p \notin Ciph!Wraps /\ p \notin {"KW", "KWP"} /\ Back(p, m) = m
    BY <1>4 DEF Suffixes, Ciph!Paddings, Ciph!Wraps, Back
  <2>2. /\ Padded(p, m) \in Octets /\ Len(Padded(p, m)) = Len(m) + Ciph!Missing(m)
        /\ Ciph!Missing(m) \in 1..Block /\ Ciph!Whole(Padded(p, m))
        /\ p # "PKCS7" => Ciph!ApplyPadding(p, m) = Padded(p, m)
    BY <1>4, PaddedForm
  <2>3. c = Padded(p, m)
    <3>1. CASE p = "PKCS7"
      BY <1>4, <2>1, <3>1 DEF Ciph!EVPEncrypt, Handed, Padded, Suffix
    <3>2. CASE p # "PKCS7"
      BY <1>4, <2>1, <2>2, <3>2 DEF Ciph!EVPEncrypt, Handed
    <3>3. QED
      BY <3>1, <3>2
  <2>4. Admitted("decrypt", p, c)
    BY <2>1, <2>2, <2>3 DEF Admitted
  <2>5. Opened(p, c) = Stripped(p, c, IF p = "ISO7816" THEN Len(c) ELSE Block)
    BY <1>4, <2>2, <2>3, OpenedStrips
  <2>6. Len(c) \in Nat /\ Block <= Len(c)
    <3>1. Len(c) \in Nat /\ Len(c) # 0
      BY <1>1, <2>2, <2>3
    <3>2. QED
      BY <2>2, <2>3, <3>1, WholeBlocks
  <2>7. Opened(p, c) = {m}
    BY <1>1, <1>4, <2>3, <2>5, <2>6, StripPadded
  <2>8. Len(c) <= Len(m) + Block /\ Len(m) <= Len(c)
    BY <1>1, <2>2, <2>3
  <2>9. QED
    BY <2>1, <2>2, <2>3, <2>4, <2>7, <2>8
<1>5. CASE p \in {"None", "Zero"} /\ ~Ciph!Stream
  <2> DEFINE d == Handed("encrypt", p, m)
  <2>1. p \in Ciph!Paddings /\ p \notin Ciph!Wraps /\ p \notin {"KW", "KWP"} /\ p # "PKCS7"
    BY <1>5 DEF Ciph!Paddings, Ciph!Wraps
  <2>2. /\ d = Back(p, m) /\ d \in Octets
        /\ Len(d) <= Len(m) + Block /\ Len(m) <= Len(d)
    <3>1. CASE p = "None"
      BY <1>1, <1>5, <2>1, <3>1 DEF Handed, Back, Ciph!ApplyPadding
    <3>2. CASE p = "Zero"
      <4>1. d = Ciph!ApplyPadding("Zero", m) /\ Back(p, m) = Ciph!ApplyPadding("Zero", m)
        BY <1>5, <2>1, <3>2 DEF Handed, Back
      <4>2. QED
        BY <1>1, <4>1, ZeroPads
    <3>3. QED
      BY <1>5, <3>1, <3>2
  <2> HIDE DEF d
  <2>3. c \in (IF Ciph!Whole(d) THEN {d} ELSE {})
    BY <1>5, <2>1 DEF Ciph!EVPEncrypt, d
  <2>4. c = d /\ Ciph!Whole(c)
    BY <2>3
  <2>5. Admitted("decrypt", p, c)
    BY <2>1, <2>4 DEF Admitted
  <2>6. Opened(p, c) = {c}
    BY <1>5, <2>1, <2>2, <2>4, OpenedAsIs
  <2>7. QED
    BY <2>1, <2>2, <2>4, <2>5, <2>6
<1>6. QED
  BY <1>2, <1>3, <1>4, <1>5 DEF Modes, Suffixes, Ciph!Paddings

(* What a decryption gives back is, but for zero padding and an overrun of  *)
(* ISO 7816-4, what was encrypted.                                          *)
Input(p, m) == IF p \in Ciph!Wraps \cup {"PKCS7"} THEN m ELSE Ciph!ApplyPadding(p, m)

(* What a decryption gives back is a message whose encryption is what was   *)
(* decrypted; zero padding and an ISO 7816 padding longer than a block are  *)
(* the exceptions.                                                          *)
LEMMA OpensHonestly ==
  ASSUME NEW p \in Modes, p # "Zero", ~Ciph!Stream, NEW c \in Octets,
         Admitted("decrypt", p, c), ~(p = "ISO7816" /\ Ciph!Overrun(c)),
         NEW m \in Opened(p, c)
  PROVE  c \in Ciph!EVPEncrypt(p, Input(p, m))
<1>1. Block \in Nat \ {0} /\ Len(c) \in Nat
  BY BlockRest
<1>2. CASE p \in Ciph!Wraps
  <2>1. p \notin Ciph!Paddings /\ Input(p, m) = m /\ (p = "KW" \/ p = "KWP")
    BY <1>2 DEF Ciph!Paddings, Ciph!Wraps, Input
  <2>2. m \in Ciph!EVPDecrypt(p, c)
    BY <2>1 DEF Opened
  <2>3. QED
    BY <2>1, <2>2 DEF Ciph!EVPDecrypt, Ciph!EVPEncrypt
<1>3. CASE p \notin Ciph!Wraps
  <2>1. Ciph!Whole(c) /\ p \in Ciph!Paddings /\ p \notin {"KW", "KWP"}
    BY <1>3 DEF Admitted, Modes, Ciph!Wraps
  <2>2. CASE p = "None"
    <3>1. m = c
      BY <2>1, <2>2, OpenedAsIs
    <3>2. Input(p, m) = c
      BY <2>2, <3>1 DEF Input, Ciph!Wraps, Ciph!ApplyPadding
    <3>3. QED
      BY <2>1, <2>2, <3>2 DEF Ciph!EVPEncrypt
  <2>3. CASE p \in Suffixes
    <3> DEFINE most == IF p = "ISO7816" THEN Len(c) ELSE Block
    <3>1. Opened(p, c) = Stripped(p, c, most)
      BY <2>1, <2>3, OpenedStrips
    <3>2. most \in Nat /\ (most <= Block \/ (p = "ISO7816" /\ ~Ciph!Overrun(c)))
      BY <1>1
    <3> HIDE DEF most
    <3>3. m \in Octets /\ c = Padded(p, m)
      <4>1. m \in Stripped(p, c, most)
        BY <3>1
      <4>2. QED
        BY <2>1, <2>3, <3>2, <4>1, StrippedPads
    <3>4. CASE p = "PKCS7"
      <4>1. Input(p, m) = m
        BY <3>4 DEF Input
      <4>2. Ciph!EVPEncrypt(p, m) = {Padded(p, m)}
        BY <2>1, <3>4 DEF Ciph!EVPEncrypt, Padded, Suffix
      <4>3. QED
        BY <3>3, <4>1, <4>2
    <3>5. CASE p # "PKCS7"
      <4>1. Input(p, m) = c
        BY <1>3, <2>3, <3>3, <3>5, PaddedForm DEF Input
      <4>2. QED
        BY <2>1, <3>5, <4>1 DEF Ciph!EVPEncrypt
    <3>6. QED
      BY <3>4, <3>5
  <2>4. QED
    BY <2>1, <2>2, <2>3 DEF Suffixes, Ciph!Paddings
<1>4. QED
  BY <1>2, <1>3

-----------------------------------------------------------------------------
(* What a call is of, what it made, and what was answered, for lengths that *)
(* a C.int can hold.                                                        *)

Longest     == MaxLen + 2 * Block
LongestFits == Longest < 2^(IntBits - 1)

Small(op, p, arg) ==
  Len(arg) <= IF op = "decrypt" THEN Longest
              ELSE IF p \in Ciph!Wraps THEN MaxLen ELSE MaxLen + Block

Outcome(op, p, arg) ==
  IF op = "encrypt" THEN Ciph!EVPEncrypt(p, Handed(op, p, arg)) ELSE Ciph!EVPDecrypt(p, arg)

(* A call is of what was handed to run, or run is over and gave its outcome *)
(* unless it failed.                                                        *)
Posed(c)   == Small(c.op, c.p, c.arg) /\ Admitted(c.op, c.p, c.arg)
Waiting(c) == c.in = Handed(c.op, c.p, c.arg)
Over(c)    == c.out = IF c.fault THEN {} ELSE Outcome(c.op, c.p, c.arg)

(* What was made is the encryption of its argument.                         *)
Made(m) == /\ Small("encrypt", m.p, m.arg) /\ Admitted("encrypt", m.p, m.arg)
           /\ m.out = Outcome("encrypt", m.p, m.arg)

(* The answer to an encryption is what was made, or nothing; to a           *)
(* decryption, what it opens, or nothing.                                   *)
Enciphered(r) == r.kind = "ok" => Admitted("encrypt", r.p, r.arg) /\ r.out = Outcome("encrypt", r.p, r.arg)

Told(r) == /\ r.out = IF r.fault \/ ~Admitted("decrypt", r.p, r.arg) THEN {} ELSE Opened(r.p, r.arg)
           /\ r.kind = "ok" <=> r.out # {}

CipherData ==
  /\ cipherPc # "idle" => Posed(cipherCall)
  /\ cipherPc \in {"new", "init", "padding", "update", "final"} => Waiting(cipherCall)
  /\ cipherPc = "return" => Over(cipherCall)
  /\ made # Ciph!None => Made(made)
  /\ cipherReply # Ciph!None =>
       IF cipherReply.op = "decrypt" THEN Told(cipherReply) ELSE Enciphered(cipherReply)

UnderWay   == [op : Ciph!Ops, p : Modes, arg : Octets, in : Octets,
             out : SUBSET Octets, fault : BOOLEAN]
Making   == [kind : {"made"}, p : Modes, arg : Octets, out : SUBSET Octets]
Answered == [op : Ciph!Ops, p : Modes, arg : Octets, kind : {"ok", "ErrVerification", "Error"},
             out : SUBSET Octets, fault : BOOLEAN]

(* What is handed to run is not longer than the longest.                    *)
LEMMA HandedFits ==
  ASSUME NEW op \in Ciph!Ops, NEW p \in Modes, NEW arg \in Octets,
         Small(op, p, arg), Admitted(op, p, arg)
  PROVE  Handed(op, p, arg) \in Octets /\ Len(Handed(op, p, arg)) <= Longest
<1>1. /\ Block \in Nat \ {0} /\ MaxLen \in Nat /\ Len(arg) \in Nat
      /\ Ciph!Missing(arg) \in 1..Block
  BY BlockRest, BoundsAssumption
<1>2. CASE ~(op = "encrypt" /\ ~Ciph!Stream /\ p \in Ciph!Paddings \ {"PKCS7"})
  <2>1. Handed(op, p, arg) = arg
    BY <1>2 DEF Handed
  <2>2. QED
    BY <1>1, <2>1 DEF Small, Longest
<1>3. CASE op = "encrypt" /\ ~Ciph!Stream /\ p \in Ciph!Paddings \ {"PKCS7"}
  <2> DEFINE d == Ciph!ApplyPadding(p, arg)
  <2>1. Handed(op, p, arg) = d
    BY <1>3 DEF Handed
  <2>2. d \in Octets /\ Len(d) <= Len(arg) + Block
    <3>1. CASE p = "None"
      BY <1>1, <3>1 DEF Ciph!ApplyPadding
    <3>2. CASE p = "Zero"
      BY <1>1, <3>2, ZeroPads
    <3>3. CASE p \in Suffixes
      <4>1. d = Padded(p, arg) /\ d \in Octets /\ Len(d) = Len(arg) + Ciph!Missing(arg)
        BY <1>3, <3>3, PaddedForm
      <4>2. QED
        BY <1>1, <4>1
    <3>4. QED
      BY <1>3, <3>1, <3>2, <3>3 DEF Suffixes, Ciph!Paddings
  <2>3. Len(arg) <= MaxLen + Block
    BY <1>3 DEF Small, Ciph!Paddings, Ciph!Wraps
  <2> HIDE DEF d
  <2>4. Len(d) \in Nat
    BY <2>2, LenProperties DEF Octets
  <2>5. QED
    BY <1>1, <2>1, <2>2, <2>3, <2>4 DEF Longest
<1>4. QED
  BY <1>2, <1>3

(* What a decryption gives back of the outcome of run.                      *)
LEMMA LeftIsOpened ==
  ASSUME NEW c \in UnderWay, c.op = "decrypt", Posed(c), Over(c),
         NEW left, left = (IF Ciph!Stream \/ c.p \notin Ciph!Paddings \ {"PKCS7"} THEN c.out
                           ELSE UNION {Ciph!RemovePadding(c.p, s) : s \in c.out})
  PROVE  left = IF c.fault \/ ~Admitted("decrypt", c.p, c.arg) THEN {} ELSE Opened(c.p, c.arg)
<1>1. Admitted("decrypt", c.p, c.arg)
  BY DEF Posed
<1>2. CASE c.fault
  <2>1. c.out = {}
    BY <1>2 DEF Over
  <2>2. left = {}
    BY <2>1
  <2>3. QED
    BY <1>2, <2>2
<1>3. CASE ~c.fault
  <2>1. c.out = Ciph!EVPDecrypt(c.p, c.arg)
    BY <1>3 DEF Over, Outcome
  <2>2. left = Opened(c.p, c.arg)
    BY <2>1 DEF Opened
  <2>3. QED
    BY <1>1, <1>3, <2>2
<1>4. QED
  BY <1>2, <1>3

(* The initial states.                                                      *)
LEMMA DataInit == Ciph!Init => CipherData
BY DEF Ciph!Init, CipherData

(* A call goes on.                                                          *)
LEMMA DataMoves ==
  ASSUME CipherData, UNCHANGED <<made, cipherReply>>,
         cipherPc' \in {"new", "init", "padding", "update", "final"},
         Posed(cipherCall'), Waiting(cipherCall')
  PROVE  CipherData'
BY DEF CipherData

(* A call leaves run.                                                       *)
LEMMA DataLeaves ==
  ASSUME CipherInv, CipherData, cipherPc \in {"new", "init", "padding", "update", "final"},
         NEW o \in SUBSET Octets, Ciph!Leave(o),
         o = {} \/ o = Outcome(cipherCall.op, cipherCall.p, cipherCall.arg)
  PROVE  CipherData'
<1> DEFINE c == [cipherCall EXCEPT !.out = o, !.fault = @ \/ o = {}]
<1>1. /\ cipherCall' = c /\ cipherPc' = "return" /\ UNCHANGED <<made, cipherReply>>
  BY DEF Ciph!Leave
<1>2. cipherCall \in UnderWay /\ ~cipherCall.fault /\ Posed(cipherCall)
  BY CipherUnderWay DEF CipherStage, UnderWay, CipherData
<1>3. /\ c.op = cipherCall.op /\ c.p = cipherCall.p /\ c.arg = cipherCall.arg
      /\ c.out = o
  BY <1>2 DEF UnderWay
<1>4. c.fault = (cipherCall.fault \/ o = {})
  BY <1>2 DEF UnderWay
<1> HIDE DEF c
<1>5. Posed(c)
  BY <1>2, <1>3 DEF Posed
<1>6. Over(c)
  <2>1. CASE o = {}
    <3>1. c.fault
      BY <1>4, <2>1
    <3>2. QED
      BY <1>3, <2>1, <3>1 DEF Over
  <2>2. CASE o # {}
    <3>1. ~c.fault
      BY <1>2, <1>4, <2>2
    <3>2. QED
      BY <1>3, <2>2, <3>1 DEF Over
  <2>3. QED
    BY <2>1, <2>2
<1>7. QED
  BY <1>1, <1>5, <1>6 DEF CipherData

(* run: of the whole input, whatever C.int makes of its length.             *)
LEMMA DataRuns ==
  ASSUME LongestFits, CipherInv, CipherData,
         Ciph!New \/ Ciph!Prepare \/ Ciph!Update \/ Ciph!Final
  PROVE  CipherData'
<1>1. cipherPc \in {"new", "init", "padding", "update", "final"}
  BY DEF Ciph!New, Ciph!Prepare, Ciph!Update, Ciph!Final
<1>2. cipherCall \in UnderWay /\ Posed(cipherCall) /\ Waiting(cipherCall)
  BY <1>1, CipherUnderWay DEF UnderWay, CipherData
<1>3. ASSUME Ciph!Leave({}) PROVE CipherData'
  <2>1. {} \in SUBSET Octets
    OBVIOUS
  <2>2. QED
    BY <1>1, <1>3, <2>1, DataLeaves
<1>4. CASE Ciph!New \/ Ciph!Prepare
  <2>1. CASE /\ cipherPc' \in {"init", "padding", "update"}
             /\ UNCHANGED <<cipherCall, made, cipherReply>>
    <3>1. Posed(cipherCall') /\ Waiting(cipherCall')
      <4>1. cipherCall' = cipherCall
        BY <2>1
      <4>2. QED
        BY <1>2, <4>1
    <3>2. QED
      BY <2>1, <3>1, DataMoves
  <2>2. QED
    BY <1>3, <1>4, <2>1 DEF Ciph!New, Ciph!Prepare
<1>5. CASE Ciph!Update
  <2> DEFINE n == Ciph!CInt(Len(cipherCall.in))
             c == [cipherCall EXCEPT !.in = SubSeq(@, 1, n)]
  <2>1. CASE cipherCall' = c /\ cipherPc' = "final" /\ UNCHANGED <<made, cipherReply>>
    <3>1. cipherCall.in \in Octets /\ Len(cipherCall.in) <= Longest
      BY <1>2, HandedFits DEF UnderWay, Posed, Waiting
    <3>2. n = Len(cipherCall.in)
      <4>1. Len(cipherCall.in) \in Nat /\ Longest \in Nat /\ 2^(IntBits - 1) \in Nat
        BY <3>1, LenProperties, BoundsAssumption, PowerOfTwo DEF Octets, Longest
      <4>2. Len(cipherCall.in) < 2^(IntBits - 1)
        BY <3>1, <4>1 DEF LongestFits
      <4>3. QED
        BY <4>1, <4>2, NarrowingKeeps
    <3>3. SubSeq(cipherCall.in, 1, n) = cipherCall.in
      BY <3>1, <3>2, SubSeqFull DEF Octets
    <3> HIDE DEF n
    <3>4. c = cipherCall
      <4>1. c = [cipherCall EXCEPT !.in = SubSeq(cipherCall.in, 1, n)]
        BY <1>2 DEF UnderWay
      <4>2. c = [cipherCall EXCEPT !.in = cipherCall.in]
        BY <3>3, <4>1
      <4>3. QED
        BY <1>2, <4>2 DEF UnderWay
    <3> HIDE DEF c
    <3>5. Posed(cipherCall') /\ Waiting(cipherCall')
      BY <1>2, <2>1, <3>4
    <3>6. QED
      BY <2>1, <3>5, DataMoves
  <2>2. QED
    BY <1>3, <1>5, <2>1 DEF Ciph!Update
<1>6. CASE Ciph!Final
  <2>1. PICK o \in {{}, IF cipherCall.op = "encrypt" THEN Ciph!EVPEncrypt(cipherCall.p, cipherCall.in)
                        ELSE Ciph!EVPDecrypt(cipherCall.p, cipherCall.in)} : Ciph!Leave(o)
    BY <1>6 DEF Ciph!Final
  <2>2. o \in SUBSET Octets
    <3>1. {} \in SUBSET Octets /\ cipherCall.in \in Octets /\ cipherCall.p \in Modes
      BY <1>2 DEF UnderWay
    <3>2. QED
      BY <2>1, <3>1, EncryptedOctets, DecryptedOctets
  <2>3. o = {} \/ o = Outcome(cipherCall.op, cipherCall.p, cipherCall.arg)
    <3>1. CASE cipherCall.op = "encrypt"
      BY <1>2, <2>1, <3>1 DEF Outcome, Waiting
    <3>2. CASE cipherCall.op # "encrypt"
      <4>1. cipherCall.in = cipherCall.arg
        BY <1>2, <3>2 DEF Waiting, Handed
      <4>2. QED
        BY <2>1, <3>2, <4>1 DEF Outcome
    <3>3. QED
      BY <3>1, <3>2
  <2>4. QED
    BY <1>1, <2>1, <2>2, <2>3, DataLeaves
<1>7. QED
  BY <1>4, <1>5, <1>6

(* The call returns what it made, or what it opens.                         *)
LEMMA DataReturns ==
  ASSUME CipherInv, CipherData, Ciph!ReturnEncrypt \/ Ciph!ReturnDecrypt
  PROVE  CipherData'
<1>1. cipherPc = "return"
  BY DEF Ciph!ReturnEncrypt, Ciph!ReturnDecrypt
<1>2. cipherCall \in UnderWay /\ Posed(cipherCall) /\ Over(cipherCall) /\ cipherCall.op \in Ciph!Ops
  BY <1>1, CipherUnderWay DEF UnderWay, CipherData
<1>3. cipherPc' = "idle"
  BY DEF Ciph!ReturnEncrypt, Ciph!ReturnDecrypt, Ciph!Finish
<1>4. CASE cipherCall.op = "encrypt"
  <2>1. (cipherReply.op)' = "encrypt" /\ Enciphered(cipherReply')
    <3> DEFINE r == cipherReply'
    <3>1. /\ r.op = "encrypt" /\ r.p = cipherCall.p /\ r.arg = cipherCall.arg
          /\ r.out = cipherCall.out
          /\ r.kind = IF cipherCall.out = {} THEN "Error" ELSE "ok"
      BY <1>3, <1>4, CipherRuns
    <3> HIDE DEF r
    <3>2. Enciphered(r)
      <4>1. r.kind = "ok" => cipherCall.out = Outcome("encrypt", cipherCall.p, cipherCall.arg)
        BY <1>2, <1>4, <3>1 DEF Over
      <4>2. QED
        BY <1>2, <1>4, <3>1, <4>1 DEF Enciphered, Posed
    <3>3. QED
      BY <3>1, <3>2 DEF r
  <2>2. made' = IF cipherCall.out = {} THEN made
                ELSE [kind |-> "made", p |-> cipherCall.p,
                      arg |-> cipherCall.arg, out |-> cipherCall.out]
    BY <1>3, <1>4, CipherRuns
  <2>3. CASE cipherCall.out = {}
    BY <1>3, <2>1, <2>2, <2>3 DEF CipherData
  <2>4. CASE cipherCall.out # {}
    <3> DEFINE m == [kind |-> "made", p |-> cipherCall.p,
                     arg |-> cipherCall.arg, out |-> cipherCall.out]
    <3>1. /\ m.p = cipherCall.p /\ m.arg = cipherCall.arg /\ m.out = cipherCall.out /\ made' = m
      BY <2>2, <2>4
    <3> HIDE DEF m
    <3>2. cipherCall.out = Outcome("encrypt", cipherCall.p, cipherCall.arg)
      BY <1>2, <1>4, <2>4 DEF Over
    <3>3. Made(m)
      BY <1>2, <1>4, <3>1, <3>2 DEF Made, Posed
    <3>4. QED
      BY <1>3, <2>1, <3>1, <3>3 DEF CipherData
  <2>5. QED
    BY <2>3, <2>4
<1>5. CASE cipherCall.op = "decrypt"
  <2>1. /\ cipherPc' = "idle" /\ (cipherReply.op)' = cipherCall.op /\ UNCHANGED made
        /\ (cipherReply.p)' = cipherCall.p
        /\ (cipherReply.arg)' = cipherCall.arg /\ (cipherReply.fault)' = cipherCall.fault
        /\ (cipherReply.out)' = Left
        /\ (cipherReply.kind)' = IF Left = {} THEN "ErrVerification" ELSE "ok"
    BY <1>3, <1>5, CipherRuns
  <2>2. Left = IF cipherCall.fault \/ ~Admitted("decrypt", cipherCall.p, cipherCall.arg) THEN {}
               ELSE Opened(cipherCall.p, cipherCall.arg)
    BY <1>2, <1>5, LeftIsOpened DEF Left
  <2>3. Told(cipherReply')
    <3> DEFINE r == cipherReply'
    <3>1. /\ r.p = cipherCall.p /\ r.arg = cipherCall.arg /\ r.fault = cipherCall.fault
          /\ r.out = Left /\ r.kind = IF Left = {} THEN "ErrVerification" ELSE "ok"
      BY <2>1
    <3> HIDE DEF r
    <3>2. r.kind = "ok" <=> r.out # {}
      BY <3>1
    <3>3. Told(r)
      BY <2>2, <3>1, <3>2 DEF Told
    <3>4. QED
      BY <3>3 DEF r
  <2>4. (cipherReply.op)' = "decrypt"
    BY <1>5, <2>1
  <2>5. QED
    BY <2>1, <2>3, <2>4 DEF CipherData
<1>6. QED
  BY <1>2, <1>4, <1>5 DEF Ciph!Ops

(* An operation begins, or is refused.                                      *)
LEMMA DataStarts ==
  ASSUME CipherData, NEW op \in Ciph!Ops, NEW p \in Modes, NEW arg \in Octets,
         Small(op, p, arg), Admitted(op, p, arg),
         Ciph!Start(op, p, arg, Handed(op, p, arg))
  PROVE  CipherData'
<1> DEFINE d == Handed(op, p, arg)
           c == [op |-> op, p |-> p, arg |-> arg, in |-> d, out |-> {}, fault |-> FALSE]
<1>1. cipherCall' = c /\ cipherPc' = "new" /\ UNCHANGED <<made, cipherReply>>
  BY DEF Ciph!Start
<1> HIDE DEF d
<1>2. c.op = op /\ c.p = p /\ c.arg = arg /\ c.in = d
  OBVIOUS
<1> HIDE DEF c
<1>3. Posed(c) /\ Waiting(c)
  BY <1>2 DEF Posed, Waiting, d
<1>4. QED
  BY <1>1, <1>3, DataMoves

(* A refusal is honest: what is refused at decryption was not admitted.     *)
LEMMA DataRefuses ==
  ASSUME CipherData, cipherPc = "idle", NEW op \in Ciph!Ops, NEW p \in Modes, NEW arg \in Octets,
         NEW kind \in {"ErrVerification", "Error"},
         op = "decrypt" => ~Admitted("decrypt", p, arg),
         Ciph!Refuse(op, p, arg, kind)
  PROVE  CipherData'
<1> DEFINE r == [op |-> op, p |-> p, arg |-> arg, kind |-> kind, out |-> {}, fault |-> FALSE]
<1>1. cipherReply' = r /\ UNCHANGED <<cipherPc, made>>
  BY DEF Ciph!Refuse, Ciph!Answer
<1>2. r.op = op /\ r.p = p /\ r.arg = arg /\ r.kind = kind /\ r.out = {}
  OBVIOUS
<1> HIDE DEF r
<1>3. (op = "decrypt" => Told(r)) /\ Enciphered(r)
  BY <1>2 DEF Told, Enciphered
<1>4. QED
  BY <1>1, <1>2, <1>3 DEF CipherData

(* The four operations of a caller.                                         *)
LEMMA DataCalls ==
  ASSUME CipherInv, CipherData, cipherPc = "idle", NEW m \in Octets
  PROVE  /\ \A p \in Ciph!Paddings : Ciph!Encrypt(p, m) /\ Len(m) <= MaxLen + Block => CipherData'
         /\ \A p \in Ciph!Wraps : Ciph!Wrap(p, m) /\ Len(m) <= MaxLen => CipherData'
         /\ Len(m) <= Longest =>
              /\ \A p \in Ciph!Paddings : Ciph!Decrypt(p, m) => CipherData'
              /\ \A p \in Ciph!Wraps : Ciph!Unwrap(p, m) => CipherData'
<1>0. {"encrypt", "decrypt"} = Ciph!Ops
  BY DEF Ciph!Ops
<1>1. ASSUME NEW p \in Ciph!Paddings, Ciph!Encrypt(p, m), Len(m) <= MaxLen + Block
      PROVE  CipherData'
  <2>1. p \in Modes /\ Small("encrypt", p, m) /\ Admitted("encrypt", p, m)
    BY <1>1 DEF Modes, Small, Admitted, Ciph!Wraps, Ciph!Paddings
  <2>2. Ciph!Refuse("encrypt", p, m, "Error")
          \/ Ciph!Start("encrypt", p, m, Handed("encrypt", p, m))
    BY <1>1 DEF Ciph!Encrypt, Handed
  <2>3. QED
    BY <1>0, <2>1, <2>2, DataRefuses, DataStarts
<1>2. ASSUME NEW p \in Ciph!Paddings, Ciph!Decrypt(p, m), Len(m) <= Longest PROVE CipherData'
  <2>1. p \in Modes /\ Small("decrypt", p, m) /\ p \notin Ciph!Wraps
    BY <1>2 DEF Modes, Small, Ciph!Wraps, Ciph!Paddings
  <2>2. Handed("decrypt", p, m) = m
    BY DEF Handed
  <2>3. CASE Admitted("decrypt", p, m)
    <3>1. Ciph!Start("decrypt", p, m, m)
      BY <1>2, <2>1, <2>3 DEF Ciph!Decrypt, Admitted
    <3>2. QED
      BY <1>0, <2>1, <2>2, <2>3, <3>1, DataStarts
  <2>4. CASE ~Admitted("decrypt", p, m)
    <3>1. Ciph!Refuse("decrypt", p, m, "ErrVerification")
      BY <1>2, <2>1, <2>4 DEF Ciph!Decrypt, Admitted
    <3>2. QED
      BY <1>0, <2>1, <2>4, <3>1, DataRefuses
  <2>5. QED
    BY <2>3, <2>4
<1>3. ASSUME NEW p \in Ciph!Wraps, Ciph!Wrap(p, m), Len(m) <= MaxLen PROVE CipherData'
  <2>1. /\ p \in Modes /\ Small("encrypt", p, m)
        /\ Admitted("encrypt", p, m) <=> Ciph!WrapFits(p, m)
    BY <1>3 DEF Modes, Small, Admitted
  <2>2. Handed("encrypt", p, m) = m
    BY DEF Handed, Ciph!Wraps, Ciph!Paddings
  <2>3. \/ Ciph!Refuse("encrypt", p, m, "Error")
        \/ Admitted("encrypt", p, m) /\ Ciph!Start("encrypt", p, m, m)
    BY <1>3, <2>1 DEF Ciph!Wrap
  <2>4. QED
    BY <1>0, <2>1, <2>2, <2>3, DataRefuses, DataStarts
<1>4. ASSUME NEW p \in Ciph!Wraps, Ciph!Unwrap(p, m), Len(m) <= Longest PROVE CipherData'
  <2>1. p \in Modes /\ Small("decrypt", p, m) /\ Handed("decrypt", p, m) = m
    BY <1>4 DEF Modes, Small, Handed
  <2>2. Admitted("decrypt", p, m) <=> ~(Len(m) < 2 * Block) /\ Ciph!Whole(m)
    <3>1. Len(m) \in Nat /\ Block \in Nat
      BY BlockRest
    <3>2. QED
      BY <1>4, <3>1 DEF Admitted
  <2>3. CASE Admitted("decrypt", p, m)
    <3>1. Ciph!Start("decrypt", p, m, m)
      BY <1>4, <2>2, <2>3 DEF Ciph!Unwrap
    <3>2. QED
      BY <1>0, <2>1, <2>3, <3>1, DataStarts
  <2>4. CASE ~Admitted("decrypt", p, m)
    <3>1. Ciph!Refuse("decrypt", p, m, "ErrVerification")
      BY <1>4, <2>2, <2>4 DEF Ciph!Unwrap
    <3>2. QED
      BY <1>0, <2>1, <2>4, <3>1, DataRefuses
  <2>5. QED
    BY <2>3, <2>4
<1>5. QED
  BY <1>1, <1>2, <1>3, <1>4

(* The caller takes the answer, or nothing happens.                         *)
LEMMA DataStutters ==
  ASSUME CipherData, UNCHANGED <<cipherPc, cipherCall, made>>,
         cipherReply' = cipherReply \/ cipherReply' = Ciph!None
  PROVE  CipherData'
BY DEF CipherData

(* What was made decrypts to what it was made of.                           *)
LEMMA MadeOpens ==
  ASSUME CipherInv, CipherData, made # Ciph!None, NEW c \in made.out
  PROVE  /\ c \in Octets /\ Len(c) <= Longest
         /\ Admitted("decrypt", made.p, c) /\ Opened(made.p, c) = {Back(made.p, made.arg)}
<1>1. made \in Making /\ Made(made)
  BY DEF CipherInv, CipherTypes, CipherData, Making
<1>2. made.p \in Modes /\ made.arg \in Octets
  BY <1>1 DEF Making
<1>3. c \in Ciph!EVPEncrypt(made.p, Handed("encrypt", made.p, made.arg))
  BY <1>1 DEF Made, Outcome
<1>4. /\ c \in Octets
      /\ Len(c) <= Len(made.arg) + (IF made.p \in Ciph!Wraps THEN 2 * Block ELSE Block)
      /\ Admitted("decrypt", made.p, c) /\ Opened(made.p, c) = {Back(made.p, made.arg)}
  BY <1>1, <1>2, <1>3, RoundTrips DEF Made
<1>5. Len(made.arg) <= IF made.p \in Ciph!Wraps THEN MaxLen ELSE MaxLen + Block
  BY <1>1 DEF Made, Small
<1>6. Len(c) \in Nat /\ Len(made.arg) \in Nat /\ Block \in Nat /\ MaxLen \in Nat
  BY <1>2, <1>4, LenProperties, BoundsAssumption DEF Octets
<1>7. Len(c) <= Longest
  <2>1. CASE made.p \in Ciph!Wraps
    <3>1. Len(c) <= Len(made.arg) + 2 * Block /\ Len(made.arg) <= MaxLen
      BY <1>4, <1>5, <2>1
    <3>2. \A x, y, b, k \in Nat : x <= y + 2 * b /\ y <= k => x <= k + 2 * b
      OBVIOUS
    <3>3. Len(c) <= MaxLen + 2 * Block
      BY <1>6, <3>1, <3>2
    <3>4. QED
      BY <3>3 DEF Longest
  <2>2. CASE made.p \notin Ciph!Wraps
    <3>1. Len(c) <= Len(made.arg) + Block /\ Len(made.arg) <= MaxLen + Block
      BY <1>4, <1>5, <2>2
    <3>2. QED
      BY <1>6, <3>1 DEF Longest
  <2>3. QED
    BY <2>1, <2>2
<1>8. QED
  BY <1>4, <1>7

(* Every step of a cipher preserves the data.                               *)
LEMMA DataNext ==
  ASSUME LongestFits, CipherInv, CipherData, Ciph!Next
  PROVE  CipherData'
<1>1. ASSUME NEW m \in Ciph!Messages PROVE m \in Octets /\ Len(m) <= MaxLen
  <2>1. PICK n \in 0..MaxLen : m \in [1..n -> Bytes]
    BY DEF Ciph!Messages
  <2>2. n \in Nat /\ n <= MaxLen
    BY <2>1, BoundsAssumption
  <2>3. m \in [1..n -> Nat]
    BY <2>1, BytesAssumption
  <2>4. m \in Octets
    BY <2>2, <2>3, SeqDef DEF Octets
  <2>5. Len(m) = n
    BY <2>2, <2>3, <2>4, LenProperties DEF Octets
  <2>6. QED
    BY <2>2, <2>4, <2>5
<1>2. MaxLen \in Nat /\ Block \in Nat
  BY BoundsAssumption
<1>3. ASSUME NEW c \in Ciph!Inputs PROVE c \in Octets /\ Len(c) <= Longest
  <2>1. CASE made = Ciph!None
    <3>1. c \in Octets /\ Len(c) <= MaxLen
      BY <1>1, <2>1 DEF Ciph!Inputs
    <3>2. Len(c) \in Nat
      BY <3>1, LenProperties DEF Octets
    <3>3. QED
      BY <1>2, <3>1, <3>2 DEF Longest
  <2>2. CASE made # Ciph!None
    BY <2>2, MadeOpens DEF Ciph!Inputs
  <2>3. QED
    BY <2>1, <2>2
<1>4. CASE /\ cipherPc = "idle" /\ cipherReply = Ciph!None
           /\ \/ /\ made = Ciph!None
                 /\ \E m \in Ciph!Messages : \/ \E p \in Ciph!Paddings : Ciph!Encrypt(p, m)
                                            \/ \E p \in Ciph!Wraps : Ciph!Wrap(p, m)
              \/ \E c \in Ciph!Inputs : \/ \E p \in Ciph!Paddings : Ciph!Decrypt(p, c)
                                       \/ \E p \in Ciph!Wraps : Ciph!Unwrap(p, c)
  <2>1. ASSUME NEW m \in Ciph!Messages,
               \/ \E p \in Ciph!Paddings : Ciph!Encrypt(p, m)
               \/ \E p \in Ciph!Wraps : Ciph!Wrap(p, m)
        PROVE  CipherData'
    <3>1. m \in Octets /\ Len(m) <= MaxLen /\ Len(m) <= MaxLen + Block
      <4>1. m \in Octets /\ Len(m) <= MaxLen
        BY <1>1
      <4>2. Len(m) \in Nat
        BY <4>1, LenProperties DEF Octets
      <4>3. QED
        BY <1>2, <4>1, <4>2
    <3>2. QED
      BY <1>4, <2>1, <3>1, DataCalls
  <2>2. ASSUME NEW c \in Ciph!Inputs,
               \/ \E p \in Ciph!Paddings : Ciph!Decrypt(p, c)
               \/ \E p \in Ciph!Wraps : Ciph!Unwrap(p, c)
        PROVE  CipherData'
    BY <1>3, <1>4, <2>2, DataCalls
  <2>3. QED
    BY <1>4, <2>1, <2>2
<1>5. CASE Ciph!Taken
  BY <1>5, DataStutters DEF Ciph!Taken
<1>6. QED
  BY <1>4, <1>5, DataRuns, DataReturns DEF Ciph!Next

(* Decryption inverts encryption, whatever the padding and the wrap.        *)
LEMMA DataInverts == CipherInv /\ CipherData => Ciph!PaddingInverts
<1> SUFFICES ASSUME CipherInv, CipherData, cipherReply # Ciph!None, cipherReply.op = "decrypt"
             PROVE  Ciph!PaddingInverts
  BY DEF Ciph!PaddingInverts
<1>1. cipherReply \in Answered /\ Told(cipherReply)
  BY DEF CipherInv, CipherTypes, CipherData, Answered
<1>2. cipherReply.p \in Modes /\ cipherReply.arg \in Octets
  BY <1>1 DEF Answered
<1>3. ASSUME made # Ciph!None, cipherReply.p = made.p, cipherReply.arg \in made.out,
             ~cipherReply.fault
      PROVE  cipherReply.out = IF made.p = "Zero" /\ ~Ciph!Stream
                                THEN {Ciph!ApplyPadding("Zero", made.arg)} ELSE {made.arg}
  <2>1. /\ Admitted("decrypt", made.p, cipherReply.arg)
        /\ Opened(made.p, cipherReply.arg) = {Back(made.p, made.arg)}
    BY <1>3, MadeOpens
  <2>2. cipherReply.out = {Back(made.p, made.arg)}
    BY <1>1, <1>3, <2>1 DEF Told
  <2>3. QED
    BY <2>2 DEF Back
<1>4. ASSUME cipherReply.kind = "ok", Ciph!Reversible(cipherReply.p), ~Ciph!Stream,
             ~(cipherReply.p = "ISO7816" /\ Ciph!Overrun(cipherReply.arg)),
             NEW m \in cipherReply.out
      PROVE  cipherReply.arg \in Ciph!EVPEncrypt(cipherReply.p,
               IF cipherReply.p \in Ciph!Wraps \cup {"PKCS7"} THEN m
               ELSE Ciph!ApplyPadding(cipherReply.p, m))
  <2>1. Admitted("decrypt", cipherReply.p, cipherReply.arg) /\ m \in Opened(cipherReply.p, cipherReply.arg)
    BY <1>1, <1>4 DEF Told
  <2>2. cipherReply.p # "Zero"
    BY <1>4 DEF Ciph!Reversible
  <2>3. QED
    BY <1>2, <1>4, <2>1, <2>2, OpensHonestly DEF Input
<1>5. QED
  BY <1>3, <1>4 DEF Ciph!PaddingInverts

-----------------------------------------------------------------------------
(* What a trial has put in, and what it gets back.                          *)

(* The cipher works for the probe, and the trial fails only where a step    *)
(* has.                                                                     *)
TrialData ==
  /\ at = "protecting" =>
       /\ cipherPc # "idle" => cipherCall.p = cap.p /\ cipherCall.arg = Ciph!Probe
       /\ cipherReply # Ciph!None =>
            /\ cipherReply.kind # "ok" => cipherReply.fault
            /\ cipherReply.kind = "ok" => made.p = cap.p /\ made.arg = Ciph!Probe
  /\ at \in {"recover", "recovering"} /\ cap.kind = "cipher" =>
       made.p = cap.p /\ made.arg = Ciph!Probe
  /\ at = "recovering" =>
       /\ cipherPc # "idle" =>
            cipherCall.op = "decrypt" /\ cipherCall.p = cap.p /\ cipherCall.arg \in made.out
       /\ cipherReply # Ciph!None =>
            cipherReply.op = "decrypt" /\ cipherReply.p = cap.p /\ cipherReply.arg \in made.out
  /\ at = "compare" => got = "same"
  /\ verdict \notin {"none", "ok"} => unwell

DataInv == TrialInv /\ CipherData /\ TrialData

(* The probe needs no padding, and every padding encrypts it.               *)
LEMMA ProbeFits ==
  ASSUME "trial" \in Subjects, NEW p \in Ciph!Paddings
  PROVE  /\ Ciph!Whole(Ciph!Probe) /\ Back(p, Ciph!Probe) = Ciph!Probe
         /\ Outcome("encrypt", p, Ciph!Probe) # {}
<1> DEFINE m == Ciph!Probe
<1>1. m \in Octets /\ Len(m) = Block /\ Block \in Nat \ {0}
  BY ProbeOctets, BoundsAssumption
<1> HIDE DEF m
<1>2. Block % Block = 0 /\ 0 % Block = 0
  <2>1. (0 + (Block - (0 % Block))) % Block = 0 /\ 0 % Block = 0
    BY <1>1
  <2>2. QED
    BY <1>1, <2>1
<1>3. Ciph!Whole(m) /\ Ciph!Missing(m) = Block /\ Ciph!Missing(m) % Block = 0
  BY <1>1, <1>2 DEF Ciph!Whole, Ciph!Missing
<1>4. Ciph!ApplyPadding("Zero", m) = m
  <2> DEFINE z == Ciph!Zeros(Ciph!Missing(m) % Block)
  <2>1. /\ z \in Octets /\ Len(z) = 0 /\ Ciph!ApplyPadding("Zero", m) = m \o z
    <3>1. 0 \in Nat /\ Ciph!Missing(m) % Block = 0
      BY <1>3
    <3>2. Ciph!Zeros(0) \in Octets /\ Len(Ciph!Zeros(0)) = 0
      BY <3>1, Pieces
    <3>3. Ciph!ApplyPadding("Zero", m) = m \o z
      BY <1>1, ZeroPads
    <3>4. QED
      BY <3>1, <3>2, <3>3
  <2> HIDE DEF z
  <2>2. z = <<>>
    BY <2>1, EmptySeq DEF Octets
  <2>3. m \o <<>> = m
    BY <1>1, ConcatEmptySeq DEF Octets
  <2>4. QED
    BY <2>1, <2>2, <2>3
<1>5. Back(p, m) = m
  BY <1>4 DEF Back
<1>6. Outcome("encrypt", p, m) # {}
  <2> DEFINE d == Handed("encrypt", p, m)
  <2>1. Outcome("encrypt", p, m) = Ciph!EVPEncrypt(p, d) /\ p \notin {"KW", "KWP"}
    BY DEF Outcome, Ciph!Paddings
  <2>2. Ciph!Stream \/ p = "PKCS7" \/ Ciph!Whole(d)
    <3> SUFFICES ASSUME ~Ciph!Stream, p # "PKCS7" PROVE Ciph!Whole(d)
      OBVIOUS
    <3>1. d = Ciph!ApplyPadding(p, m)
      BY DEF Handed
    <3>2. CASE p = "None"
      BY <1>3, <3>1, <3>2 DEF Ciph!ApplyPadding
    <3>3. CASE p = "Zero"
      BY <1>1, <3>1, <3>3, ZeroPads
    <3>4. CASE p \in Suffixes
      BY <1>1, <3>1, <3>4, PaddedForm
    <3>5. QED
      BY <3>2, <3>3, <3>4 DEF Suffixes, Ciph!Paddings
  <2> HIDE DEF d
  <2>3. Ciph!EVPEncrypt(p, d) # {}
    BY <2>1, <2>2 DEF Ciph!EVPEncrypt
  <2>4. QED
    BY <2>1, <2>3
<1>7. QED
  BY <1>3, <1>5, <1>6 DEF m

(* The steps in which no cipher works.                                      *)
LEMMA TrialDataSteps ==
  ASSUME TrialInv, CipherData, TrialData, subject = "trial",
         Ciph!Ask \/ Ciph!Check \/ Ciph!CheckClose \/ Ciph!Make \/ Ciph!Protect \/ Ciph!Recover
           \/ Ciph!Compare
  PROVE  CipherData' /\ TrialData'
<1>1. UNCHANGED <<cipherPc, cipherCall, ctxs, cipherBuf, made, cipherReply>> /\ UNCHANGED cap
  BY DEF Ciph!Ask, Ciph!Check, Ciph!CheckClose, Ciph!Make, Ciph!Protect, Ciph!Recover, Ciph!Compare,
         Ciph!Move, Ciph!NotBuilt, Ciph!Conclude, Ciph!Ends, Ciph!vars
<1>2. CipherData'
  BY <1>1, DataStutters
<1>3. /\ at' \notin {"protecting", "recovering", "compare"}
      /\ at' = "recover" => cap.kind # "cipher"
  BY DEF Ciph!Ask, Ciph!Check, Ciph!CheckClose, Ciph!Make, Ciph!Protect, Ciph!Recover, Ciph!Compare,
         Ciph!Move, Ciph!NotBuilt, Ciph!Conclude, Ciph!Ends
<1>4. ASSUME NEW v, NEW n, Ciph!Ends(v, TRUE, n) PROVE unwell'
  BY <1>4 DEF Ciph!Ends
<1>5. verdict' \notin {"none", "ok"} => unwell'
  <2>1. CASE UNCHANGED <<unwell, verdict>>
    BY <2>1 DEF TrialData
  <2>2. CASE Ciph!Check \/ Ciph!Make
    BY <1>4, <2>1, <2>2 DEF Ciph!Check, Ciph!Make, Ciph!Move, Ciph!NotBuilt
  <2>3. CASE Ciph!Protect
    BY <1>4, <2>1, <2>3 DEF Ciph!Protect, Ciph!Move, Ciph!Conclude
  <2>4. CASE Ciph!Recover
    <3>1. Ciph!Conclude("failed in practice", TRUE) \/ Ciph!Conclude("ok", FALSE)
      BY <2>4 DEF Ciph!Recover
    <3>2. Ciph!Conclude("ok", FALSE) => verdict' = "ok"
      BY DEF Ciph!Conclude, Ciph!Ends
    <3>3. QED
      BY <1>4, <3>1, <3>2 DEF Ciph!Conclude
  <2>5. CASE Ciph!Compare
    <3>1. got = "same"
      BY <2>5 DEF Ciph!Compare, TrialData
    <3>2. verdict' = "ok"
      BY <2>5, <3>1 DEF Ciph!Compare, Ciph!Conclude, Ciph!Ends
    <3>3. QED
      BY <3>2
  <2>6. QED
    BY <2>1, <2>2, <2>3, <2>4, <2>5 DEF Ciph!Ask, Ciph!CheckClose, Ciph!Move
<1>6. TrialData'
  BY <1>1, <1>3, <1>5 DEF TrialData
<1>7. QED
  BY <1>2, <1>6

(* The two calls of the cipher.                                             *)
LEMMA TrialDataCalls ==
  ASSUME TrialInv, CipherData, TrialData, subject = "trial", Ciph!TrialEncrypt \/ Ciph!TrialDecrypt
  PROVE  CipherData' /\ TrialData'
<1>0. /\ CipherInv /\ TrialTypes /\ TrialStage /\ TrialCipher /\ "trial" \in Subjects
      /\ {"encrypt", "decrypt"} = Ciph!Ops
  BY DEF TrialInv, TrialCipher, Ciph!Ops
<1>1. /\ at \in {"protect", "recover"} /\ cap.kind = "cipher"
      /\ UNCHANGED <<cap, trialHandles, got, unwell, verdict>>
      /\ at' = IF at = "protect" THEN "protecting" ELSE "recovering"
  BY DEF Ciph!TrialEncrypt, Ciph!TrialDecrypt
<1>2. cipherPc = "idle" /\ cipherReply = Ciph!None /\ cap.p \in Ciph!Paddings
  BY <1>0, <1>1 DEF TrialCipher, TrialTypes, Ciph!Caps
<1>3. ASSUME NEW op \in Ciph!Ops, NEW arg \in Octets, NEW data \in Octets,
             Ciph!Start(op, cap.p, arg, data)
      PROVE  /\ cipherPc' = "new" /\ UNCHANGED <<made, cipherReply>>
             /\ (cipherCall.op)' = op /\ (cipherCall.p)' = cap.p /\ (cipherCall.arg)' = arg
  <2> DEFINE c == [op |-> op, p |-> cap.p, arg |-> arg, in |-> data, out |-> {}, fault |-> FALSE]
  <2>1. cipherCall' = c /\ cipherPc' = "new" /\ UNCHANGED <<made, cipherReply>>
    BY <1>3 DEF Ciph!Start
  <2>2. c.op = op /\ c.p = cap.p /\ c.arg = arg
    OBVIOUS
  <2> HIDE DEF c
  <2>3. QED
    BY <2>1, <2>2
<1>4. CASE Ciph!TrialEncrypt
  <2> DEFINE m == Ciph!Probe
             data == IF ~Ciph!Stream /\ cap.p # "PKCS7" THEN Ciph!ApplyPadding(cap.p, m) ELSE m
  <2>1. at = "protect" /\ Ciph!Encrypt(cap.p, m)
    BY <1>4 DEF Ciph!TrialEncrypt
  <2>2. m \in Octets /\ Len(m) = Block /\ Ciph!Whole(m) /\ Block \in Nat /\ MaxLen \in Nat
    BY <1>0, <1>2, ProbeOctets, ProbeFits, BoundsAssumption
  <2> HIDE DEF m
  <2>3. data \in Octets
    BY <1>2, <2>2, PaddedOctets
  <2>4. cap.p = "None" => data = m
    BY DEF Ciph!ApplyPadding
  <2>5. Ciph!Start("encrypt", cap.p, m, data)
    BY <2>1, <2>2, <2>4 DEF Ciph!Encrypt
  <2> HIDE DEF data
  <2>6. CipherData'
    <3>1. Len(m) <= MaxLen + Block
      BY <2>2
    <3>2. QED
      BY <1>0, <1>2, <2>1, <2>2, <3>1, DataCalls
  <2>7. /\ cipherPc' = "new" /\ UNCHANGED <<made, cipherReply>>
        /\ (cipherCall.p)' = cap.p /\ (cipherCall.arg)' = m
    BY <1>0, <1>3, <2>2, <2>3, <2>5
  <2>8. at' = "protecting"
    BY <1>1, <2>1
  <2>9. TrialData'
    BY <1>1, <1>2, <2>7, <2>8 DEF TrialData, m
  <2>10. QED
    BY <2>6, <2>9
<1>5. CASE Ciph!TrialDecrypt
  <2>1. PICK c \in made.out : Ciph!Decrypt(cap.p, c)
    BY <1>5 DEF Ciph!TrialDecrypt
  <2>2. at = "recover" /\ made # Ciph!None /\ made.p = cap.p /\ made.arg = Ciph!Probe
    BY <1>0, <1>1, <1>5 DEF Ciph!TrialDecrypt, TrialCipher, TrialData
  <2>3. c \in Octets /\ Len(c) <= Longest /\ Admitted("decrypt", cap.p, c)
    BY <1>0, <2>2, MadeOpens
  <2>4. CipherData'
    BY <1>0, <1>2, <2>1, <2>3, DataCalls
  <2>5. Ciph!Start("decrypt", cap.p, c, c)
    <3>1. Ciph!Stream \/ Ciph!Whole(c)
      BY <1>2, <2>3 DEF Admitted, Ciph!Wraps, Ciph!Paddings
    <3>2. QED
      BY <2>1, <3>1 DEF Ciph!Decrypt
  <2>6. /\ cipherPc' = "new" /\ UNCHANGED <<made, cipherReply>> /\ (cipherCall.op)' = "decrypt"
        /\ (cipherCall.p)' = cap.p /\ (cipherCall.arg)' = c
    BY <1>0, <1>3, <2>3, <2>5
  <2>7. at' = "recovering"
    BY <1>1, <2>2
  <2>8. TrialData'
    BY <1>1, <1>2, <2>1, <2>2, <2>6, <2>7 DEF TrialData
  <2>9. QED
    BY <2>4, <2>8
<1>6. QED
  BY <1>4, <1>5

(* The cipher works, and its answer is taken.                               *)
LEMMA TrialDataWorks ==
  ASSUME LongestFits, TrialInv, CipherData, TrialData, subject = "trial", Ciph!Calling
  PROVE  CipherData' /\ TrialData'
<1>0. /\ CipherInv /\ TrialTypes /\ TrialStage /\ TrialCipher /\ "trial" \in Subjects
      /\ at \in {"protecting", "recovering"} /\ cap.kind = "cipher"
      /\ cap.p \in Ciph!Paddings
  BY DEF TrialInv, TrialCipher, TrialTypes, Ciph!Calling, Ciph!Caps
<1>1. /\ UNCHANGED <<cap, at, trialHandles, got, unwell, verdict>>
      /\ \/ Ciph!New \/ Ciph!Prepare \/ Ciph!Update \/ Ciph!Final
         \/ Ciph!ReturnEncrypt \/ Ciph!ReturnDecrypt
  BY DEF Ciph!Calling, Ciph!trialVars
<1>2. CipherData'
  BY <1>0, <1>1, DataRuns, DataReturns
<1>3. cipherPc # "idle" /\ cipherReply = Ciph!None
  BY <1>0, <1>1, CipherRuns, CipherUnderWay
<1>4. CASE /\ cipherPc' # "idle" /\ UNCHANGED <<made, cipherReply>>
           /\ (cipherCall.op)' = cipherCall.op /\ (cipherCall.p)' = cipherCall.p
           /\ (cipherCall.arg)' = cipherCall.arg
  BY <1>1, <1>2, <1>3, <1>4 DEF TrialData
<1>5. CASE /\ cipherPc = "return" /\ cipherPc' = "idle"
           /\ (cipherReply.op)' = cipherCall.op /\ (cipherReply.p)' = cipherCall.p
           /\ (cipherReply.arg)' = cipherCall.arg /\ (cipherReply.fault)' = cipherCall.fault
           /\ cipherCall.op = "encrypt" =>
                /\ (cipherReply.kind)' = IF cipherCall.out = {} THEN "Error" ELSE "ok"
                /\ made' = IF cipherCall.out = {} THEN made
                           ELSE [kind |-> "made", p |-> cipherCall.p,
                                 arg |-> cipherCall.arg, out |-> cipherCall.out]
           /\ cipherCall.op = "decrypt" => UNCHANGED made
  <2>1. cipherCall \in UnderWay /\ Over(cipherCall)
    BY <1>3, <1>5, <1>0, CipherUnderWay DEF UnderWay, CipherData
  <2>2. CASE at = "protecting"
    <3>1. /\ cipherCall.op = "encrypt" /\ cipherCall.p = cap.p /\ cipherCall.arg = Ciph!Probe
      BY <1>0, <1>3, <2>2 DEF TrialCipher, TrialData
    <3>2. ASSUME cipherCall.out = {}
          PROVE  (cipherReply.kind)' = "Error" /\ (cipherReply.fault)'
      <4>1. cipherCall.fault
        <5>1. Outcome("encrypt", cap.p, Ciph!Probe) # {}
          BY <1>0, ProbeFits
        <5>2. QED
          BY <2>1, <3>1, <3>2, <5>1 DEF Over
      <4>2. QED
        BY <1>5, <3>1, <3>2, <4>1
    <3>3. ASSUME cipherCall.out # {}
          PROVE  /\ (cipherReply.kind)' = "ok"
                 /\ (made.p)' = cap.p /\ (made.arg)' = Ciph!Probe
      <4> DEFINE m == [kind |-> "made", p |-> cipherCall.p,
                       arg |-> cipherCall.arg, out |-> cipherCall.out]
      <4>1. made' = m /\ (cipherReply.kind)' = "ok"
        BY <1>5, <3>1, <3>3
      <4>2. m.p = cipherCall.p /\ m.arg = cipherCall.arg
        OBVIOUS
      <4> HIDE DEF m
      <4>3. QED
        BY <3>1, <4>1, <4>2
    <3>4. \/ (cipherReply.kind)' = "Error" /\ (cipherReply.fault)'
          \/ /\ (cipherReply.kind)' = "ok"
             /\ (made.p)' = cap.p /\ (made.arg)' = Ciph!Probe
      BY <3>2, <3>3
    <3>5. QED
      BY <1>1, <1>2, <1>5, <2>2, <3>4 DEF TrialData
  <2>3. CASE at = "recovering"
    <3>1. /\ cipherCall.op = "decrypt" /\ cipherCall.p = cap.p /\ cipherCall.arg \in made.out
          /\ made.p = cap.p /\ made.arg = Ciph!Probe
      BY <1>0, <1>3, <2>3 DEF TrialData
    <3>2. UNCHANGED made
      BY <1>5, <3>1
    <3>3. QED
      BY <1>1, <1>2, <1>5, <2>3, <3>1, <3>2 DEF TrialData
  <2>4. QED
    BY <1>0, <2>2, <2>3
<1>6. TrialData'
  BY <1>0, <1>1, <1>4, <1>5, CipherRuns
<1>7. QED
  BY <1>2, <1>6

(* The trial goes on from the answer of its cipher call: it decrypts what   *)
(* was encrypted, and its verdict is whether that gave the probe back.      *)
LEMMA TrialDataAnswers ==
  ASSUME TrialInv, CipherData, TrialData, subject = "trial", Ciph!Called
  PROVE  CipherData' /\ TrialData'
<1>0. /\ CipherInv /\ TrialTypes /\ TrialStage /\ TrialCipher /\ "trial" \in Subjects
      /\ at \in {"protecting", "recovering"} /\ cap.kind = "cipher"
      /\ cap.p \in Ciph!Paddings
  BY DEF TrialInv, TrialCipher, TrialTypes, Ciph!Called, Ciph!Caps
<1>1. /\ cipherReply # Ciph!None /\ cipherReply' = Ciph!None
      /\ UNCHANGED <<cipherPc, cipherCall, ctxs, cipherBuf, made, cap>>
  BY DEF Ciph!Called, Ciph!Taken, Ciph!Ends
<1>2. CipherData'
  BY <1>1, DataStutters
<1>3. cipherPc = "idle" /\ cipherReply \in Answered
  BY <1>0, <1>1 DEF CipherInv, CipherStage, CipherTypes, Answered
<1>4. ASSUME at = "recovering"
      PROVE  IF cipherReply.fault THEN cipherReply.kind # "ok"
             ELSE cipherReply.kind = "ok" /\ cipherReply.out = {Ciph!Probe}
  <2>1. /\ cipherReply.op = "decrypt" /\ cipherReply.p = cap.p /\ cipherReply.arg \in made.out
        /\ made.p = cap.p /\ made.arg = Ciph!Probe /\ made # Ciph!None
    BY <1>0, <1>1, <1>4 DEF TrialData, TrialCipher
  <2>2. Told(cipherReply)
    BY <1>1, <2>1 DEF CipherData
  <2>3. /\ Admitted("decrypt", cap.p, cipherReply.arg)
        /\ Opened(cap.p, cipherReply.arg) = {Ciph!Probe}
    <3>1. /\ Admitted("decrypt", made.p, cipherReply.arg)
          /\ Opened(made.p, cipherReply.arg) = {Back(made.p, made.arg)}
      BY <1>0, <2>1, MadeOpens
    <3>2. Back(cap.p, Ciph!Probe) = Ciph!Probe
      BY <1>0, ProbeFits
    <3>3. QED
      BY <2>1, <3>1, <3>2
  <2>4. QED
    BY <2>1, <2>2, <2>3 DEF Told
<1>5. ASSUME cipherReply.kind # "ok" PROVE cipherReply.fault
  BY <1>0, <1>1, <1>4, <1>5 DEF TrialData
<1>6. CASE cipherReply.kind # "ok"
  <2>1. /\ at' = "idle" /\ verdict' = "failed in practice"
        /\ unwell' = (unwell \/ cipherReply.fault)
    BY <1>6 DEF Ciph!Called, Ciph!Ends
  <2>2. unwell'
    BY <1>5, <1>6, <2>1
  <2>3. TrialData'
    BY <2>1, <2>2 DEF TrialData
  <2>4. QED
    BY <1>2, <2>3
<1>7. CASE cipherReply.kind = "ok"
  <2>1. UNCHANGED <<unwell, verdict>>
    BY <1>7 DEF Ciph!Called
  <2>2. CASE at = "protecting"
    <3>1. at' = "recover" /\ made.p = cap.p /\ made.arg = Ciph!Probe
      BY <1>1, <1>7, <2>2 DEF Ciph!Called, TrialData
    <3>2. TrialData'
      BY <1>1, <2>1, <3>1 DEF TrialData
    <3>3. QED
      BY <1>2, <3>2
  <2>3. CASE at = "recovering"
    <3>1. cipherReply.out = {Ciph!Probe}
      BY <1>4, <1>7, <2>3
    <3>2. at' = "compare" /\ got' = "same"
      BY <1>7, <2>3, <3>1 DEF Ciph!Called
    <3>3. TrialData'
      BY <1>1, <2>1, <3>2 DEF TrialData
    <3>4. QED
      BY <1>2, <3>3
  <2>4. QED
    BY <1>0, <2>2, <2>3
<1>8. QED
  BY <1>6, <1>7

(* Every step preserves all of it.                                          *)
LEMMA TrialDataNext ==
  ASSUME LongestFits, DataInv, [CallsNext]_callsVars
  PROVE  DataInv'
<1>1. TrialInv /\ CipherInv /\ CipherData /\ TrialData /\ TrialCipher
  BY DEF DataInv, TrialInv
<1>2. TrialInv'
  BY <1>1, TrialNext
<1>3. CASE subject = "cipher" /\ Ciph!Next /\ UNCHANGED trialVars
  <2>1. CipherData'
    BY <1>1, <1>3, DataNext
  <2>2. UNCHANGED <<cap, at, trialHandles, got, unwell, verdict>> /\ at = "idle"
    BY <1>1, <1>3 DEF trialVars, TrialCipher
  <2>3. TrialData'
    BY <1>1, <2>2 DEF TrialData
  <2>4. QED
    BY <1>2, <2>1, <2>3 DEF DataInv
<1>4. CASE subject = "trial" /\ Ciph!TrialNext
  BY <1>1, <1>2, <1>4, TrialDataSteps, TrialDataCalls, TrialDataWorks, TrialDataAnswers
     DEF DataInv, Ciph!TrialNext
<1>5. CASE UNCHANGED cipherVars /\ UNCHANGED trialVars
  <2>1. /\ UNCHANGED <<cap, at, trialHandles, got, unwell, verdict>>
        /\ UNCHANGED <<cipherPc, cipherCall, ctxs, cipherBuf, made, cipherReply>>
    BY <1>5 DEF trialVars, cipherVars
  <2>2. CipherData' /\ TrialData'
    BY <1>1, <2>1, DataStutters DEF TrialData
  <2>3. QED
    BY <1>2, <2>2 DEF DataInv
<1>6. QED
  BY <1>3, <1>4, <1>5, CipherProjection

(* The data of ciphers, key wraps and trials keep the invariant where every *)
(* length fits in a C.int.                                                  *)
THEOREM DataInvariance == ASSUME LongestFits PROVE CallsSpec => []DataInv
<1>1. CallsInit => DataInv
  <2> SUFFICES ASSUME CallsInit PROVE DataInv
    OBVIOUS
  <2>1. TrialInv /\ CipherData
    BY TrialInitial, DataInit DEF CallsInit, Ciph!TrialInit
  <2>2. TrialData
    BY DEF CallsInit, Ciph!TrialInit, TrialData
  <2>3. QED
    BY <2>1, <2>2 DEF DataInv
<1>2. DataInv /\ [CallsNext]_callsVars => DataInv'
  BY TrialDataNext
<1>3. QED
  BY <1>1, <1>2, PTL DEF CallsSpec, callsVars

(* Padding and key wrap lose nothing and make nothing up: what Encrypt or   *)
(* Wrap made comes back of Decrypt or Unwrap, for messages of any length    *)
(* that fits in a C.int and blocks of any size, and what they give back is  *)
(* what was encrypted (cipher_sym.go:36-42).                                *)
THEOREM PaddingsInvert == ASSUME LongestFits PROVE CallsSpec => []PaddingInverts
<1>1. DataInv => PaddingInverts
  BY DataInverts DEF DataInv, TrialInv, PaddingInverts
<1>2. QED
  BY <1>1, DataInvariance, PTL

(* Encrypt and Wrap encrypt the plaintext, all of it (cipher_sym.go:198),   *)
(* where every length fits in a C.int; the run length_wraps shows that they *)
(* do not where one does not.                                               *)
THEOREM AllIsEncrypted == ASSUME LongestFits PROVE CallsSpec => []CoversInput
<1>1. DataInv => CoversInput
  <2> SUFFICES ASSUME DataInv, cipherReply # Ciph!None, cipherReply.op = "encrypt",
                      cipherReply.kind = "ok", NEW c \in cipherReply.out
               PROVE  Len(c) >= Len(cipherReply.arg)
    BY DEF CoversInput, Ciph!CoversInput
  <2>1. cipherReply \in Answered /\ Enciphered(cipherReply)
    BY DEF DataInv, TrialInv, CipherInv, CipherTypes, CipherData, Answered
  <2>2. cipherReply.p \in Modes /\ cipherReply.arg \in Octets
    BY <2>1 DEF Answered
  <2>3. /\ Admitted("encrypt", cipherReply.p, cipherReply.arg)
        /\ c \in Ciph!EVPEncrypt(cipherReply.p, Handed("encrypt", cipherReply.p, cipherReply.arg))
    BY <2>1 DEF Enciphered, Outcome
  <2>4. c \in Octets /\ Len(cipherReply.arg) <= Len(c)
    BY <2>2, <2>3, RoundTrips
  <2>5. Len(c) \in Nat /\ Len(cipherReply.arg) \in Nat
    BY <2>2, <2>4, LenProperties DEF Octets
  <2>6. QED
    BY <2>4, <2>5
<1>2. QED
  BY <1>1, DataInvariance, PTL

(* VerifyCapability says of a capability that it works only where the trial *)
(* gave back what was put in, and that it does not only where a step of the *)
(* trial failed (capability.go:71-76, :368-372): the probe itself fails no  *)
(* padding.                                                                 *)
THEOREM VerifiedWorks == ASSUME LongestFits PROVE CallsSpec => []VerifiedMeansWorks
<1>1. DataInv => VerifiedMeansWorks
  <2>1. TrialInv => (verdict = "ok" => got = "same" /\ ~unwell)
    BY DEF TrialInv, TrialTypes, TrialStage
  <2>2. QED
    BY <2>1 DEF DataInv, TrialData, VerifiedMeansWorks, Ciph!VerifiedMeansWorks
<1>2. QED
  BY <1>1, DataInvariance, PTL
=============================================================================

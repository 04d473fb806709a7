--------------------------- MODULE SignaturesProofs ---------------------------
(***************************************************************************)
(* What MCSignatures promises, for every set of keys and streams, messages *)
(* of any length, and every combination of options.                        *)
(*                                                                         *)
(* A behaviour exercises one of two parts, each with its invariant.  For   *)
(* the handles, HandleInv adds to ReferencesBalance what a stream under    *)
(* construction owns, and to NoFalseAccept and RoundTrip how the last      *)
(* signature was encoded.  For the options, OptionInv says which call each *)
(* recorded outcome is the outcome of; that two statements are equal only  *)
(* if the options mean the same is then a fact about the operators alone.  *)
(***************************************************************************)
EXTENDS MCSignatures, SequenceTheorems, TLAPS

-----------------------------------------------------------------------------
(* Handles and streams.                                                     *)

(* The stream under construction: whether it has its reference to k yet,    *)
(* and its context, which it has from the start.                            *)
HeldBuilding(k) ==
  {s \in Streams : pc # Idle /\ pc.at \in {"init", "apply"} /\ pc.s = s /\ pc.key = k}
Allocating == {s \in Streams : pc # Idle /\ pc.s = s}

OwnersNow(k) == Owners(k) \cup HeldBuilding(k)

(* Every reference and every context has an owner at every step, those of a *)
(* stream being built included; what is being built is not in use, its Key  *)
(* is open, and nothing holds a key before it exists.                       *)
Owned ==
  /\ \A k \in Keys : refs[k] = OwnersNow(k)
  /\ ctxs = {s \in Streams : Open(s)} \cup Allocating
  /\ pc # Idle => ~Open(pc.s) /\ handle[pc.key] = "open"
  /\ \A k \in Keys : handle[k] = "none" => refs[k] = {}

(* A signature is encoded as its path encodes.                              *)
MadeAs(x) == IF x.by = KeyHandle THEN Encoding(x.asked) ELSE "DER"
Encoded == sig # NoSig => sig.enc = MadeAs(sig)

(* A verification answered what EVP made of the decoded signature.          *)
Verdict(x) ==
  Answer(EVPVerify(x.key, x.msg, x.asked, x.sig,
                   IF x.by = KeyHandle THEN ToDER(x.asked, x.sig.enc) ELSE x.sig.enc))
Answered ==
  check # NoCheck => check.sig.enc = MadeAs(check.sig) /\ check.answer = Verdict(check)

HandleInv == TypeOK /\ Owned /\ SignatureCoversStream /\ Encoded /\ Answered

(* The empty message is one, and a message with room for a chunk grows by   *)
(* one.                                                                     *)
LEMMA EmptyMessage == <<>> \in Messages
<1>1. <<>> \in [1..0 -> Chunks] /\ 0 \in 0..MaxWrites
  BY BoundAssumption
<1>2. QED
  BY <1>1 DEF Messages

(* A message with room for one more chunk can be written to.                *)
LEMMA LongerMessage ==
  ASSUME NEW m \in Messages, NEW c \in Chunks, Len(m) < MaxWrites
  PROVE  Append(m, c) \in Messages
<1>1. PICK n \in 0..MaxWrites : m \in [1..n -> Chunks]
  BY DEF Messages
<1>2. n \in Nat /\ m \in Seq(Chunks)
  BY <1>1, BoundAssumption
<1>3. Len(m) = n
  BY <1>1, <1>2
<1>4. n + 1 \in 0..MaxWrites
  BY <1>2, <1>3, BoundAssumption
<1>5. Append(m, c) \in [1..(n + 1) -> Chunks]
  <2>1. Append(m, c) \in Seq(Chunks) /\ Len(Append(m, c)) = n + 1
    BY <1>2, <1>3
  <2>2. QED
    BY <2>1, LenProperties
<1>6. QED
  BY <1>4, <1>5 DEF Messages

(* What a type tells of the records that have an empty variant.             *)
LEMMA Variants ==
  ASSUME TypeOK
  PROVE  /\ pc # Idle => pc \in Building
         /\ pc = Idle => pc.at = "idle"
         /\ \A s \in Streams : Open(s) <=> stream[s] \in StreamState
         /\ \A s \in Streams : Open(s) \/ stream[s] = NoStream
         /\ sig # NoSig => sig \in Signatures
         /\ check # NoCheck => check \in Checks
  BY DEF TypeOK, Idle, Building, Open, StreamState, Kinds, NoStream

(* The initial states satisfy the invariant.                                *)
LEMMA HandleInit == Init => HandleInv
<1> SUFFICES ASSUME Init PROVE HandleInv
  OBVIOUS
<1>1. TypeOK
  BY EmptyMessage DEF Init, TypeOK, Makers
<1>2. \A s \in Streams : ~Open(s)
  BY DEF Init, Open, NoStream
<1>3. Owned
  BY <1>2 DEF Init, Owned, OwnersNow, Owners, HeldBuilding, Allocating
<1>4. SignatureCoversStream /\ Encoded /\ Answered
  BY <1>2 DEF Init, SignatureCoversStream, Encoded, Answered
<1>5. QED
  BY <1>1, <1>3, <1>4 DEF HandleInv

(* Every step of every call preserves the types.                            *)
LEMMA HandleTypes == TypeOK /\ [Next]_vars => TypeOK'
<1> SUFFICES ASSUME TypeOK, [Next]_vars PROVE TypeOK'
  OBVIOUS
<1> USE DEF TypeOK
<1>1. ASSUME NEW k \in Keys, GenerateKey(k) \/ CloseKey(k) PROVE TypeOK'
  BY <1>1 DEF GenerateKey, CloseKey, Makers
<1>2. ASSUME NEW s \in Streams, NEW kind \in Kinds, NEW k \in Keys, NEW f \in Options,
             BeginStream(s, kind, k, f)
      PROVE TypeOK'
  <2>1. pc' \in Building
    BY <1>2 DEF BeginStream, Building
  <2>2. QED
    BY <1>2, <2>1 DEF BeginStream
<1>3. CASE UpRef \/ DigestInit \/ Apply
  <2>1. pc \in Building
    BY <1>3, Variants DEF UpRef, DigestInit, Apply
  <2>2. refs' \in [Keys -> SUBSET Makers] /\ ctxs' \in SUBSET Streams
    BY <1>3, <2>1 DEF UpRef, DigestInit, Apply, Undo, Building, Makers
  <2>3. pc' \in Building \cup {Idle}
    <3>1. [pc EXCEPT !.at = "init"] \in Building /\ [pc EXCEPT !.at = "apply"] \in Building
      BY <2>1 DEF Building
    <3>2. QED
      BY <1>3, <3>1 DEF UpRef, DigestInit, Apply, Undo
  <2>4. stream' \in [Streams -> StreamState \cup {NoStream}]
    <3>1. [kind |-> pc.kind, key |-> pc.key, asked |-> pc.asked, done |-> FALSE] \in StreamState
      BY <2>1 DEF Building, StreamState
    <3>2. QED
      BY <1>3, <3>1 DEF UpRef, DigestInit, Apply, Undo
  <2>5. absorbed' \in [Streams -> Messages]
    BY <1>3, <2>1, EmptyMessage DEF UpRef, DigestInit, Apply, Undo, Building
  <2>6. UNCHANGED <<handle, sig>> /\ check' = NoCheck
    BY <1>3 DEF UpRef, DigestInit, Apply, Undo
  <2>7. QED
    BY <2>2, <2>3, <2>4, <2>5, <2>6
<1>4. ASSUME NEW s \in Streams, SignStream(s) PROVE TypeOK'
  <2>1. stream[s] \in StreamState
    BY <1>4, Variants DEF SignStream, Live, Open
  <2>2. sig' \in Signatures
    BY <1>4, <2>1 DEF SignStream, Signatures, StreamState, Formats, Makers
  <2>3. stream' \in [Streams -> StreamState \cup {NoStream}]
    BY <1>4, <2>1 DEF SignStream, StreamState
  <2>4. QED
    BY <1>4, <2>2, <2>3 DEF SignStream
<1>5. ASSUME NEW s \in Streams, VerifyStream(s) PROVE TypeOK'
  <2>1. stream[s] \in StreamState
    BY <1>5, Variants DEF VerifyStream, Live, Open
  <2>2. check' \in Checks \cup {NoCheck}
    BY <1>5, <2>1 DEF VerifyStream, Checks, StreamState, Makers, Answer
  <2>3. stream' \in [Streams -> StreamState \cup {NoStream}]
    BY <1>5, <2>1 DEF VerifyStream, StreamState
  <2>4. QED
    BY <1>5, <2>2, <2>3 DEF VerifyStream
<1>6. ASSUME NEW s \in Streams, CloseStream(s) PROVE TypeOK'
  <2>1. refs' \in [Keys -> SUBSET Makers]
    BY <1>6, Variants DEF CloseStream, StreamState
  <2>2. QED
    BY <1>6, <2>1, EmptyMessage DEF CloseStream
<1>7. ASSUME NEW s \in Streams, NEW c \in Chunks, Write(s, c) PROVE TypeOK'
  BY <1>7, LongerMessage DEF Write
<1>8. ASSUME NEW k \in Keys, NEW m \in Messages, NEW f \in Options, Sign(k, m, f) PROVE TypeOK'
  BY <1>8 DEF Sign, Signatures, Formats, Encoding, Makers
<1>9. ASSUME NEW k \in Keys, NEW m \in Messages, NEW f \in Options, Verify(k, m, f) PROVE TypeOK'
  <2>1. check' \in Checks
    BY <1>9 DEF Verify, Checks, Makers, Answer
  <2>2. QED
    BY <1>9, <2>1 DEF Verify
<1>10. CASE UNCHANGED vars
  BY <1>10 DEF vars
<1>11. QED
  BY <1>1, <1>2, <1>3, <1>4, <1>5, <1>6, <1>7, <1>8, <1>9, <1>10
     DEF Next, SignDigest, VerifyDigest

(* Every step keeps the books of references and contexts.                   *)
LEMMA OwnedNext == TypeOK /\ Owned /\ [Next]_vars => Owned'
<1> SUFFICES ASSUME TypeOK, Owned, [Next]_vars PROVE Owned'
  OBVIOUS
<1> USE Variants, HolderAssumption
    DEF Owned, OwnersNow, Owners, HeldBuilding, Allocating
<1>1. ASSUME NEW k \in Keys, GenerateKey(k) \/ CloseKey(k) PROVE Owned'
  <2>1. \A j \in Keys : (Owners(j) = Owners(j) \cup HeldBuilding(j)) /\ refs[j] = Owners(j)
    BY <1>1 DEF GenerateKey, CloseKey, idle
  <2>2. CASE GenerateKey(k)
    <3>1. \A j \in Keys : refs'[j] = Owners(j)'
      <4>1. Owners(k)' = Owners(k) \cup {KeyHandle}
        BY <2>2 DEF GenerateKey, TypeOK, Open
      <4>2. QED
        BY <2>1, <2>2, <4>1 DEF GenerateKey, TypeOK, Open
    <3>2. QED
      BY <2>2, <3>1 DEF GenerateKey, idle, Open
  <2>3. CASE CloseKey(k)
    <3>1. \A j \in Keys : refs'[j] = Owners(j)'
      BY <2>1, <2>3 DEF CloseKey, TypeOK, Open
    <3>2. QED
      BY <2>3, <3>1 DEF CloseKey, idle, Open
  <2>4. QED
    BY <1>1, <2>2, <2>3
<1>2. ASSUME NEW s \in Streams, NEW kind \in Kinds, NEW k \in Keys, NEW f \in Options,
             BeginStream(s, kind, k, f)
      PROVE Owned'
  BY <1>2 DEF BeginStream, Open, idle, Idle
<1>3. CASE UpRef
  <2>1. pc \in Building
    BY <1>3 DEF UpRef
  <2>2. CASE ctxs' = ctxs \ {pc.s} /\ pc' = Idle /\ UNCHANGED refs
    BY <1>3, <2>1, <2>2 DEF UpRef, Building, Open, TypeOK
  <2>3. CASE /\ refs' = [refs EXCEPT ![pc.key] = @ \cup {pc.s}]
             /\ pc' = [pc EXCEPT !.at = "init"]
             /\ UNCHANGED ctxs
    <3>1. pc' # Idle /\ pc'.at = "init" /\ pc'.s = pc.s /\ pc'.key = pc.key
      BY <2>1, <2>3 DEF Building, Idle
    <3>2. QED
      BY <1>3, <2>1, <2>3, <3>1 DEF UpRef, Building, Open, TypeOK
  <2>4. QED
    BY <1>3, <2>2, <2>3 DEF UpRef
<1>4. ASSUME pc.at \in {"init", "apply"}, Undo PROVE Owned'
  <2>1. pc \in Building
    BY <1>4
  <2>2. QED
    BY <1>4, <2>1 DEF Undo, Building, Open, TypeOK
<1>5. ASSUME pc.at = "init", pc' = [pc EXCEPT !.at = "apply"],
             UNCHANGED <<handle, refs, ctxs, stream>>
      PROVE Owned'
  <2>1. pc \in Building
    BY <1>5
  <2>2. pc' # Idle /\ pc'.at = "apply" /\ pc'.s = pc.s /\ pc'.key = pc.key
    BY <1>5, <2>1 DEF Building, Idle
  <2>3. QED
    BY <1>5, <2>1, <2>2 DEF Open
<1>6. ASSUME pc.at = "apply", pc' = Idle, UNCHANGED <<handle, refs, ctxs>>,
             stream' = [stream EXCEPT ![pc.s] =
                          [kind |-> pc.kind, key |-> pc.key, asked |-> pc.asked,
                           done |-> FALSE]]
      PROVE Owned'
  <2>1. pc \in Building
    BY <1>6
  <2>2. /\ stream'[pc.s].kind # "none" /\ stream'[pc.s].key = pc.key
        /\ \A s \in Streams \ {pc.s} : stream'[s] = stream[s]
    BY <1>6, <2>1 DEF Building, Kinds, TypeOK
  <2>3. QED
    BY <1>6, <2>1, <2>2 DEF Building, Open, TypeOK
<1>7. ASSUME NEW s \in Streams, CloseStream(s) PROVE Owned'
  BY <1>7 DEF CloseStream, Open, TypeOK, StreamState, NoStream, idle
<1>8. ASSUME NEW s \in Streams, SignStream(s) \/ VerifyStream(s) PROVE Owned'
  <2>1. stream[s] \in StreamState /\ stream' = [stream EXCEPT ![s].done = TRUE]
    BY <1>8 DEF SignStream, VerifyStream, Live, Open, Kinds
  <2>2. \A t \in Streams : stream'[t].kind = stream[t].kind /\ stream'[t].key = stream[t].key
    BY <2>1 DEF TypeOK, StreamState, NoStream
  <2>3. UNCHANGED <<handle, refs, ctxs, pc>>
    BY <1>8 DEF SignStream, VerifyStream
  <2>4. \A t \in Streams : Open(t)' = Open(t)
    BY <2>2 DEF Open
  <2>5. \A k \in Keys : Owners(k)' = Owners(k) /\ HeldBuilding(k)' = HeldBuilding(k)
    BY <2>2, <2>3, <2>4
  <2>6. Allocating' = Allocating /\ {t \in Streams : Open(t)}' = {t \in Streams : Open(t)}
    BY <2>3, <2>4
  <2>7. pc # Idle => pc.s \in Streams
    BY DEF Building
  <2>8. QED
    BY <2>3, <2>4, <2>5, <2>6, <2>7
<1>9. ASSUME UNCHANGED <<handle, refs, ctxs, stream, pc>> PROVE Owned'
  BY <1>9 DEF Open
<1>10. QED
  BY <1>1, <1>2, <1>3, <1>4, <1>5, <1>6, <1>7, <1>8, <1>9
     DEF Next, DigestInit, Apply, Write, Sign, Verify, SignDigest, VerifyDigest, vars

(* Every step keeps what is known of the last signature and its stream.     *)
LEMMA CoversNext ==
  TypeOK /\ Owned /\ SignatureCoversStream /\ [Next]_vars => SignatureCoversStream'
<1> SUFFICES ASSUME TypeOK, Owned, SignatureCoversStream, [Next]_vars,
                    NEW s \in Streams, Open(s)', (stream[s].kind = "signer")', stream'[s].done,
                    sig' # NoSig, sig'.by = s
             PROVE  sig'.msg = absorbed'[s]
  BY DEF SignatureCoversStream
<1> USE Variants DEF TypeOK
<1>1. ASSUME stream'[s] = stream[s], absorbed'[s] = absorbed[s], sig' = sig
      PROVE sig'.msg = absorbed'[s]
  BY <1>1 DEF SignatureCoversStream, Open
<1>2. ASSUME NEW t \in Streams, SignStream(t) PROVE sig'.msg = absorbed'[s]
  BY <1>2 DEF SignStream
<1>3. ASSUME NEW t \in Streams, VerifyStream(t) PROVE sig'.msg = absorbed'[s]
  <2>1. CASE s = t
    <3>1. stream[s] \in StreamState /\ stream'[s].kind = "verifier"
      BY <1>3, <2>1 DEF VerifyStream, Live, Open, StreamState
    <3>2. QED
      BY <3>1
  <2>2. QED
    BY <1>1, <1>3, <2>1 DEF VerifyStream
<1>4. ASSUME NEW t \in Streams, CloseStream(t) PROVE sig'.msg = absorbed'[s]
  BY <1>1, <1>4 DEF CloseStream, Open, NoStream
<1>5. ASSUME NEW t \in Streams, NEW c \in Chunks, Write(t, c) PROVE sig'.msg = absorbed'[s]
  BY <1>1, <1>5 DEF Write, Live
<1>6. CASE UpRef \/ DigestInit \/ Apply
  <2>1. pc \in Building
    BY <1>6 DEF UpRef, DigestInit, Apply
  <2>2. stream'[s] = stream[s] \/ ~stream'[s].done
    BY <1>6, <2>1 DEF UpRef, DigestInit, Apply, Undo, Building
  <2>3. absorbed'[s] = absorbed[s] \/ ~stream'[s].done
    BY <1>6, <2>1 DEF UpRef, DigestInit, Apply, Undo, Building
  <2>4. QED
    BY <1>1, <1>6, <2>2, <2>3 DEF UpRef, DigestInit, Apply, Undo
<1>7. ASSUME NEW k \in Keys, NEW m \in Messages, NEW f \in Options, Sign(k, m, f)
      PROVE sig'.msg = absorbed'[s]
  BY <1>7, HolderAssumption DEF Sign
<1>8. QED
  BY <1>1, <1>2, <1>3, <1>4, <1>5, <1>6, <1>7
     DEF Next, GenerateKey, CloseKey, BeginStream, Verify, SignDigest, VerifyDigest, vars

(* Every step keeps what is known of the last signature's encoding and the  *)
(* last verification's answer.                                              *)
LEMMA AnsweredNext == TypeOK /\ Encoded /\ Answered /\ [Next]_vars => (Encoded /\ Answered)'
<1> SUFFICES ASSUME TypeOK, Encoded, Answered, [Next]_vars PROVE (Encoded /\ Answered)'
  OBVIOUS
<1>1. ASSUME check' = NoCheck, UNCHANGED sig PROVE (Encoded /\ Answered)'
  BY <1>1 DEF Encoded, Answered, MadeAs
<1>2. ASSUME NEW s \in Streams, SignStream(s) PROVE (Encoded /\ Answered)'
  BY <1>2, HolderAssumption DEF SignStream, Encoded, Answered, MadeAs
<1>3. ASSUME NEW k \in Keys, NEW m \in Messages, NEW f \in Options, Sign(k, m, f)
      PROVE (Encoded /\ Answered)'
  BY <1>3 DEF Sign, Encoded, Answered, MadeAs
<1>4. ASSUME NEW s \in Streams, VerifyStream(s) PROVE (Encoded /\ Answered)'
  <2>1. check' = NoCheck \/ (sig # NoSig /\ check'.sig = sig /\ check'.answer = Verdict(check'))
    BY <1>4, HolderAssumption DEF VerifyStream, Verdict
  <2>2. QED
    BY <1>4, <2>1 DEF VerifyStream, Encoded, Answered, Verdict, MadeAs
<1>5. ASSUME NEW k \in Keys, NEW m \in Messages, NEW f \in Options, Verify(k, m, f)
      PROVE (Encoded /\ Answered)'
  <2>1. sig # NoSig /\ check'.sig = sig /\ check'.answer = Verdict(check')
    BY <1>5 DEF Verify, Verdict
  <2>2. QED
    BY <1>5, <2>1 DEF Verify, Encoded, Answered, Verdict, MadeAs
<1>6. CASE UNCHANGED vars
  BY <1>6 DEF vars, Encoded, Answered, Verdict, MadeAs
<1>7. QED
  BY <1>1, <1>2, <1>3, <1>4, <1>5, <1>6
     DEF Next, GenerateKey, CloseKey, BeginStream, UpRef, DigestInit, Apply, Undo,
         CloseStream, Write, SignDigest, VerifyDigest

(* Every step of the handles preserves the invariant.                       *)
LEMMA HandleNext == HandleInv /\ [Next]_vars => HandleInv'
BY HandleTypes, OwnedNext, CoversNext, AnsweredNext DEF HandleInv

(* The invariant implies what the runs check.                               *)
LEMMA HandleImplies ==
  HandleInv => ReferencesBalance /\ NoFalseAccept /\ RoundTrip
<1> SUFFICES ASSUME HandleInv PROVE ReferencesBalance /\ NoFalseAccept /\ RoundTrip
  OBVIOUS
<1> USE DEF HandleInv
<1>1. ReferencesBalance
  BY DEF Owned, OwnersNow, HeldBuilding, Allocating, ReferencesBalance, idle
<1>2. NoFalseAccept
  BY DEF NoFalseAccept, Answered, Verdict, Answer, EVPVerify
<1>3. RoundTrip
  BY DEF RoundTrip, Answered, Verdict, Answer, EVPVerify, MadeAs, Encoding, ToDER,
         SamePath, SameInstance
<1>4. QED
  BY <1>1, <1>2, <1>3

-----------------------------------------------------------------------------
(* The options.                                                             *)

(* What Supports answered, what the attempt to sign made, and what the      *)
(* attempt to verify compared, each an outcome of that call on key.         *)
Supports ==
  support # "unasked" => (support = "yes" <=> Opts!Supported(key, asked))

Made ==
  made # Opts!None =>
    /\ made.enc = Opts!Encoding(made.path, asked)
    /\ made.outcome \in Opts!Ends(made.path, asked, "ok")
    /\ made.outcome = "ok" =>
         made.statement = Opts!Statement(made.path, key, Opts!SignOpts(key, asked))

Same(path, o) ==
  /\ made.enc = Opts!Encoding(path, o)
  /\ made.statement = Opts!Statement(path, key, Opts!SignOpts(key, o))

Compared ==
  checked # Opts!None =>
    /\ made # Opts!None /\ made.outcome = "ok"
    /\ checked.outcome \in
         Opts!Ends(checked.path, checked.opts,
                   IF Same(checked.path, checked.opts) THEN "ok" ELSE "ErrVerification")

OptionInv == Opts!TypeOK /\ Supports /\ Made /\ Compared

(* The options with one field changed are options.                          *)
LEMMA OthersAreOptions == asked \in Opts!Options => Opts!Others \subseteq Opts!Options
<1> SUFFICES ASSUME asked \in Opts!Options,
                    NEW f \in DOMAIN Opts!Values, NEW v \in Opts!Values[f]
             PROVE  [asked EXCEPT ![f] = v] \in Opts!Options
  BY DEF Opts!Others
<1>1. f \in {"digest", "context", "prehash", "padding", "salt", "mgf1", "format",
             "deterministic"}
  BY DEF Opts!Values
<1>2. QED
  BY <1>1 DEF Opts!Values, Opts!Options

(* The initial states satisfy the invariant.                                *)
LEMMA OptionInit == SignaturesInit => OptionInv
<1> SUFFICES ASSUME SignaturesInit PROVE OptionInv
  OBVIOUS
<1>1. FALSE \in BOOLEAN
  OBVIOUS
<1>2. Opts!Zero \in Opts!Options
  BY <1>1 DEF Opts!Zero, Opts!Options, Opts!Values
<1>3. /\ key \in Opts!KeyTypes /\ asked \in Opts!Options
      /\ support = "unasked" /\ made = Opts!None /\ checked = Opts!None
  BY <1>2 DEF SignaturesInit, Opts!Init, Opts!KeyTypes
<1>4. QED
  BY <1>3 DEF OptionInv, Opts!TypeOK, Supports, Made, Compared

(* Every step of the options preserves the invariant.                       *)
LEMMA OptionNext == OptionInv /\ [Opts!Next]_optionVars => OptionInv'
<1> SUFFICES ASSUME OptionInv, [Opts!Next]_optionVars PROVE OptionInv'
  OBVIOUS
<1> USE DEF OptionInv
<1>1. CASE Opts!Ask
  BY <1>1 DEF Opts!Ask, Opts!TypeOK, Supports, Made, Compared, Same, Opts!Ends
<1>2. ASSUME NEW path \in Opts!Paths, Opts!SignBy(path) PROVE OptionInv'
  <2>1. PICK end \in Opts!Ends(path, asked, "ok") :
          made' = [path |-> path, outcome |-> end,
                   statement |-> IF end = "ok"
                                   THEN Opts!Statement(path, key, Opts!SignOpts(key, asked))
                                   ELSE "none",
                   enc |-> Opts!Encoding(path, asked)]
    BY <1>2 DEF Opts!SignBy
  <2>2. checked = Opts!None
    BY <1>2 DEF Opts!SignBy, Compared
  <2>3. UNCHANGED <<key, asked, support, checked>>
    BY <1>2 DEF Opts!SignBy
  <2>4. Made' /\ Compared' /\ Supports'
    BY <2>1, <2>2, <2>3 DEF Made, Compared, Supports, Opts!Ends
  <2>5. Opts!TypeOK'
    BY <2>1, <2>3 DEF Opts!TypeOK, Opts!Ends
  <2>6. QED
    BY <2>4, <2>5
<1>3. ASSUME NEW path \in Opts!Paths, NEW o \in Opts!Others, Opts!VerifyBy(path, o)
      PROVE OptionInv'
  <2>1. PICK end \in Opts!Ends(path, o, IF Same(path, o) THEN "ok" ELSE "ErrVerification") :
          checked' = [path |-> path, opts |-> o, outcome |-> end]
    BY <1>3 DEF Opts!VerifyBy, Same
  <2>2. UNCHANGED <<key, asked, support, made>> /\ made # Opts!None /\ made.outcome = "ok"
    BY <1>3 DEF Opts!VerifyBy
  <2>3. Made' /\ Compared' /\ Supports'
    BY <2>1, <2>2 DEF Made, Compared, Supports, Same, Opts!Ends
  <2>4. Opts!TypeOK'
    BY <2>1, <2>2, OthersAreOptions DEF Opts!TypeOK
  <2>5. QED
    BY <2>3, <2>4
<1>4. CASE UNCHANGED optionVars
  BY <1>4 DEF optionVars, Opts!TypeOK, Supports, Made, Compared, Same, Opts!Ends
<1>5. QED
  BY <1>1, <1>2, <1>3, <1>4 DEF Opts!Next

(* What applyRSA sets of each scheme.                                       *)
LEMMA RSAFields ==
  ASSUME NEW x \in Opts!Options
  PROVE  /\ {"padding", "digest"} \subseteq DOMAIN Opts!ApplyRSA(x)
         /\ Opts!ApplyRSA(x).padding = x.padding /\ Opts!ApplyRSA(x).digest = x.digest
         /\ x.padding = "PSS" =>
              /\ {"salt", "mgf1"} \subseteq DOMAIN Opts!ApplyRSA(x)
              /\ Opts!ApplyRSA(x).salt = x.salt
              /\ Opts!ApplyRSA(x).mgf1 = IF x.mgf1 = "" THEN x.digest ELSE x.mgf1
<1> DEFINE r == Opts!ApplyRSA(x)
<1>r. r = Opts!ApplyRSA(x)
  OBVIOUS
<1> HIDE DEF r
<1>p. x.padding \in {"PSS", "PKCS1v15"}
  BY DEF Opts!Options, Opts!Values
<1>1. CASE x.padding = "PSS"
  <2> DEFINE m == IF x.mgf1 = "" THEN x.digest ELSE x.mgf1
  <2>1. r = [padding |-> "PSS", digest |-> x.digest, salt |-> x.salt, mgf1 |-> m]
    BY <1>1, <1>r DEF Opts!ApplyRSA
  <2> HIDE DEF m
  <2>2. DOMAIN r = {"padding", "digest", "salt", "mgf1"}
    BY <2>1
  <2>3. r.padding = "PSS" /\ r.digest = x.digest /\ r.salt = x.salt /\ r.mgf1 = m
    BY <2>1
  <2>4. QED
    BY <1>1, <1>r, <2>2, <2>3 DEF m
<1>2. CASE x.padding = "PKCS1v15"
  <2>1. r = [padding |-> "PKCS1v15", digest |-> x.digest]
    BY <1>2, <1>r DEF Opts!ApplyRSA
  <2>2. QED
    BY <1>2, <1>r, <2>1
<1>3. QED
  BY <1>1, <1>2, <1>p

(* Under one key two paths that took their options and made the same        *)
(* statement of them were given options that mean the same.                 *)
LEMMA StatementTellsMeaning ==
  ASSUME NEW o \in Opts!Options, NEW q \in Opts!Options, key \in Opts!KeyTypes,
         NEW path \in Opts!Paths, NEW pathQ \in Opts!Paths,
         ~Opts!PathRefused(path, key, o), ~Opts!PathRefused(pathQ, key, q),
         Opts!Statement(path, key, Opts!SignOpts(key, o))
           = Opts!Statement(pathQ, key, Opts!SignOpts(key, q))
  PROVE  Opts!Meaning(o) = Opts!Meaning(q)
<1> DEFINE oo == Opts!SignOpts(key, o)
           qq == Opts!SignOpts(key, q)
           a == Opts!ApplySignOptions(key, oo)
           b == Opts!ApplySignOptions(key, qq)
<1>1. ~Opts!Refused(key, o) /\ ~Opts!Refused(key, q)
  BY DEF Opts!PathRefused, Opts!Paths
<1>2. /\ DOMAIN a \ {"deterministic"} = DOMAIN b \ {"deterministic"}
      /\ \A f \in DOMAIN a \ {"deterministic"} : a[f] = b[f]
  BY DEF Opts!Statement, Opts!Restrict
<1>3. /\ oo.prehash = o.prehash /\ oo.context = o.context /\ oo.padding = o.padding
      /\ oo.salt = o.salt /\ oo.mgf1 = o.mgf1
      /\ qq.prehash = q.prehash /\ qq.context = q.context /\ qq.padding = q.padding
      /\ qq.salt = q.salt /\ qq.mgf1 = q.mgf1
  BY DEF Opts!SignOpts, Opts!Options
<1>o. oo \in Opts!Options /\ qq \in Opts!Options
  BY ZenonT(40) DEF Opts!SignOpts, Opts!Options, Opts!Values
<1> DEFINE MGF(x, xx) == IF x.mgf1 = "" THEN xx.digest ELSE x.mgf1
<1>4. SUFFICES /\ key \notin Opts!Internal => oo.digest = qq.digest
               /\ o.prehash = q.prehash
               /\ IF key = "ED25519" /\ ~o.prehash
                    THEN o.context = q.context ELSE Opts!ContextSet(o) = Opts!ContextSet(q)
               /\ o.padding = q.padding
               /\ Opts!Rsa(key) /\ o.padding = "PSS" =>
                    o.salt = q.salt /\ MGF(o, oo) = MGF(q, qq)
  BY DEF Opts!Meaning
<1> HIDE DEF oo, qq, MGF
<1>p. /\ o.prehash \in BOOLEAN /\ q.prehash \in BOOLEAN
      /\ o.padding \in {"PSS", "PKCS1v15"} /\ q.padding \in {"PSS", "PKCS1v15"}
  BY DEF Opts!Options, Opts!Values
<1>5. CASE Opts!Rsa(key)
  <2>1. key \notin Opts!Internal /\ key # "ED25519" /\ ~o.prehash /\ ~q.prehash
        /\ o.context = "nil" /\ q.context = "nil"
    BY <1>1, <1>5 DEF Opts!Refused, Opts!Rsa, Opts!Internal, Opts!Options, Opts!Values
  <2>2. a = Opts!ApplyRSA(oo) /\ b = Opts!ApplyRSA(qq)
    BY <1>5 DEF Opts!ApplySignOptions, Opts!Rsa
  <2>3. oo.padding = qq.padding /\ oo.digest = qq.digest
    <3>1. {"padding", "digest"} \subseteq DOMAIN a
      BY <1>3, <1>o, <2>2, RSAFields
    <3>2. a.padding = b.padding /\ a.digest = b.digest
      BY <1>2, <3>1
    <3>3. /\ a.padding = oo.padding /\ b.padding = qq.padding
          /\ a.digest = oo.digest /\ b.digest = qq.digest
      BY <1>3, <1>o, <2>2, RSAFields
    <3>4. QED
      BY <3>2, <3>3
  <2>4. CASE oo.padding = "PSS"
    <3>1. a.salt = b.salt /\ a.mgf1 = b.mgf1
      BY <1>2, <1>3, <1>o, <2>2, <2>4, RSAFields
    <3>2. /\ a.salt = oo.salt /\ b.salt = qq.salt
          /\ a.mgf1 = MGF(oo, oo) /\ b.mgf1 = MGF(qq, qq)
      BY <1>3, <1>o, <2>2, <2>3, <2>4, RSAFields DEF MGF
    <3>3. MGF(o, oo) = MGF(oo, oo) /\ MGF(q, qq) = MGF(qq, qq)
      BY <1>3 DEF MGF
    <3>4. QED
      BY <1>3, <1>p, <2>1, <2>3, <3>1, <3>2, <3>3 DEF Opts!ContextSet
  <2>5. CASE oo.padding # "PSS"
    BY <1>3, <1>p, <2>1, <2>3, <2>5 DEF Opts!ContextSet
  <2>6. QED
    BY <2>4, <2>5
<1>6. CASE key \in {"ED25519", "ED448"}
  <2>1. /\ key \in Opts!Internal /\ ~Opts!Rsa(key)
        /\ o.padding = "PSS" /\ q.padding = "PSS"
    BY <1>1, <1>6 DEF Opts!Refused, Opts!Rsa, Opts!Internal
  <2>2. a = Opts!ApplyEdDSA(key, oo) /\ b = Opts!ApplyEdDSA(key, qq)
    BY <1>6, <2>1 DEF Opts!ApplySignOptions
  <2>3. /\ Opts!Instance(key, oo) = Opts!Instance(key, qq)
        /\ Opts!ContextSet(oo) = Opts!ContextSet(qq)
    BY <1>2, <2>2 DEF Opts!ApplyEdDSA
  <2>4. /\ Opts!ContextSet(oo) = Opts!ContextSet(o) /\ Opts!ContextSet(qq) = Opts!ContextSet(q)
        /\ Opts!Instance(key, oo) = Opts!Instance(key, o)
        /\ Opts!Instance(key, qq) = Opts!Instance(key, q)
    BY <1>3 DEF Opts!ContextSet, Opts!Instance
  <2>5. /\ o.prehash <=> Opts!Instance(key, o) = "ph"
        /\ q.prehash <=> Opts!Instance(key, q) = "ph"
    BY <1>p DEF Opts!Instance
  <2>6. o.prehash = q.prehash
    BY <1>p, <2>3, <2>4, <2>5
  <2>7. key = "ED25519" /\ ~o.prehash => o.context = q.context
    BY <1>p, <2>3, <2>4, <2>6 DEF Opts!Instance, Opts!ContextSet
  <2>8. QED
    BY <2>1, <2>3, <2>4, <2>6, <2>7
<1>7. CASE key = "PQC"
  <2>1. /\ key \in Opts!Internal /\ ~Opts!Rsa(key) /\ ~o.prehash /\ ~q.prehash
        /\ o.padding = "PSS" /\ q.padding = "PSS"
    BY <1>1, <1>7 DEF Opts!Refused, Opts!Rsa, Opts!Internal
  <2>2. a = Opts!ApplyPQC(oo) /\ b = Opts!ApplyPQC(qq)
    BY <1>7, <2>1 DEF Opts!ApplySignOptions
  <2>3. Opts!ContextSet(oo) = Opts!ContextSet(qq)
    BY <1>2, <2>2 DEF Opts!ApplyPQC
  <2>4. QED
    BY <1>3, <1>7, <1>p, <2>1, <2>3 DEF Opts!ContextSet
<1>8. CASE key \in {"EC", "DSA"}
  <2>1. /\ key \notin Opts!Internal /\ ~Opts!Rsa(key) /\ ~o.prehash /\ ~q.prehash
        /\ o.padding = "PSS" /\ q.padding = "PSS"
        /\ o.context = "nil" /\ q.context = "nil"
    BY <1>1, <1>8 DEF Opts!Refused, Opts!Rsa, Opts!Internal
  <2>2. a.digest = b.digest /\ a.digest = oo.digest /\ b.digest = qq.digest
    BY <1>2, <1>8, <2>1 DEF Opts!ApplySignOptions
  <2>3. QED
    BY <1>8, <1>p, <2>1, <2>2 DEF Opts!ContextSet
<1>9. QED
  BY <1>5, <1>6, <1>7, <1>8 DEF Opts!KeyTypes, Opts!Internal, Opts!Rsa

(* Of one set of options, a statement depends on the path only where the    *)
(* path refuses them.                                                       *)
LEMMA PathDoesNotShow ==
  ASSUME NEW o \in Opts!Options, key \in Opts!KeyTypes,
         NEW path \in Opts!Paths, NEW pathQ \in Opts!Paths,
         ~Opts!PathRefused(path, key, o), ~Opts!PathRefused(pathQ, key, o)
  PROVE  /\ Opts!Statement(path, key, Opts!SignOpts(key, o))
              = Opts!Statement(pathQ, key, Opts!SignOpts(key, o))
         /\ Opts!Encoding(path, o) # Opts!Encoding(pathQ, o) =>
              o.format = "P1363" /\ ((path = "stream") # (pathQ = "stream"))
<1> DEFINE oo == Opts!SignOpts(key, o)
<1>1. /\ path = "digest" => Opts!DigestRefused(key, o) = FALSE
      /\ pathQ = "digest" => Opts!DigestRefused(key, o) = FALSE
  BY DEF Opts!PathRefused, Opts!DigestRefused
<1>2. oo.prehash = o.prehash
  BY DEF Opts!SignOpts, Opts!Options
<1>3. /\ ~(path = "digest" /\ key \in Opts!Internal /\ ~oo.prehash)
      /\ ~(pathQ = "digest" /\ key \in Opts!Internal /\ ~oo.prehash)
  BY <1>1, <1>2 DEF Opts!DigestRefused, Opts!Internal
<1>4. Opts!Statement(path, key, oo) = Opts!Statement(pathQ, key, oo)
  BY <1>3 DEF Opts!Statement
<1>5. o.format \in {"DER", "P1363"}
  BY DEF Opts!Options, Opts!Values
<1>6. QED
  BY <1>4, <1>5 DEF Opts!Encoding

(* The invariant implies what the runs check.                               *)
LEMMA OptionImplies ==
  OptionInv => Opts!OptionsSeparate /\ Opts!PathsAgree /\ Opts!SupportsAgrees
<1> SUFFICES ASSUME OptionInv
             PROVE  Opts!OptionsSeparate /\ Opts!PathsAgree /\ Opts!SupportsAgrees
  OBVIOUS
<1> USE DEF OptionInv
<1>1. Opts!OptionsSeparate
  <2> SUFFICES ASSUME checked # Opts!None, checked.outcome = "ok"
               PROVE  Opts!Meaning(checked.opts) = Opts!Meaning(asked)
    BY DEF Opts!OptionsSeparate
  <2>1. /\ key \in Opts!KeyTypes /\ asked \in Opts!Options /\ checked.opts \in Opts!Options
        /\ made # Opts!None /\ made.path \in Opts!Paths /\ checked.path \in Opts!Paths
    BY DEF Opts!TypeOK, Compared
  <2>2. /\ ~Opts!PathRefused(checked.path, key, checked.opts)
        /\ Same(checked.path, checked.opts)
    BY DEF Compared, Opts!Ends
  <2>3. /\ made.outcome = "ok"
        /\ ~Opts!PathRefused(made.path, key, asked)
        /\ made.statement = Opts!Statement(made.path, key, Opts!SignOpts(key, asked))
    BY <2>1 DEF Made, Compared, Opts!Ends
  <2>4. QED
    BY <2>1, <2>2, <2>3, StatementTellsMeaning DEF Same
<1>2. Opts!PathsAgree
  <2> SUFFICES ASSUME checked # Opts!None, checked.opts = asked
               PROVE  /\ checked.outcome = "ErrVerification" =>
                           /\ asked.format = "P1363"
                           /\ (made.path = "stream") # (checked.path = "stream")
                      /\ made.path = checked.path => checked.outcome \in {"ok", "failed"}
    BY DEF Opts!PathsAgree
  <2>1. /\ key \in Opts!KeyTypes /\ asked \in Opts!Options
        /\ made # Opts!None /\ made.path \in Opts!Paths /\ checked.path \in Opts!Paths
    BY DEF Opts!TypeOK, Compared
  <2>2. /\ made.outcome = "ok" /\ made.enc = Opts!Encoding(made.path, asked)
        /\ ~Opts!PathRefused(made.path, key, asked)
        /\ ~Opts!Rejected(made.path, key, Opts!SignOpts(key, asked))
        /\ made.statement = Opts!Statement(made.path, key, Opts!SignOpts(key, asked))
    BY <2>1 DEF Made, Compared, Opts!Ends
  <2>3. ASSUME checked.outcome = "ErrVerification"
        PROVE  asked.format = "P1363" /\ (made.path = "stream") # (checked.path = "stream")
    <3>1. /\ ~Opts!PathRefused(checked.path, key, asked)
          /\ ~Same(checked.path, asked)
      BY <2>3 DEF Compared, Opts!Ends
    <3>2. QED
      BY <2>1, <2>2, <3>1, PathDoesNotShow DEF Same
  <2>4. ASSUME made.path = checked.path
        PROVE  checked.outcome \in {"ok", "failed"}
    <3>1. Same(checked.path, asked)
      BY <2>2, <2>4 DEF Same
    <3>2. QED
      BY <2>2, <2>4, <3>1 DEF Compared, Opts!Ends
  <2>5. QED
    BY <2>3, <2>4
<1>3. Opts!SupportsAgrees
  <2> SUFFICES ASSUME support # "unasked", made # Opts!None
               PROVE  /\ made.path = "message" =>
                           (support = "yes" <=> made.outcome \in {"failed", "ok"})
                      /\ made.outcome = "ok" /\ made.path = "stream" => support = "yes"
    BY DEF Opts!SupportsAgrees
  <2>1. support = "yes" <=> Opts!Supported(key, asked)
    BY DEF Supports
  <2>2. made.outcome \in Opts!Ends(made.path, asked, "ok") /\ made.path \in Opts!Paths
    BY DEF Made, Opts!TypeOK
  <2>3. Opts!Supported(key, asked)
          <=> ~Opts!Refused(key, asked) /\ ~Opts!Rejected("message", key, Opts!SignOpts(key, asked))
    <3>1. key \in Opts!Internal => Opts!SignOpts(key, asked) = asked
      BY DEF Opts!SignOpts
    <3>2. key \notin Opts!Internal =>
            (Opts!SignOpts(key, asked).digest = "xof" <=> asked.digest = "xof")
      BY DEF Opts!SignOpts, Opts!TypeOK, Opts!Options
    <3>3. QED
      BY <3>1, <3>2 DEF Opts!Supported, Opts!Rejected
  <2>4. /\ Opts!PathRefused("message", key, asked) <=> Opts!Refused(key, asked)
        /\ Opts!PathRefused("stream", key, asked) <=>
             key \in Opts!Internal \/ Opts!Refused(key, asked)
        /\ Opts!Rejected("stream", key, Opts!SignOpts(key, asked))
             <=> Opts!Rejected("message", key, Opts!SignOpts(key, asked))
    BY DEF Opts!PathRefused, Opts!Rejected
  <2>5. QED
    BY <2>1, <2>2, <2>3, <2>4 DEF Opts!Ends
<1>4. QED
  BY <1>1, <1>2, <1>3

-----------------------------------------------------------------------------
(* Both parts.                                                              *)

(* The inductive invariant of the signatures: every reference and context   *)
(* has its owner at every step, and every recorded outcome is one its call  *)
(* may have.                                                                *)
THEOREM SignaturesInvariance == SignaturesSpec => [](HandleInv /\ OptionInv)
<1>1. SignaturesInit => HandleInv /\ OptionInv
  BY HandleInit, OptionInit DEF SignaturesInit
<1>2. HandleInv /\ OptionInv /\ [SignaturesNext]_<<subject, vars, optionVars>>
        => (HandleInv /\ OptionInv)'
  <2>1. [SignaturesNext]_<<subject, vars, optionVars>> => [Next]_vars /\ [Opts!Next]_optionVars
    BY DEF SignaturesNext
  <2>2. QED
    BY <2>1, HandleNext, OptionNext
<1>3. QED
  BY <1>1, <1>2, PTL DEF SignaturesSpec

(* Both parts stay type correct, for keys, streams and messages of any      *)
(* number and length.                                                       *)
THEOREM SignatureTypes == SignaturesSpec => []TypesOK
<1>1. HandleInv /\ OptionInv => TypesOK
  BY DEF HandleInv, OptionInv, TypesOK
<1>2. QED
  BY <1>1, SignaturesInvariance, PTL

(* Between calls an EVP_PKEY is held by its open Key and by each open       *)
(* stream over it, and by nothing else, however many of either there are    *)
(* and in whatever order they are closed (signer.go:64-73).                 *)
THEOREM KeysBalance == SignaturesSpec => []ReferencesBalance
BY HandleImplies, SignaturesInvariance, PTL

(* A signature a Signer made covers what it was written, for messages of    *)
(* any length (signer.go:197-200).                                          *)
THEOREM StreamsCover == SignaturesSpec => []SignatureCoversStream
<1>1. HandleInv => SignatureCoversStream
  BY DEF HandleInv
<1>2. QED
  BY <1>1, SignaturesInvariance, PTL

(* No verification accepts a signature of another key, message or EdDSA     *)
(* instance (sign.go:480-488).                                              *)
THEOREM NothingFalseAccepted == SignaturesSpec => []NoFalseAccept
BY HandleImplies, SignaturesInvariance, PTL

(* What one path signs the same path verifies, and with the default         *)
(* encoding any path (sign.go, signer.go).                                  *)
THEOREM SignaturesRoundTrip == SignaturesSpec => []RoundTrip
BY HandleImplies, SignaturesInvariance, PTL

(* A signature verifies under no options that mean something else           *)
(* (sign.go:259-266); by StatementTellsMeaning of options that differ in    *)
(* any number of fields, not only in one as the run tries.                  *)
THEOREM OptionsStaySeparate == SignaturesSpec => []OptionsSeparate
<1>1. OptionInv => OptionsSeparate
  BY OptionImplies DEF OptionsSeparate
<1>2. QED
  BY <1>1, SignaturesInvariance, PTL

(* Every path that takes the options verifies what another signed under     *)
(* them (sign_digest.go:79-82).                                             *)
THEOREM EveryPathAgrees == SignaturesSpec => []PathsAgree
<1>1. OptionInv => PathsAgree
  BY OptionImplies DEF PathsAgree
<1>2. QED
  BY <1>1, SignaturesInvariance, PTL

(* Supports predicts what Sign and NewSigner do (capability.go:15-26).      *)
THEOREM SupportsPredicts == SignaturesSpec => []SupportsAgrees
<1>1. OptionInv => SupportsAgrees
  BY OptionImplies DEF SupportsAgrees
<1>2. QED
  BY <1>1, SignaturesInvariance, PTL
=============================================================================

----------------------------- MODULE KeyStream -----------------------------
(***************************************************************************)
(* Keys, one-shot signatures and streaming Signers and Verifiers (pkey.go, *)
(* sign.go, sign_digest.go, signer.go): the references they hold on an    *)
(* EVP_PKEY, the data a stream has absorbed, the done flag, and the        *)
(* encoding of signatures.                                                 *)
(*                                                                         *)
(* Key, Signer and Verifier are not safe for concurrent use, so one        *)
(* goroutine makes all calls; building a stream is several C calls, each   *)
(* of which may fail and be undone, and takes several steps.               *)
(***************************************************************************)
EXTENDS Integers, Sequences

CONSTANTS
  Keys,         \* Go Key handles
  ECKeys,       \* those of type EC: two signature encodings, can be streamed
  Streams,      \* Go Signer or Verifier handles
  KeyHandle,    \* the Key, as a holder of a reference to its EVP_PKEY
  Chunks,       \* what one Write absorbs
  MaxWrites     \* bound: the longest message, in chunks

\* Keys outside ECKeys hash internally (Ed25519, ML-DSA, ...): one-shot only.
ASSUME KeysAssumption == ECKeys \subseteq Keys
ASSUME HolderAssumption == KeyHandle \notin Streams
ASSUME BoundAssumption == MaxWrites \in Nat

VARIABLES
  handle,       \* each Key: not yet made, open or closed
  refs,         \* who holds a reference to each EVP_PKEY
  ctxs,         \* the streams whose EVP_MD_CTX is allocated
  stream,       \* the fields of each Signer or Verifier
  absorbed,     \* what each EVP_MD_CTX has been fed
  pc,           \* where streamInit is, and what it is building
  sig,          \* the last signature produced
  check         \* the last verification and what it answered

vars == <<handle, refs, ctxs, stream, absorbed, pc, sig, check>>

\* The options that change what is signed or how it is encoded: none, a
\* Format of P1363, and Prehash (Ed25519ph, Ed448ph).
Options  == {"DER", "P1363", "prehash"}
Formats  == {"DER", "P1363"}
Messages == UNION {[1..n -> Chunks] : n \in 0..MaxWrites}
Kinds    == {"signer", "verifier"}

\* by: the stream that made it, or KeyHandle for Key.Sign and Key.Verify;
\* asked: the SignOptions.
Makers == Streams \cup {KeyHandle}
Signatures == [key : Keys, msg : Messages, enc : Formats, asked : Options,
               by : Makers]
NoSig == [none |-> TRUE]

Checks == [key : Keys, msg : Messages, asked : Options, sig : Signatures,
           by : Makers, answer : {"ok", "ErrVerification"}]
NoCheck == [none |-> TRUE]

StreamState == [kind : Kinds, key : Keys, asked : Options,
                done : BOOLEAN]
NoStream == [kind |-> "none"]       \* closed, or never built

Building == [at : {"upref", "init", "apply"}, s : Streams, kind : Kinds,
             key : Keys, asked : Options]
Idle == [at |-> "idle"]

TypeOK ==
  /\ handle \in [Keys -> {"none", "open", "closed"}]
  /\ refs \in [Keys -> SUBSET Makers]
  /\ ctxs \in SUBSET Streams
  /\ stream \in [Streams -> StreamState \cup {NoStream}]
  /\ absorbed \in [Streams -> Messages]
  /\ pc \in Building \cup {Idle}
  /\ sig \in Signatures \cup {NoSig}
  /\ check \in Checks \cup {NoCheck}

Init ==
  /\ handle = [k \in Keys |-> "none"]
  /\ refs = [k \in Keys |-> {}]
  /\ ctxs = {}
  /\ stream = [s \in Streams |-> NoStream]
  /\ absorbed = [s \in Streams |-> <<>>]
  /\ pc = Idle
  /\ sig = NoSig
  /\ check = NoCheck

idle == pc = Idle
Open(s) == stream[s].kind # "none"

-----------------------------------------------------------------------------
(* Key.                                                                     *)

GenerateKey(k) ==
  /\ idle
  /\ handle[k] = "none"
  /\ handle' = [handle EXCEPT ![k] = "open"]
  /\ refs' = [refs EXCEPT ![k] = {KeyHandle}]
  /\ check' = NoCheck
  /\ UNCHANGED <<ctxs, stream, absorbed, pc, sig>>

CloseKey(k) ==
  /\ idle
  /\ handle[k] = "open"
  /\ handle' = [handle EXCEPT ![k] = "closed"]
  /\ refs' = [refs EXCEPT ![k] = @ \ {KeyHandle}]
  /\ check' = NoCheck
  /\ UNCHANGED <<ctxs, stream, absorbed, pc, sig>>

\* checkSignOptions: a Format is only valid for an EC key, Prehash only for
\* an EdDSA key.
OptionsFit(k, asked) ==
  /\ asked = "P1363" => k \in ECKeys
  /\ asked = "prehash" => k \notin ECKeys

-----------------------------------------------------------------------------
(* streamInit, NewSigner, NewVerifier.                                      *)

\* A closed key, a one-shot algorithm or a misfit option refuses the call
\* before anything is allocated.
BeginStream(s, kind, k, asked) ==
  /\ idle
  /\ ~Open(s)
  /\ handle[k] = "open"
  /\ k \in ECKeys
  /\ OptionsFit(k, asked)
  /\ ctxs' = ctxs \cup {s}
  /\ pc' = [at |-> "upref", s |-> s, kind |-> kind, key |-> k, asked |-> asked]
  /\ check' = NoCheck
  /\ UNCHANGED <<handle, refs, stream, absorbed, sig>>

UpRef ==
  /\ pc.at = "upref"
  /\ \/ /\ refs' = [refs EXCEPT ![pc.key] = @ \cup {pc.s}]
        /\ pc' = [pc EXCEPT !.at = "init"]
        /\ UNCHANGED ctxs
     \/ /\ ctxs' = ctxs \ {pc.s}
        /\ pc' = Idle
        /\ UNCHANGED refs
  /\ check' = NoCheck
  /\ UNCHANGED <<handle, stream, absorbed, sig>>

\* Mutant of Undo: the failure path frees the context and forgets the key.
UndoHalf ==
  /\ ctxs' = ctxs \ {pc.s}
  /\ pc' = Idle
  /\ check' = NoCheck
  /\ UNCHANGED <<handle, refs, stream, absorbed, sig>>

\* The failure path of EVP_Digest{Sign,Verify}Init_ex and applySignOptions.
Undo ==
  /\ refs' = [refs EXCEPT ![pc.key] = @ \ {pc.s}]
  /\ ctxs' = ctxs \ {pc.s}
  /\ pc' = Idle
  /\ check' = NoCheck
  /\ UNCHANGED <<handle, stream, absorbed, sig>>

DigestInit ==
  /\ pc.at = "init"
  /\ \/ /\ pc' = [pc EXCEPT !.at = "apply"]
        /\ check' = NoCheck
        /\ UNCHANGED <<handle, refs, ctxs, stream, absorbed, sig>>
     \/ Undo

Apply ==
  /\ pc.at = "apply"
  /\ \/ /\ stream' = [stream EXCEPT ![pc.s] =
                        [kind |-> pc.kind, key |-> pc.key, asked |-> pc.asked,
                         done |-> FALSE]]
        /\ absorbed' = [absorbed EXCEPT ![pc.s] = <<>>]
        /\ pc' = Idle
        /\ check' = NoCheck
        /\ UNCHANGED <<handle, refs, ctxs, sig>>
     \/ Undo

-----------------------------------------------------------------------------
(* Signer and Verifier.  A closed or finalised stream refuses Write, Sign   *)
(* and Verify; an empty Write, a failed Update and a failed Final change    *)
(* nothing.                                                                 *)

Live(s, kind) ==
  /\ idle
  /\ stream[s].kind = kind
  /\ ~stream[s].done

\* Mutant of Write: a finalised stream goes on absorbing.
WriteAfterFinal(s, c) ==
  /\ idle
  /\ Open(s)
  /\ Len(absorbed[s]) < MaxWrites
  /\ absorbed' = [absorbed EXCEPT ![s] = Append(@, c)]
  /\ check' = NoCheck
  /\ UNCHANGED <<handle, refs, ctxs, stream, pc, sig>>

\* Mutant of Write: no bound.
WriteUnbounded(s, c) ==
  /\ \E kind \in Kinds : Live(s, kind)
  /\ Len(absorbed[s]) <= MaxWrites
  /\ absorbed' = [absorbed EXCEPT ![s] = Append(@, c)]
  /\ check' = NoCheck
  /\ UNCHANGED <<handle, refs, ctxs, stream, pc, sig>>

Write(s, c) ==
  /\ \E kind \in Kinds : Live(s, kind)
  /\ Len(absorbed[s]) < MaxWrites
  /\ absorbed' = [absorbed EXCEPT ![s] = Append(@, c)]
  /\ check' = NoCheck
  /\ UNCHANGED <<handle, refs, ctxs, stream, pc, sig>>

\* Sign hands out what EVP produced, whatever encoding was asked for.
SignStream(s) ==
  /\ Live(s, "signer")
  /\ sig' = [key |-> stream[s].key, msg |-> absorbed[s], enc |-> "DER",
             asked |-> stream[s].asked, by |-> s]
  /\ stream' = [stream EXCEPT ![s].done = TRUE]
  /\ check' = NoCheck
  /\ UNCHANGED <<handle, refs, ctxs, absorbed, pc>>

\* A pure and a prehashed signature over one message are different
\* statements.
SameInstance(a, b) == a = "prehash" <=> b = "prehash"

\* EVP_DigestVerify* and EVP_PKEY_verify: negative if the bytes do not parse
\* as DER (or as the algorithm's own form).
EVPVerify(k, m, asked, x, enc) ==
  IF enc # "DER" THEN -1
  ELSE IF x.key = k /\ x.msg = m /\ SameInstance(asked, x.asked) THEN 1 ELSE 0

\* Mutant of Answer: any non-zero return counts as success.
AnswerNonZero(rc) == IF rc # 0 THEN "ok" ELSE "ErrVerification"

Answer(rc) == IF rc = 1 THEN "ok" ELSE "ErrVerification"

VerifyStream(s) ==
  /\ Live(s, "verifier")
  /\ \/ check' = NoCheck    \* an empty signature, or one nobody made
     \/ /\ sig # NoSig
        /\ check' =
             [key |-> stream[s].key, msg |-> absorbed[s],
              asked |-> stream[s].asked, sig |-> sig, by |-> s,
              answer |-> Answer(EVPVerify(stream[s].key, absorbed[s],
                                        stream[s].asked, sig, sig.enc))]
  /\ stream' = [stream EXCEPT ![s].done = TRUE]
  /\ UNCHANGED <<handle, refs, ctxs, absorbed, pc, sig>>

CloseStream(s) ==
  /\ idle
  /\ Open(s)
  /\ ctxs' = ctxs \ {s}
  /\ refs' = [refs EXCEPT ![stream[s].key] = @ \ {s}]
  /\ stream' = [stream EXCEPT ![s] = NoStream]
  /\ absorbed' = [absorbed EXCEPT ![s] = <<>>]
  /\ check' = NoCheck
  /\ UNCHANGED <<handle, pc, sig>>

-----------------------------------------------------------------------------
(* Key.Sign and Key.Verify convert to and from P1363 on request.            *)

\* What comes back: derToP1363 re-encodes when asked.
Encoding(asked) == IF asked = "P1363" THEN "P1363" ELSE "DER"

Sign(k, m, asked) ==
  /\ idle
  /\ handle[k] = "open"
  /\ OptionsFit(k, asked)
  /\ sig' = [key |-> k, msg |-> m, enc |-> Encoding(asked), asked |-> asked,
             by |-> KeyHandle]
  /\ check' = NoCheck
  /\ UNCHANGED <<handle, refs, ctxs, stream, absorbed, pc>>

\* Mutant of ToDER: the signature is handed to EVP as it came.
ToDERForgotten(asked, enc) == enc

\* What Verify hands to EVP: p1363ToDER accepts only the fixed-width form.
ToDER(asked, enc) ==
  IF asked = "P1363" THEN (IF enc = "P1363" THEN "DER" ELSE "malformed") ELSE enc

Verify(k, m, asked) ==
  /\ idle
  /\ handle[k] = "open"
  /\ OptionsFit(k, asked)
  /\ sig # NoSig
  /\ check' = [key |-> k, msg |-> m, asked |-> asked, sig |-> sig,
               by |-> KeyHandle,
               answer |-> Answer(EVPVerify(k, m, asked, sig, ToDER(asked, sig.enc)))]
  /\ UNCHANGED <<handle, refs, ctxs, stream, absorbed, pc, sig>>

\* checkDigestOptions: of the algorithms here, EC signs digests, and EdDSA
\* only under Prehash.
DigestFits(k, asked) == k \in ECKeys \/ asked = "prehash"

\* The caller hashed m; the statement signed is the one Sign makes of m.
SignDigest(k, m, asked) == DigestFits(k, asked) /\ Sign(k, m, asked)

VerifyDigest(k, m, asked) == DigestFits(k, asked) /\ Verify(k, m, asked)

-----------------------------------------------------------------------------
Next ==
  \/ \E k \in Keys : GenerateKey(k) \/ CloseKey(k)
  \/ \E s \in Streams, kind \in Kinds, k \in Keys, f \in Options :
       BeginStream(s, kind, k, f)
  \/ UpRef \/ DigestInit \/ Apply
  \/ \E s \in Streams : SignStream(s) \/ VerifyStream(s) \/ CloseStream(s)
  \/ \E s \in Streams, c \in Chunks : Write(s, c)
  \/ \E k \in Keys, m \in Messages, f \in Options :
       \/ Sign(k, m, f) \/ Verify(k, m, f)
       \/ SignDigest(k, m, f) \/ VerifyDigest(k, m, f)

Spec == Init /\ [][Next]_vars

-----------------------------------------------------------------------------
(* Correctness.                                                             *)

Owners(k) ==
  {h \in {KeyHandle} : handle[k] = "open"}
    \cup {s \in Streams : Open(s) /\ stream[s].key = k}

(* Between calls, an EVP_PKEY is held by its open Key and by each open      *)
(* stream over it, and by nothing else: closing the Key leaves the streams  *)
(* their key (signer.go:64-73), and no failure path leaks a reference or a  *)
(* context, whatever the order of the Closes.                               *)
ReferencesBalance ==
  idle =>
    /\ \A k \in Keys : refs[k] = Owners(k)
    /\ ctxs = {s \in Streams : Open(s)}

(* A signature covers exactly what its Signer was written, nothing less and *)
(* nothing that was accepted afterwards (signer.go:197-200).                *)
SignatureCoversStream ==
  \A s \in Streams :
    Open(s) /\ stream[s].kind = "signer" /\ stream[s].done
      /\ sig # NoSig /\ sig.by = s => sig.msg = absorbed[s]

(* No verification, in one shot or streamed, accepts a signature made with  *)
(* another key, over another message or as the other EdDSA instance         *)
(* (sign.go:480-488: a return other than 1 is never success).               *)
NoFalseAccept ==
  check # NoCheck /\ check.answer = "ok" =>
    /\ check.sig.key = check.key
    /\ check.sig.msg = check.msg
    /\ SameInstance(check.asked, check.sig.asked)

SamePath == (check.by = KeyHandle) <=> (check.sig.by = KeyHandle)

(* What one path signs, the same path verifies under the same options; and  *)
(* with the default encoding the two paths are interchangeable.             *)
RoundTrip ==
  /\ check # NoCheck
  /\ check.sig.key = check.key
  /\ check.sig.msg = check.msg
  /\ check.sig.asked = check.asked
  /\ SamePath \/ check.asked = "DER"
  => check.answer = "ok"

(* An option that is accepted is honoured: the signature has the encoding   *)
(* the caller asked for (README.md: options that cannot be honoured are     *)
(* errors, not no-ops; signer_test.go:359-361 says it of the streams).      *)
FormatHonoured == sig # NoSig => sig.enc = Encoding(sig.asked)
=============================================================================

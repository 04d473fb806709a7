---------------------------- MODULE CipherMessage ----------------------------
(***************************************************************************)
(* What Cipher.Encrypt and Decrypt and KeyWrap.Wrap and Unwrap do to a     *)
(* message (cipher_sym.go): padding in Go or in EVP, one Init, Update and  *)
(* Final in a context of their own, and the answer.                        *)
(*                                                                         *)
(* SharedHandle has their locking.  Here one call runs at a time, and a    *)
(* ciphertext is written as what it decrypts to: this is not authenticated *)
(* encryption, and any whole blocks decrypt to something.                  *)
(***************************************************************************)
EXTENDS Integers, Sequences

CONSTANTS
  Bytes,        \* the byte values that occur: 0, 128, and what a pad may hold
  Block,        \* the block size; 1 for a stream mode.  Key wrap's 8 bytes too.
  IntBits,      \* the width of C.int
  MaxLen        \* bound: the longest input

VARIABLES
  pc,           \* the C call to be made next
  call,         \* the operation under way
  ctxs,         \* EVP_CIPHER_CTXs allocated
  buf,          \* what run's buffer holds: nothing, data or zeros
  made,         \* the last success of Encrypt or Wrap
  reply         \* how the last operation ended

vars == <<pc, call, ctxs, buf, made, reply>>

Messages == UNION {[1..n -> Bytes] : n \in 0..MaxLen}
Stream   == Block = 1

\* "KW" and "KWP" are the two key wraps, the others Ciphers.
Wraps    == {"KW", "KWP"}
Paddings == {"PKCS7", "None", "ISO7816", "X923", "Zero"}

CInt(n) == ((n + 2^(IntBits - 1)) % 2^IntBits) - 2^(IntBits - 1)

Zeros(n)   == [i \in 1..n |-> 0]
Whole(s)   == Len(s) % Block = 0
Missing(s) == Block - (Len(s) % Block)      \* a whole block if none is missing
Without(s, n) == SubSeq(s, 1, Len(s) - n)

-----------------------------------------------------------------------------
(* Padding in Go.                                                           *)

\* Mutant of ApplyPadding: no block is added where none is missing.
ApplyPaddingShort(p, s) ==
  CASE p = "None" \/ Whole(s) -> s
    [] p = "Zero"    -> s \o Zeros(Missing(s))
    [] p = "ISO7816" -> s \o <<128>> \o Zeros(Missing(s) - 1)
    [] p = "X923"    -> s \o Zeros(Missing(s) - 1) \o <<Missing(s)>>

ApplyPadding(p, s) ==
  CASE p = "None"    -> s
    [] p = "Zero"    -> s \o Zeros(Missing(s) % Block)
    [] p = "ISO7816" -> s \o <<128>> \o Zeros(Missing(s) - 1)
    [] p = "X923"    -> s \o Zeros(Missing(s) - 1) \o <<Missing(s)>>

\* removePadding: what is left, if anything is.  Under ISO 7816-4 the zeros
\* may go on beyond the last block.
RemovePadding(p, s) ==
  CASE p \in {"None", "Zero"} -> {s}
    [] p = "ISO7816" ->
         {Without(s, n) : n \in {m \in 1..Len(s) :
            SubSeq(s, Len(s) - m + 1, Len(s)) = <<128>> \o Zeros(m - 1)}}
    [] p = "X923" ->
         {Without(s, n) : n \in {m \in 1..Block : /\ s # <<>>
            /\ SubSeq(s, Len(s) - m + 1, Len(s)) = Zeros(m - 1) \o <<m>>}}

-----------------------------------------------------------------------------
(* What EVP does between Init and Final, if nothing fails: the ciphertexts  *)
(* or plaintexts that can come of it, at most one.                          *)

PKCS7(n) == [i \in 1..n |-> n]

KWP(s) == PKCS7(Block - 1) \o <<Len(s)>> \o ApplyPadding("Zero", s)

EVPEncrypt(p, s) ==
  CASE p = "KW"  -> {PKCS7(Block) \o s}
    [] p = "KWP" -> {KWP(s)}
    [] p \in Paddings ->
         IF Stream THEN {s}
         ELSE IF p = "PKCS7" THEN {s \o PKCS7(Missing(s))}
         ELSE IF Whole(s) THEN {s} ELSE {}

EVPDecrypt(p, s) ==
  CASE p = "KW"  -> {t \in {SubSeq(s, Block + 1, Len(s))} : s = PKCS7(Block) \o t}
    [] p = "KWP" -> {t \in {SubSeq(s, Block + 1, n) : n \in Block..Len(s)} : s = KWP(t)}
    [] p \in Paddings ->
         IF Stream THEN {s}
         ELSE IF p = "PKCS7"
           THEN {Without(s, n) : n \in {m \in 1..Block : m <= Len(s) /\ Whole(s)
                   /\ SubSeq(s, Len(s) - m + 1, Len(s)) = PKCS7(m)}}
         ELSE IF Whole(s) THEN {s} ELSE {}

-----------------------------------------------------------------------------
Ops  == {"encrypt", "decrypt"}
Idle == [op |-> "none"]
None == [kind |-> "none"]

TypeOK ==
  /\ pc \in {"idle", "new", "init", "padding", "update", "final", "return"}
  /\ call # Idle => call.op \in Ops /\ call.p \in Paddings \cup Wraps
  /\ pc = "idle" <=> call = Idle
  /\ ctxs = (IF pc \in {"idle", "new", "return"} THEN 0 ELSE 1)
  /\ buf \in {"none", "data", "zeroed"}
  /\ made # None => made.kind = "made"
  /\ reply # None => reply.kind \in {"ok", "ErrVerification", "Error"}

Init ==
  /\ pc = "idle"
  /\ call = Idle
  /\ ctxs = 0
  /\ buf = "none"
  /\ made = None
  /\ reply = None

\* in: what is handed to run; out: what comes back, if anything.
Start(op, p, arg, in) ==
  /\ call' = [op |-> op, p |-> p, arg |-> arg, in |-> in, out |-> {}, fault |-> FALSE]
  /\ pc' = "new"
  /\ buf' = "none"
  /\ UNCHANGED <<ctxs, made, reply>>

Answer(op, p, arg, kind, out, fault) ==
  reply' = [op |-> op, p |-> p, arg |-> arg, kind |-> kind, out |-> out, fault |-> fault]

Refuse(op, p, arg, kind) ==
  /\ Answer(op, p, arg, kind, {}, FALSE)
  /\ buf' = "none"
  /\ UNCHANGED <<pc, call, ctxs, made>>

Encrypt(p, m) ==
  LET padded == IF ~Stream /\ p # "PKCS7" THEN ApplyPadding(p, m) ELSE m
  IN IF ~Stream /\ p = "None" /\ ~Whole(padded)
     THEN Refuse("encrypt", p, m, "Error")
     ELSE Start("encrypt", p, m, padded)

Decrypt(p, c) ==
  IF ~Stream /\ ~Whole(c)
  THEN Refuse("decrypt", p, c, "ErrVerification")
  ELSE Start("decrypt", p, c, c)

\* AES-KW takes two units of 8 bytes or more, AES-KWP anything but nothing.
WrapFits(p, m) ==
  /\ Len(m) > 0
  /\ p = "KW" => Len(m) >= 2 * Block /\ Whole(m)

Wrap(p, m) ==
  IF WrapFits(p, m) THEN Start("encrypt", p, m, m)
  ELSE Refuse("encrypt", p, m, "Error")

Unwrap(p, c) ==
  IF Len(c) < 2 * Block \/ ~Whole(c)
  THEN Refuse("decrypt", p, c, "ErrVerification")
  ELSE Start("decrypt", p, c, c)

-----------------------------------------------------------------------------
(* run: any C call may fail.  The context is freed on the way out, and a    *)
(* failed Update or Final zeroes the buffer.                                *)

Leave(out) ==
  /\ call' = [call EXCEPT !.out = out, !.fault = @ \/ out = {}]
  /\ pc' = "return"
  /\ ctxs' = 0
  /\ UNCHANGED <<made, reply>>

New ==
  /\ pc = "new"
  /\ \/ pc' = "init" /\ ctxs' = 1 /\ UNCHANGED <<call, buf, made, reply>>
     \/ Leave({}) /\ UNCHANGED buf

\* Init, and set_padding for a Cipher with blocks.
Prepare ==
  /\ pc \in {"init", "padding"}
  /\ \/ /\ pc' = IF pc = "init" /\ ~Stream /\ call.p \in Paddings
                   THEN "padding" ELSE "update"
        /\ UNCHANGED <<call, ctxs, buf, made, reply>>
     \/ Leave({}) /\ UNCHANGED buf

\* Skipped by a Cipher for an empty input.  EVP is given C.int(len(in)) bytes
\* of it, and is taken to fail for a negative length.
Update ==
  LET n == CInt(Len(call.in))
  IN /\ pc = "update"
     /\ \/ /\ n >= 0
           /\ call' = [call EXCEPT !.in = SubSeq(@, 1, n)]
           /\ pc' = "final"
           /\ buf' = IF n = 0 THEN "none" ELSE "data"
           /\ UNCHANGED <<ctxs, made, reply>>
        \/ call.in # <<>> /\ Leave({}) /\ buf' = "zeroed"

\* Mutant of Final: the buffer is left as it is.
FinalUnwiped ==
  /\ pc = "final"
  /\ \E out \in {{}, IF call.op = "encrypt" THEN EVPEncrypt(call.p, call.in)
                     ELSE EVPDecrypt(call.p, call.in)} :
       Leave(out)
  /\ UNCHANGED buf

Final ==
  /\ pc = "final"
  /\ \E out \in {{}, IF call.op = "encrypt" THEN EVPEncrypt(call.p, call.in)
                     ELSE EVPDecrypt(call.p, call.in)} :
       /\ Leave(out)
       /\ buf' = IF out = {} THEN "zeroed" ELSE buf

-----------------------------------------------------------------------------
Finish(kind, out) ==
  /\ Answer(call.op, call.p, call.arg, kind, out, call.fault)
  /\ call' = Idle
  /\ pc' = "idle"
  /\ UNCHANGED <<ctxs, buf>>

ReturnEncrypt ==
  /\ pc = "return"
  /\ call.op = "encrypt"
  /\ IF call.out = {} THEN Finish("Error", {}) ELSE Finish("ok", call.out)
  /\ made' = IF call.out = {} THEN made
             ELSE [kind |-> "made", p |-> call.p, arg |-> call.arg, out |-> call.out]

\* Mutant of ReturnDecrypt: the failure is reported as what it was.
ReturnDecryptTelling ==
  /\ pc = "return"
  /\ call.op = "decrypt"
  /\ LET out == IF Stream \/ call.p \notin Paddings \ {"PKCS7"} THEN call.out
                ELSE UNION {RemovePadding(call.p, s) : s \in call.out}
     IN Finish(IF call.out = {} THEN "Error" ELSE IF out = {} THEN "ErrVerification" ELSE "ok", out)
  /\ UNCHANGED made

ReturnDecrypt ==
  /\ pc = "return"
  /\ call.op = "decrypt"
  /\ LET out == IF Stream \/ call.p \notin Paddings \ {"PKCS7"} THEN call.out
                ELSE UNION {RemovePadding(call.p, s) : s \in call.out}
     IN Finish(IF out = {} THEN "ErrVerification" ELSE "ok", out)
  /\ UNCHANGED made

\* The caller has seen the answer.
Taken ==
  /\ reply # None
  /\ reply' = None
  /\ UNCHANGED <<pc, call, ctxs, buf, made>>

\* A decryption is of what was made last, or of anything.
Inputs == IF made = None THEN Messages ELSE made.out

Next ==
  \/ /\ pc = "idle" /\ reply = None
     /\ \/ /\ made = None
           /\ \E m \in Messages : \/ \E p \in Paddings : Encrypt(p, m)
                                 \/ \E p \in Wraps : Wrap(p, m)
        \/ \E c \in Inputs : \/ \E p \in Paddings : Decrypt(p, c)
                             \/ \E p \in Wraps : Unwrap(p, c)
  \/ New \/ Prepare \/ Update \/ Final \/ ReturnEncrypt \/ ReturnDecrypt \/ Taken

Spec == Init /\ [][Next]_vars

-----------------------------------------------------------------------------
(* Correctness.                                                             *)

Reversible(p) == p # "Zero"

\* A last block of zeros has no padding of its own.
Overrun(c) == Len(c) >= Block /\ SubSeq(c, Len(c) - Block + 1, Len(c)) = Zeros(Block)

(* Encryption and decryption under one padding are inverse to each other:   *)
(* what was encrypted comes back, with zero padding what was padded does    *)
(* (cipher_sym.go:36-42), and a decryption succeeds only for what an        *)
(* encryption makes of its result.  For ISO 7816-4 that fails where the     *)
(* zeros go on beyond the last block.                                       *)
PaddingInverts ==
  /\ reply # None /\ reply.op = "decrypt" /\ made # None
     /\ reply.p = made.p /\ reply.arg \in made.out /\ ~reply.fault
     => reply.out = IF made.p = "Zero" /\ ~Stream
                      THEN {ApplyPadding("Zero", made.arg)} ELSE {made.arg}
  /\ reply # None /\ reply.op = "decrypt" /\ reply.kind = "ok" /\ Reversible(reply.p)
     /\ ~Stream /\ ~(reply.p = "ISO7816" /\ Overrun(reply.arg))
     => \A m \in reply.out :
          reply.arg \in EVPEncrypt(reply.p,
            IF reply.p \in Wraps \cup {"PKCS7"} THEN m ELSE ApplyPadding(reply.p, m))

(* Every decryption that fails answers ErrVerification and nothing else     *)
(* (cipher_sym.go:236-239, :574-576).                                       *)
FailuresAlike ==
  reply # None /\ reply.op = "decrypt" => reply.kind \in {"ok", "ErrVerification"}

(* A decryption that fails in EVP leaves no plaintext in run's buffer.      *)
BufferWiped == reply # None /\ reply.fault => buf # "data"

(* Encrypt encrypts the plaintext, all of it (cipher_sym.go:198).           *)
CoversInput ==
  reply # None /\ reply.op = "encrypt" /\ reply.kind = "ok" =>
    \A c \in reply.out : Len(c) >= Len(reply.arg)
=============================================================================

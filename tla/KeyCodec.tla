------------------------------- MODULE KeyCodec -------------------------------
(***************************************************************************)
(* Keys in and out of their encodings (pkey_pem.go): the encoder and the   *)
(* decoder, the checks on the kind of key that OpenSSL does not make, the  *)
(* C objects both allocate, and the Context a decoded key belongs to.      *)
(*                                                                         *)
(* DER and PEM differ in nothing that is modelled.  The provider of an     *)
(* algorithm may be loaded in one Context only.  Any C call may fail.      *)
(***************************************************************************)
EXTENDS FiniteSets

VARIABLES
  key,          \* the caller's Key
  blob,         \* the last encoding made
  live,         \* C objects allocated by the call, and the EVP_PKEY it made
  pc,           \* the call under way
  reply         \* how the last call ended

vars == <<key, blob, live, pc, reply>>

Algs     == {"EC", "RSA", "ED25519", "vendor"}
Contexts == {"default", "isolated"}

\* The vendor's provider is loaded in one Context only.
Has(c, alg) == alg = "vendor" => c = "isolated"

\* A "token" key is a private key that cannot be extracted.
Keys == [alg : Algs, part : {"private", "public", "token"}, ctx : Contexts, open : BOOLEAN]

\* "SEC1" and "PKCS1" are the type-specific structures of EC and RSA keys.
PrivateForms == {"PKCS8", "SEC1", "PKCS1", "raw private"}
Forms == PrivateForms \cup {"SPKI", "raw public"}
Raw   == {"raw private", "raw public"}
Blobs == [alg : Algs, form : Forms]

Idle == [op |-> "none"]
None == [kind |-> "none"]

TypeOK ==
  /\ key \in Keys
  /\ blob \in Blobs \cup {None}
  /\ live \subseteq {"encoder", "data", "decoder", "copy", "pkey"}
  /\ pc # Idle => pc.op \in {"marshal", "parse", "public"} /\ pc.form \in Forms
  /\ reply # None => reply.kind \in {"ok", "ErrClosed", "refused", "Error"}

Init ==
  /\ key \in {k \in Keys : k.open /\ Has(k.ctx, k.alg)}
  /\ blob = None
  /\ live = {}
  /\ pc = Idle
  /\ reply = None

Free == pc = Idle /\ reply = None

\* how: what was asked, of which Context and for which blob; got: the Key.
Reply(how, kind, got, fault) ==
  reply' = [kind |-> kind, how |-> how, got |-> got, fault |-> fault]

-----------------------------------------------------------------------------
\* Mutant of WrongKind: the encoder is left to refuse the kind of key.
WrongKindUnchecked(form) == FALSE

\* MarshalSEC1 and MarshalPKCS1 check the type, which a closed Key does not
\* have, before anything else.
WrongKind(form) ==
  \/ form = "SEC1" /\ ~(key.open /\ key.alg = "EC")
  \/ form = "PKCS1" /\ ~(key.open /\ key.alg = "RSA")

Marshal(op, form) ==
  LET how == [op |-> op, form |-> form, ctx |-> key.ctx, from |-> None, at |-> "encoder"]
  IN /\ Free
     /\ CASE WrongKind(form) -> Reply(how, "refused", None, FALSE) /\ UNCHANGED pc
          [] ~WrongKind(form) /\ ~key.open ->
               Reply(how, "ErrClosed", None, FALSE) /\ UNCHANGED pc
          [] OTHER -> pc' = how /\ UNCHANGED reply
     /\ UNCHANGED <<key, blob, live>>

\* What the encoder makes of "type-specific" for a key.
Structure(form) ==
  IF form \in {"SEC1", "PKCS1"}
  THEN CASE key.alg = "EC"  -> {"SEC1"}
         [] key.alg = "RSA" -> {"PKCS1"}
         [] OTHER           -> {}
  ELSE {form}

\* The blobs that come of it: at most one.
Encoded(form) ==
  {[alg |-> key.alg, form |-> f] : f \in {g \in Structure(form) :
     /\ g \in PrivateForms => key.part = "private"
     /\ g \in Raw => key.alg = "ED25519"}}

\* encode, and the raw getters, which allocate nothing in C.
NewEncoder ==
  /\ pc # Idle /\ pc.at = "encoder"
  /\ \/ /\ pc' = [pc EXCEPT !.at = "data"]
        /\ live' = IF pc.form \in Raw THEN live ELSE live \cup {"encoder"}
        /\ UNCHANGED reply
     \/ pc' = Idle /\ Reply(pc, "Error", None, TRUE) /\ UNCHANGED live
  /\ UNCHANGED <<key, blob>>

\* Mutant of Home: the public half is decoded through Default.
HomeIsDefault == "default"

\* Public decodes through the Context of its Key.
Home == key.ctx

\* The encoder and its data are freed on the way out.
ToData ==
  /\ pc # Idle /\ pc.at = "data"
  /\ \E out \in {{}, Encoded(pc.form)} :
       CASE out = {} ->
              /\ pc' = Idle
              /\ Reply(pc, "Error", None, Encoded(pc.form) # {})
              /\ UNCHANGED blob
         [] out # {} /\ pc.op = "marshal" ->
              /\ pc' = Idle
              /\ blob' \in out
              /\ Reply(pc, "ok", None, FALSE)
         [] out # {} /\ pc.op = "public" ->
              /\ \E b \in out : pc' = [pc EXCEPT !.at = "decoder", !.ctx = Home, !.from = b]
              /\ UNCHANGED <<blob, reply>>
  /\ live' = live \ {"encoder", "data"}
  /\ UNCHANGED key

-----------------------------------------------------------------------------
\* Parse*, of the last blob.
Parse(c, form) ==
  /\ Free
  /\ blob # None
  /\ pc' = [op |-> "parse", form |-> form, ctx |-> c, from |-> blob, at |-> "decoder"]
  /\ UNCHANGED <<key, blob, live, reply>>

\* The input is copied to C.  Raw bytes need no decoder.
NewDecoder ==
  /\ pc # Idle /\ pc.at = "decoder"
  /\ \/ /\ pc' = [pc EXCEPT !.at = "from data"]
        /\ live' = IF pc.form \in Raw THEN live ELSE live \cup {"decoder", "copy"}
        /\ UNCHANGED reply
     \/ pc' = Idle /\ Reply(pc, "Error", None, TRUE) /\ UNCHANGED live
  /\ UNCHANGED <<key, blob>>

\* The structure is a hint only: any private encoding of the right kind of
\* key will do, but no private one for a public one (pkey_pem_test.go:166).
Decodable(form, b) ==
  CASE form = "SPKI"  -> b.form = "SPKI"
    [] form = "PKCS8" -> b.form \in PrivateForms \ Raw
    [] form = "SEC1"  -> b.form \in PrivateForms \ Raw /\ b.alg = "EC"
    [] form = "PKCS1" -> b.form \in PrivateForms \ Raw /\ b.alg = "RSA"
    [] form \in Raw   -> b.form = form

Half(form) == IF form \in PrivateForms THEN "private" ELSE "public"

\* Mutant of FromData: the decoder is freed only if it succeeded.
FromDataLeaks ==
  /\ pc # Idle /\ pc.at = "from data"
  /\ \/ /\ Has(pc.ctx, pc.from.alg)
        /\ Decodable(pc.form, pc.from)
        /\ live' = (live \ {"decoder", "copy"}) \cup {"pkey"}
        /\ Reply(pc, "ok", [alg |-> pc.from.alg, part |-> Half(pc.from.form),
                            ctx |-> pc.ctx], FALSE)
     \/ /\ UNCHANGED live
        /\ Reply(pc, "Error", None, Has(pc.ctx, pc.from.alg) /\ Decodable(pc.form, pc.from))
  /\ pc' = Idle
  /\ UNCHANGED <<key, blob>>

FromData ==
  /\ pc # Idle /\ pc.at = "from data"
  /\ \/ /\ Has(pc.ctx, pc.from.alg)
        /\ Decodable(pc.form, pc.from)
        /\ live' = (live \ {"decoder", "copy"}) \cup {"pkey"}
        /\ Reply(pc, "ok", [alg |-> pc.from.alg, part |-> Half(pc.from.form),
                            ctx |-> pc.ctx], FALSE)
     \/ /\ live' = live \ {"decoder", "copy"}
        /\ Reply(pc, "Error", None, Has(pc.ctx, pc.from.alg) /\ Decodable(pc.form, pc.from))
  /\ pc' = Idle
  /\ UNCHANGED <<key, blob>>

-----------------------------------------------------------------------------
\* The caller closes the Key it was given, and its own.
Taken ==
  /\ reply # None
  /\ live' = live \ {"pkey"}
  /\ reply' = None
  /\ UNCHANGED <<key, blob, pc>>

Close ==
  /\ Free
  /\ key.open
  /\ key' = [key EXCEPT !.open = FALSE]
  /\ UNCHANGED <<blob, live, pc, reply>>

Next ==
  \/ \E form \in Forms : Marshal("marshal", form)
  \/ Marshal("public", "SPKI")
  \/ \E c \in Contexts, form \in Forms : Parse(c, form)
  \/ NewEncoder \/ ToData \/ NewDecoder \/ FromData \/ Taken \/ Close

Spec == Init /\ [][Next]_vars

-----------------------------------------------------------------------------
(* Correctness.                                                             *)

(* An encoding is of the structure that was asked for and never of another  *)
(* key's (pkey_pem.go:74-78); what Marshal made Parse reads back in every   *)
(* Context that has the algorithm, into that Context; and Public yields a   *)
(* key without a private half in its own Context, failing only if a C call  *)
(* or a token's provider does (pkey_pem.go:287-295).                        *)
EncodingsHonest ==
  reply # None =>
    /\ reply.how.op = "marshal" /\ reply.kind = "ok" =>
         blob = [alg |-> key.alg, form |-> reply.how.form]
    /\ reply.how.op = "parse" =>
         /\ reply.kind = "ok" => reply.got = [alg |-> blob.alg, part |-> Half(blob.form),
                                              ctx |-> reply.how.ctx]
         /\ reply.how.form = blob.form /\ Has(reply.how.ctx, blob.alg) /\ ~reply.fault =>
              reply.kind = "ok"
    /\ reply.how.op = "public" /\ reply.kind # "ErrClosed" /\ ~reply.fault =>
         reply.got = [alg |-> key.alg, part |-> "public", ctx |-> key.ctx]

(* Between calls nothing is allocated but the EVP_PKEY of a returned Key.   *)
NothingLeaks ==
  pc = Idle => live = (IF reply # None /\ reply.got # None THEN {"pkey"} ELSE {})
=============================================================================

----------------------------- MODULE SignOptions -----------------------------
(***************************************************************************)
(* What becomes of SignOptions (sign.go, sign_digest.go, signer.go): which *)
(* options a key's algorithm refuses, which reach OpenSSL, what statement  *)
(* a signature therefore is, and whether Context.Supports (capability.go)  *)
(* predicts it.                                                            *)
(*                                                                         *)
(* A caller has one key and one set of options.  It asks Supports, signs   *)
(* the message, its digest or a stream, and verifies what it got under     *)
(* those options or under others.  Any C call may fail.                    *)
(***************************************************************************)
EXTENDS Functions

VARIABLES
  key,          \* the key's algorithm
  asked,        \* the caller's options
  support,      \* what Supports answered
  sig,          \* the last attempt to sign
  check         \* the last attempt to verify

vars == <<key, asked, support, sig, check>>

Internal == {"ED25519", "ED448", "PQC"}     \* ML-DSA and SLH-DSA are "PQC"
KeyTypes == {"RSA", "RSA-PSS", "EC", "DSA"} \cup Internal

\* "message" is Sign and Verify, "digest" SignDigest and VerifyDigest,
\* "stream" Signer and Verifier.
Paths == {"message", "digest", "stream"}

\* "" is the zero value throughout, except that a Context may be nil, empty,
\* given, or longer than 255 bytes.  "default" is defaultDigest's choice.
Values ==
  [digest |-> {"", "default", "other", "xof"},
   context |-> {"nil", "empty", "given", "long"},
   prehash |-> BOOLEAN,
   padding |-> {"PSS", "PKCS1v15"},
   salt |-> {"hash", "max", "invalid"},
   mgf1 |-> {"", "other"},
   format |-> {"DER", "P1363"},
   deterministic |-> BOOLEAN]

Options ==
  [digest : Values.digest, context : Values.context, prehash : Values.prehash,
   padding : Values.padding, salt : Values.salt, mgf1 : Values.mgf1,
   format : Values.format, deterministic : Values.deterministic]

Zero == [digest |-> "", context |-> "nil", prehash |-> FALSE, padding |-> "PSS",
         salt |-> "hash", mgf1 |-> "", format |-> "DER", deterministic |-> FALSE]

Rsa(k) == k \in {"RSA", "RSA-PSS"}

\* signOpts: a missing digest is filled in, unless the key hashes internally.
SignOpts(k, o) ==
  IF o.digest = "" /\ k \notin Internal THEN [o EXCEPT !.digest = "default"] ELSE o

-----------------------------------------------------------------------------
(* Refusals.                                                                *)

\* Mutant of Refused: a Context is let through for every algorithm.
RefusedButContext(k, o) ==
  \/ o.context = "long"
  \/ o.prehash /\ k \notin {"ED25519", "ED448"}
  \/ (o.padding # "PSS" \/ o.salt # "hash" \/ o.mgf1 # "") /\ ~Rsa(k)
  \/ o.salt = "invalid"
  \/ o.deterministic /\ k \notin {"EC", "PQC"}
  \/ o.format # "DER" /\ k # "EC"
  \/ o.padding = "PKCS1v15" /\ k = "RSA-PSS"

\* checkSignOptions.
Refused(k, o) ==
  \/ o.context # "nil" /\ k \notin Internal
  \/ o.context = "long"
  \/ o.prehash /\ k \notin {"ED25519", "ED448"}
  \/ (o.padding # "PSS" \/ o.salt # "hash" \/ o.mgf1 # "") /\ ~Rsa(k)
  \/ o.salt = "invalid"
  \/ o.deterministic /\ k \notin {"EC", "PQC"}
  \/ o.format # "DER" /\ k # "EC"
  \/ o.padding = "PKCS1v15" /\ k = "RSA-PSS"

\* Mutant of DigestRefused: pure EdDSA signs a digest as if it were a message.
DigestRefusedLate(k, o) == k \in {"DSA", "PQC"}

\* checkDigestOptions, of a digest that has the right length.
DigestRefused(k, o) ==
  \/ k \in {"ED25519", "ED448"} /\ ~o.prehash
  \/ k \in {"DSA", "PQC"}

\* A stream is refused for an algorithm that hashes internally.
PathRefused(path, k, o) ==
  CASE path = "message" -> Refused(k, o)
    [] path = "digest"  -> Refused(k, o) \/ DigestRefused(k, o)
    [] path = "stream"  -> k \in Internal \/ Refused(k, o)

\* EVP_Digest{Sign,Verify}Init_ex takes the name of a digest: none for the
\* algorithms that hash internally, and no extendable-output function.
\* EVP_PKEY_sign_init takes none, and applyDigestParam gives one only to RSA
\* and EC.
Rejected(path, k, o) ==
  IF k \in Internal THEN o.digest # "" /\ path # "digest" ELSE o.digest = "xof"

-----------------------------------------------------------------------------
(* What reaches OpenSSL.                                                    *)

\* applyRSA.  With PKCS#1 v1.5 it returns before the salt and MGF1.
ApplyRSA(o) ==
  IF o.padding = "PKCS1v15"
  THEN [padding |-> "PKCS1v15", digest |-> o.digest]
  ELSE [padding |-> "PSS", digest |-> o.digest, salt |-> o.salt,
        mgf1 |-> IF o.mgf1 = "" THEN o.digest ELSE o.mgf1]

\* Where no context is set OpenSSL uses the empty one.
ContextSet(o) == IF o.context = "nil" THEN "empty" ELSE o.context

\* applyEd25519: a Context that is not nil selects Ed25519ctx.  applyEd448
\* knows no such variant.
Instance(k, o) ==
  IF o.prehash THEN "ph"
  ELSE IF k = "ED25519" /\ o.context # "nil" THEN "ctx"
  ELSE "pure"

ApplyEdDSA(k, o) == [prehash |-> Instance(k, o), context |-> ContextSet(o)]

ApplyPQC(o) == [context |-> ContextSet(o), deterministic |-> o.deterministic]

\* applySignOptions, after an Init that was given the digest.
ApplySignOptions(k, o) ==
  CASE Rsa(k)                     -> ApplyRSA(o)
    [] k \in {"ED25519", "ED448"} -> ApplyEdDSA(k, o)
    [] k = "PQC"                  -> ApplyPQC(o)
    [] k = "EC"  -> [digest |-> o.digest, deterministic |-> o.deterministic]
    [] k = "DSA" -> [digest |-> o.digest]

\* The statement EVP signs.  EVP_DigestSign hashes what it is given, under
\* the ph instances too; EVP_PKEY_sign takes its input for the hash, and for
\* the message where the instance is not defined over one.  Whether a
\* signature is randomised does not show.
Statement(path, k, o) ==
  LET set == ApplySignOptions(k, o)
  IN [under |-> Restrict(set, DOMAIN set \ {"deterministic"}),
      over  |-> IF path = "digest" /\ k \in Internal /\ ~o.prehash
                  THEN "digest" ELSE "message"]

\* Sign and SignDigest re-encode on request and Verify and VerifyDigest
\* decode; a stream hands over what it got.
Encoding(path, o) == IF path = "stream" THEN "DER" ELSE o.format

-----------------------------------------------------------------------------
(* Supports, for a SignatureCapability: it has no field for Padding,        *)
(* PSSSaltLen or MGF1Hash, and its Context is a fixed one.                  *)

Describable(o) ==
  /\ o.padding = "PSS" /\ o.salt = "hash" /\ o.mgf1 = ""
  /\ o.context \in {"nil", "given"}

\* Mutant of Supported: the digest is available, so it can be used.
SupportedByParts(k, o) == ~Refused(k, o)

\* SignatureCapability.check, where the algorithm, the curve and the digest
\* are available.
Supported(k, o) ==
  /\ k \in Internal => o.digest = ""
  /\ k \notin Internal => o.digest # "xof"
  /\ ~Refused(k, o)

-----------------------------------------------------------------------------
None == [path |-> "none"]

TypeOK ==
  /\ key \in KeyTypes
  /\ asked \in Options
  /\ support \in {"unasked", "yes", "no"}
  /\ sig # None => /\ sig.path \in Paths
                   /\ sig.outcome \in {"refused", "rejected", "failed", "ok"}
  /\ check # None => check.path \in Paths /\ check.opts \in Options

Init ==
  /\ key \in KeyTypes
  /\ asked \in Options
  /\ support = "unasked"
  /\ sig = None
  /\ check = None

Ask ==
  /\ support = "unasked"
  /\ Describable(asked)
  /\ support' = IF Supported(key, asked) THEN "yes" ELSE "no"
  /\ UNCHANGED <<key, asked, sig, check>>

\* What a call comes to: refused with an error of its own, rejected by
\* OpenSSL, failed in some C call, or else what EVP makes of it.
Ends(path, o, verdict) ==
  IF PathRefused(path, key, o) THEN {"refused"}
  ELSE IF Rejected(path, key, SignOpts(key, o)) THEN {"rejected"}
  ELSE {"failed", verdict}

SignBy(path) ==
  /\ sig = None
  /\ \E end \in Ends(path, asked, "ok") :
       sig' = [path |-> path, outcome |-> end,
               statement |-> IF end = "ok" THEN Statement(path, key, SignOpts(key, asked))
                                           ELSE "none",
               enc |-> Encoding(path, asked)]
  /\ UNCHANGED <<key, asked, support, check>>

\* The caller verifies what it signed, under the same options or with one of
\* them changed.
Others ==
  UNION {{[asked EXCEPT ![f] = v] : v \in Values[f]} : f \in DOMAIN Values}

VerifyBy(path, o) ==
  /\ sig # None
  /\ sig.outcome = "ok"
  /\ check = None
  /\ \E end \in Ends(path, o,
          IF /\ sig.enc = Encoding(path, o)
             /\ sig.statement = Statement(path, key, SignOpts(key, o))
          THEN "ok" ELSE "ErrVerification") :
       check' = [path |-> path, opts |-> o, outcome |-> end]
  /\ UNCHANGED <<key, asked, support, sig>>

Next ==
  \/ Ask
  \/ \E path \in Paths : SignBy(path)
  \/ \E path \in Paths, o \in Others : VerifyBy(path, o)

Spec == Init /\ [][Next]_vars

-----------------------------------------------------------------------------
(* Correctness.                                                             *)

(* What the comments on SignOptions say the options mean: an empty Context  *)
(* differs from none for Ed25519 only, MGF1 follows the digest, the salt    *)
(* and MGF1 belong to PSS, and a digest to algorithms that do not have one. *)
Meaning(o) ==
  [digest  |-> IF key \in Internal THEN "" ELSE SignOpts(key, o).digest,
   prehash |-> o.prehash,
   context |-> IF key = "ED25519" /\ ~o.prehash THEN o.context ELSE ContextSet(o),
   padding |-> o.padding,
   pss     |-> IF Rsa(key) /\ o.padding = "PSS"
                 THEN <<o.salt, IF o.mgf1 = "" THEN SignOpts(key, o).digest ELSE o.mgf1>>
                 ELSE <<>>]

(* A signature verifies under no options that mean something else than      *)
(* those it was made under: no context, variant, digest, padding or salt    *)
(* is dropped alike by both halves (sign.go:259-266), on any of the paths.  *)
OptionsSeparate ==
  check # None /\ check.outcome = "ok" => Meaning(check.opts) = Meaning(asked)

(* What one path signs every path that takes the options verifies under     *)
(* them, and the path that signed never refuses them (sign_digest.go:79-82).*)
(* A stream encodes otherwise than asked, see run stream_format.            *)
PathsAgree ==
  check # None /\ check.opts = asked =>
    /\ check.outcome = "ErrVerification" =>
         asked.format = "P1363" /\ ((sig.path = "stream") # (check.path = "stream"))
    /\ sig.path = check.path => check.outcome \in {"ok", "failed"}

(* Supports predicts the operation: Sign and NewSigner get to OpenSSL and   *)
(* are not rejected exactly when it said yes (capability.go:15-26), except  *)
(* that a stream also needs an algorithm that does not hash internally.     *)
SupportsAgrees ==
  support # "unasked" /\ sig # None =>
    /\ sig.path = "message" =>
         (support = "yes" <=> sig.outcome \in {"failed", "ok"})
    /\ sig.outcome = "ok" /\ sig.path = "stream" => support = "yes"
=============================================================================

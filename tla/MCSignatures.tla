---------------------------- MODULE MCSignatures ----------------------------
(* Signing in two parts that share no variable; a behaviour exercises one.  *)
(* The handles and streams (KeyStream): one EC key and one key that is      *)
(* one-shot only, two streams, messages of up to two chunks: a stream can   *)
(* outlive its key, a Signer and a Verifier can meet over one key, and one  *)
(* message can be a prefix of another.  The options (SignOptions): every    *)
(* kind of key with every combination of options.                           *)
EXTENDS KeyStream

VARIABLES subject, key, asked, support, made, checked

optionVars == <<key, asked, support, made, checked>>

Opts == INSTANCE SignOptions WITH sig <- made, check <- checked

SignaturesInit ==
  /\ subject \in {"handles", "options"}
  /\ Init
  /\ IF subject = "options" THEN Opts!Init
     ELSE /\ key = "EC" /\ asked = Opts!Zero
          /\ support = "unasked" /\ made = Opts!None /\ checked = Opts!None

SignaturesNext ==
  /\ UNCHANGED subject
  /\ \/ subject = "handles" /\ Next /\ UNCHANGED optionVars
     \/ subject = "options" /\ Opts!Next /\ UNCHANGED vars

SignaturesSpec == SignaturesInit /\ [][SignaturesNext]_<<subject, vars, optionVars>>

(* Both parts are type correct.                                             *)
TypesOK == TypeOK /\ Opts!TypeOK

(* SignOptions: a signature verifies under no options that mean something   *)
(* else (sign.go:259-266).                                                  *)
OptionsSeparate == Opts!OptionsSeparate

(* SignOptions: what one path signs the others verify (sign_digest.go:79).  *)
PathsAgree == Opts!PathsAgree

(* SignOptions: Supports predicts the operation (capability.go:15-26).      *)
SupportsAgrees == Opts!SupportsAgrees
=============================================================================

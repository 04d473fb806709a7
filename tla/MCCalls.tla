------------------------------- MODULE MCCalls -------------------------------
(* What one goroutine does through handles that share nothing: a behaviour  *)
(* exercises one subject.  Hashes and MACs (MessageStream), AEAD messages   *)
(* (AEADCall), asymmetric operations (KeyCall), ciphers and key wraps       *)
(* (CipherMessage), VerifyCapability over them (Trial), the lists of        *)
(* algorithms (Enumerate), keys in and out of encodings (KeyCodec) and from *)
(* a store (StoreWalk), and the parameters that go with calls (Params).     *)
EXTENDS MessageStream

CONSTANTS
  Subjects,                                      \* the ones a behaviour may have
  TagSizes,
  Bytes, Block, IntBits, MaxLen,
  Names, NoName, Room, MaxWalk, MaxQueries,
  MaxObjects,
  MaxEntries, MaxHandovers

\* A byte is a number.
ASSUME BytesAssumption == Bytes \subseteq Nat

\* The bounds, and the code's own limits of an array and of a block.
ASSUME BoundsAssumption ==
  /\ MaxLen \in Nat /\ MaxWalk \in Nat /\ MaxQueries \in Nat /\ MaxObjects \in Nat
  /\ MaxEntries \in Nat /\ MaxHandovers \in Nat \ {0}
  /\ Room \in Nat /\ Block \in Nat \ {0} /\ IntBits \in Nat \ {0}

\* A trial's probe is of a byte that no padding uses.
ASSUME ProbeAssumption == "trial" \in Subjects => \E b \in Bytes : b \notin {0, Block, 128}

\* An algorithm without a name is none of those with one.
ASSUME NoNameAssumption == NoName \notin Names

VARIABLES
  subject,
  aead, sealCall, sealPc, evp, scratch, sealQueue, sealReply, fault,
  keyPc, keyLive, labelOwner, doubleFree, keyQueue, secret, result,
  cipherPc, cipherCall, ctxs, cipherBuf, made, cipherReply,
  cap, at, trialHandles, got, unwell, verdict,
  usable, queries, always, ever, listCall, collected, names, listReply,
  key, blob, codecLive, codecPc, codecReply,
  store, pos, eof, expect, walkPc, item, walkLive, seen, walkReply,
  list, arena, heap, ended, freed, asked, user, handed

aeadVars   == <<aead, sealCall, sealPc, evp, scratch, sealQueue, sealReply, fault>>
keyVars    == <<keyPc, keyLive, labelOwner, doubleFree, keyQueue, secret, result>>
cipherVars == <<cipherPc, cipherCall, ctxs, cipherBuf, made, cipherReply>>
trialVars  == <<cap, at, trialHandles, got, unwell, verdict>>
listVars   == <<usable, queries, always, ever, listCall, collected, names, listReply>>
codecVars  == <<key, blob, codecLive, codecPc, codecReply>>
walkVars   == <<store, pos, eof, expect, walkPc, item, walkLive, seen, walkReply>>
paramVars  == <<list, arena, heap, ended, freed, asked, user, handed>>

AEAD == INSTANCE AEADCall WITH call <- sealCall, pc <- sealPc, ctx <- evp, buf <- scratch,
                               queue <- sealQueue, reply <- sealReply
Asym == INSTANCE KeyCall WITH pc <- keyPc, live <- keyLive, queue <- keyQueue,
                              buffer <- secret
Ciph == INSTANCE Trial WITH pc <- cipherPc, call <- cipherCall, buf <- cipherBuf,
                            reply <- cipherReply, handles <- trialHandles
Enum == INSTANCE Enumerate WITH call <- listCall, list <- collected, reply <- listReply
Code == INSTANCE KeyCodec WITH live <- codecLive, pc <- codecPc, reply <- codecReply
Walk == INSTANCE StoreWalk WITH pc <- walkPc, live <- walkLive, out <- seen,
                                reply <- walkReply
Pars == INSTANCE Params

\* The subject starts anywhere it may; the others stay where they are put.
Pin(s, put) == IF subject = s THEN TRUE ELSE put

CallsInit ==
  /\ subject \in Subjects
  /\ Pin("aead", /\ aead = CHOOSE h \in AEAD!AEADs : TRUE
                 /\ sealCall = CHOOSE c \in AEAD!Calls : TRUE
                 /\ sealQueue = {})
  /\ Pin("asym", keyQueue = {})
  /\ Pin("trial", cap = [kind |-> "aead", p |-> "None"])
  /\ Pin("lists", usable = {})
  /\ Pin("codec", key = [alg |-> "EC", part |-> "private", ctx |-> "default", open |-> TRUE])
  /\ Pin("store", store = <<>>)
  /\ Pin("params", user = [kind |-> "mac", at |-> "build"])
  /\ Init /\ AEAD!Init /\ Asym!Init /\ Ciph!TrialInit /\ Enum!Init /\ Code!Init
  /\ Walk!Init /\ Pars!Init

\* A step of the subject, whose variables are v.
Of(s, step, v) ==
  /\ subject = s /\ step
  /\ \A w \in {"stream", "aead", "asym", "cipher", "trial", "lists", "codec", "store",
               "params"} \ v :
       CASE w = "stream" -> UNCHANGED vars
         [] w = "aead"   -> UNCHANGED aeadVars
         [] w = "asym"   -> UNCHANGED keyVars
         [] w = "cipher" -> UNCHANGED cipherVars
         [] w = "trial"  -> UNCHANGED trialVars
         [] w = "lists"  -> UNCHANGED listVars
         [] w = "codec"  -> UNCHANGED codecVars
         [] w = "store"  -> UNCHANGED walkVars
         [] w = "params" -> UNCHANGED paramVars

CallsNext ==
  /\ UNCHANGED subject
  /\ \/ Of("stream", Next, {"stream"})
     \/ Of("aead", AEAD!Next, {"aead"})
     \/ Of("asym", Asym!Next, {"asym"})
     \/ Of("cipher", Ciph!Next, {"cipher"})
     \/ Of("trial", Ciph!TrialNext, {"cipher", "trial"})
     \/ Of("lists", Enum!Next, {"lists"})
     \/ Of("codec", Code!Next, {"codec"})
     \/ Of("store", Walk!Next, {"store"})
     \/ Of("params", Pars!Next, {"params"})

CallsSpec ==
  CallsInit /\ [][CallsNext]_<<subject, vars, aeadVars, keyVars, cipherVars, trialVars,
                               listVars, codecVars, walkVars, paramVars>>

-----------------------------------------------------------------------------
(* All are type correct.                                                    *)
TypesOK ==
  /\ TypeOK /\ AEAD!TypeOK /\ Asym!TypeOK /\ Ciph!TrialTypeOK /\ Enum!TypeOK
  /\ Code!TypeOK /\ Walk!TypeOK /\ Pars!TypeOK

(* AEADCall: Open returns plaintext only for what Seal made                 *)
(* (cipher.go:345-372).                                                     *)
Authentic == AEAD!Authentic

(* AEADCall: with no fault Seal succeeds and Open accepts what Seal made.   *)
Accepts == AEAD!Accepts

(* What an answer tells.  A rejection says nothing of where and why: Open,  *)
(* Decrypt and Unwrap have one answer (cipher.go:347, asym.go:151-156,      *)
(* cipher_sym.go:236-239).  An error of Seal carries its own entries.       *)
AnswersTell ==
  /\ AEAD!OneVerdict /\ Asym!OneRejection /\ Ciph!FailuresAlike
  /\ AEAD!SealDiagnosed

(* No failed Open, decryption, decapsulation or derivation leaves a secret  *)
(* in its buffer.                                                           *)
SecretsWiped == AEAD!PlaintextWiped /\ Asym!SecretsWiped /\ Ciph!BufferWiped

(* No path of any call loses a C object or frees one twice, and none        *)
(* reaches an assertion of libcrypto or the panic of the parameter builder. *)
NothingLeaks ==
  /\ Balanced /\ Asym!FreedOnce /\ Asym!NeverAborts /\ Ciph!NothingLeft
  /\ Code!NothingLeaks /\ Walk!NothingLeaks /\ Pars!ArenaFreed

(* MessageStream: a nil Err, or a one-shot success, means a digest of all   *)
(* that was written (digest.go:226-229).                                    *)
DigestsComplete == TracksMessage /\ NilErrMeansComplete /\ OneShotHonest

(* CipherMessage: encryption and decryption are inverse (cipher_sym.go).    *)
PaddingInverts == Ciph!PaddingInverts

(* CipherMessage: all of the plaintext is encrypted (cipher_sym.go:198).    *)
CoversInput == Ciph!CoversInput

(* Trial: a nil VerifyCapability is proof (capability.go:71-76).            *)
VerifiedMeansWorks == Ciph!VerifiedMeansWorks

(* Enumerate: a list is the whole list (enumerate.go:112-120).              *)
ListsAreExact == Enum!ListsAreExact

(* Enumerate: what is listed can be fetched (enumerate.go:157, :275).       *)
ListedIsReachable == Enum!ListedIsReachable

(* KeyCodec: an encoding is what was asked for, and reads back              *)
(* (pkey_pem.go:74-78).                                                     *)
EncodingsHonest == Code!EncodingsHonest

(* StoreWalk: the first key of the asked kind (store.go:71-72).             *)
FirstMatch == Walk!FirstMatch

(* Params: OpenSSL is handed whole arrays (params.go:161-173).              *)
ArrayIsWhole == Pars!ArrayIsWhole
=============================================================================

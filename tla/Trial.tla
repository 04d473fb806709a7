-------------------------------- MODULE Trial --------------------------------
(***************************************************************************)
(* Context.VerifyCapability (capability.go): the structural check, then a  *)
(* trial that builds a key, an AEAD or a Cipher, performs the operation    *)
(* and its inverse, and compares.                                          *)
(*                                                                         *)
(* The trial of a cipher runs Encrypt and Decrypt as CipherMessage has     *)
(* them.  What an AEAD or a key does is AEADCall's and SignOptions'        *)
(* matter; here it works, fails, or gives back something else.             *)
(***************************************************************************)
EXTENDS CipherMessage

VARIABLES
  cap,          \* the capability that is asked about
  at,           \* where VerifyCapability is
  handles,      \* keys, AEADs and Ciphers that are open
  got,          \* whether the inverse gave back what was put in
  unwell,       \* a step failed, or gave a wrong answer, on its own account
  verdict       \* what VerifyCapability answered

trialVars == <<cap, at, handles, got, unwell, verdict>>
trialAll  == <<vars, trialVars>>

Caps == [kind : {"aead", "signature"}, p : {"None"}] \cup [kind : {"cipher"}, p : Paddings]

\* The probe: one block of a byte that no padding uses.
Mark  == CHOOSE b \in Bytes : b \notin {0, Block, 128}

\* Mutant of Probe: a message that is not whole blocks.
ProbeUnaligned == [i \in 1..Block + 1 |-> Mark]

Probe == [i \in 1..Block |-> Mark]

TrialTypeOK ==
  /\ TypeOK
  /\ cap \in Caps
  /\ at \in {"idle", "check", "checked", "make", "protect", "protecting",
             "recover", "recovering", "compare"}
  /\ handles \in Nat
  /\ got \in {"nothing", "same", "different"}
  /\ unwell \in BOOLEAN
  /\ verdict \in {"none", "ok", "unsupported", "failed in practice"}

TrialInit ==
  /\ Init
  /\ cap \in Caps
  /\ at = "idle"
  /\ handles = 0
  /\ got = "nothing"
  /\ unwell = FALSE
  /\ verdict = "none"

Ask ==
  /\ at = "idle" /\ verdict = "none"
  /\ at' = "check"
  /\ UNCHANGED <<vars, cap, handles, got, unwell, verdict>>

Ends(v, bad, n) ==
  /\ at' = "idle"
  /\ verdict' = v
  /\ unwell' = (unwell \/ bad)
  /\ handles' = n
  /\ UNCHANGED cap

\* Without a handle; or with one, which is closed on the way out.
NotBuilt(v)       == Ends(v, TRUE, handles) /\ UNCHANGED vars
Conclude(v, bad) == Ends(v, bad, handles - 1) /\ UNCHANGED vars

Move(to, n) ==
  /\ at' = to
  /\ handles' = n
  /\ UNCHANGED <<vars, cap, unwell, verdict>>

-----------------------------------------------------------------------------
\* check: the rules; for a cipher or an AEAD they are the constructor's.
Check ==
  /\ at = "check"
  /\ \/ Move("checked", IF cap.kind = "signature" THEN 0 ELSE 1)
     \/ NotBuilt("unsupported")
  /\ UNCHANGED got

\* Mutant of CheckClose: what the check built stays open.
CheckCloseForgotten == at = "checked" /\ Move("make", handles) /\ UNCHANGED got

CheckClose == at = "checked" /\ Move("make", 0) /\ UNCHANGED got

\* GenerateKey, NewAEAD, NewCipher.
Make ==
  /\ at = "make"
  /\ Move("protect", handles + 1) \/ NotBuilt("failed in practice")
  /\ UNCHANGED got

\* Sign, SealErr.
Protect ==
  /\ at = "protect" /\ cap.kind # "cipher"
  /\ Move("recover", handles) \/ Conclude("failed in practice", TRUE)
  /\ UNCHANGED got

\* Mutant of Recover: what Open returned is not compared.
RecoverUncompared ==
  /\ at = "recover" /\ cap.kind # "cipher"
  /\ \/ Conclude("failed in practice", TRUE) /\ UNCHANGED got
     \/ \E g \in {"same", "different"} : got' = g /\ Conclude("ok", g = "different")

\* Verify, which says itself whether the signature is that of the message, or
\* Open, whose plaintext is compared.
Recover ==
  /\ at = "recover" /\ cap.kind # "cipher"
  /\ \/ Conclude("failed in practice", TRUE) /\ UNCHANGED got
     \/ \E g \in {"same"} \cup {x \in {"different"} : cap.kind = "aead"} :
          /\ got' = g
          /\ IF g = "same" THEN Conclude("ok", FALSE)
             ELSE Conclude("failed in practice", TRUE)

-----------------------------------------------------------------------------
\* A cipher: the call is made, runs, and is answered.
TrialEncrypt ==
  /\ at = "protect" /\ cap.kind = "cipher"
  /\ Encrypt(cap.p, Probe)
  /\ at' = "protecting"
  /\ UNCHANGED <<cap, handles, got, unwell, verdict>>

TrialDecrypt ==
  /\ at = "recover" /\ cap.kind = "cipher"
  /\ \E c \in made.out : Decrypt(cap.p, c)
  /\ at' = "recovering"
  /\ UNCHANGED <<cap, handles, got, unwell, verdict>>

Calling ==
  /\ at \in {"protecting", "recovering"}
  /\ New \/ Prepare \/ Update \/ Final \/ ReturnEncrypt \/ ReturnDecrypt
  /\ UNCHANGED trialVars

Called ==
  /\ at \in {"protecting", "recovering"} /\ reply # None
  /\ IF reply.kind # "ok"
     THEN Ends("failed in practice", reply.fault, handles - 1) /\ UNCHANGED got
     ELSE /\ at' = IF at = "protecting" THEN "recover" ELSE "compare"
          /\ got' = CASE at = "protecting"      -> got
                      [] reply.out = {Probe}    -> "same"
                      [] OTHER                  -> "different"
          /\ UNCHANGED <<cap, handles, unwell, verdict>>
  /\ Taken

Compare ==
  /\ at = "compare"
  /\ Conclude(IF got = "same" THEN "ok" ELSE "failed in practice", FALSE)
  /\ UNCHANGED got

TrialNext ==
  \/ Ask \/ Check \/ CheckClose \/ Make \/ Protect \/ Recover
  \/ TrialEncrypt \/ TrialDecrypt \/ Calling \/ Called \/ Compare

TrialSpec == TrialInit /\ [][TrialNext]_trialAll

-----------------------------------------------------------------------------
(* Correctness.                                                             *)

(* A nil from VerifyCapability proves that the operation and its inverse    *)
(* ran and gave back what was put in (capability.go:71-76); and a           *)
(* configuration that works is not failed by the probe itself, whatever its *)
(* padding (capability.go:368-372).                                         *)
VerifiedMeansWorks ==
  /\ verdict = "ok" => got = "same" /\ ~unwell
  /\ verdict \notin {"none", "ok"} => unwell

(* The check and the trial close what they open.                            *)
NothingLeft == at = "idle" /\ pc = "idle" => handles = 0 /\ ctxs = 0
=============================================================================

------------------------------ MODULE AEADCall ------------------------------
(***************************************************************************)
(* The EVP call sequence of AEAD.SealErr and AEAD.Open (cipher.go), after  *)
(* the closed check: one goroutine making one call after another on one    *)
(* AEAD, with any C call free to fail.                                     *)
(*                                                                         *)
(* The EVP_CIPHER_CTX is external.  It is modelled by what the code and    *)
(* its comments rely on: CCM needs its sizes before the key and its length *)
(* before the AAD, verifies the tag in the data Update and not in Final,   *)
(* and has no tag at all when no data Update is made; the other modes take *)
(* everything in one Init and verify in Final.                             *)
(***************************************************************************)
EXTENDS Naturals

CONSTANT
  TagSizes      \* the tag lengths a caller may configure

\* The tag length an EVP_CIPHER_CTX has when nobody sets one.
DefaultTag(ccm) == IF ccm THEN 12 ELSE 16

VARIABLES
  aead,         \* the handle: CCM or another mode, and its tag length
  call,         \* the running call's arguments
  pc,           \* the C call it is about to make, or "idle"
  ctx,          \* its EVP_CIPHER_CTX
  buf,          \* the scratch buffer of Open: what it holds
  queue,        \* the thread's OpenSSL error queue, by origin of the entries
  reply,        \* what the last call returned, and the entries it carried
  fault         \* a C call failed for reasons of its own

vars == <<aead, call, pc, ctx, buf, queue, reply, fault>>

\* The constructor refuses tag lengths the standards do not allow.
ValidTag(ccm, tag) ==
  IF ccm THEN tag \in 4..16 /\ tag % 2 = 0 ELSE tag \in 12..16

AEADs == {h \in [ccm : BOOLEAN, tag : TagSizes] : ValidTag(h.ccm, h.tag)}

Arguments ==
  [op : {"seal", "open"},
   nonceFits : BOOLEAN,      \* len(nonce) is the configured size
   tagFits : BOOLEAN,        \* Open: len(ciphertext) is at least the tag
   aad : BOOLEAN,            \* there is associated data
   body : BOOLEAN,           \* there is plaintext, or ciphertext before the tag
   intact : BOOLEAN]         \* Open: key, nonce, aad, body and tag match a Seal

\* Only a whole message can be intact; Seal takes no message to inspect.
Calls ==
  {c \in Arguments :
     /\ c.op = "open" /\ c.intact => c.nonceFits /\ c.tagFits
     /\ c.op = "seal" => c.tagFits /\ c.intact}

Ctxs == [keyed : BOOLEAN, tag : TagSizes \cup {12, 16}, hinted : BOOLEAN,
         tagReady : BOOLEAN]

Entries  == {"stale", "own"}
Verdicts == {"none", "ok", "badArgs", "ErrVerification", "Error"}
Steps    == {"idle", "newctx", "init", "initKey", "hint", "aad", "data", "final", "tag"}

TypeOK ==
  /\ aead \in [ccm : BOOLEAN, tag : TagSizes] /\ ValidTag(aead.ccm, aead.tag)
  /\ call \in Calls
  /\ pc \in Steps
  /\ ctx \in Ctxs
  /\ buf \in {"none", "plaintext", "zeroed"}
  /\ queue \in SUBSET Entries
  /\ reply \in [verdict : Verdicts, entries : SUBSET Entries]
  /\ fault \in BOOLEAN

FreshCtx == [keyed |-> FALSE, tag |-> DefaultTag(aead.ccm), hinted |-> FALSE,
             tagReady |-> FALSE]

Init ==
  /\ aead \in AEADs
  /\ call \in Calls
  /\ pc = "idle"
  /\ ctx = FreshCtx
  /\ buf = "none"
  /\ queue \in SUBSET {"stale"}
  /\ reply = [verdict |-> "none", entries |-> {}]
  /\ fault = FALSE

opening == call.op = "open"

-----------------------------------------------------------------------------
(* How a call ends.  newError drains the queue into the error it builds;    *)
(* clearErrors empties it unread.                                           *)

ReturnWith(v, es, q) ==
  /\ pc' = "idle"
  /\ reply' = [verdict |-> v, entries |-> es]
  /\ queue' = q
  /\ UNCHANGED <<aead, call, ctx>>

NewError == ReturnWith("Error", queue \cup {"own"}, {})
Verification == ReturnWith("ErrVerification", {}, {})

(* A failed data Update outside CCM: clearErrors runs before newError.      *)
ErasedError == ReturnWith("Error", {}, {})

-----------------------------------------------------------------------------
(* When the external context refuses.                                       *)

Mismatch == opening /\ (~call.intact \/ ctx.tag # aead.tag)

MustFail(step) ==
  \/ step = "aad" /\ aead.ccm /\ ~ctx.hinted
  \/ step = "data" /\ aead.ccm /\ Mismatch
  \/ step = "final" /\ ~aead.ccm /\ Mismatch
  \/ step = "tag" /\ (~ctx.tagReady \/ ctx.tag # aead.tag)

(* CCM may notice tampering as early as the AAD Update.                     *)
MayNotice(step) == step = "aad" /\ aead.ccm /\ Mismatch

Succeeds(step) == pc = step /\ ~MustFail(step) /\ UNCHANGED fault
Fails(step) ==
  /\ pc = step
  /\ fault' = (fault \/ ~(MustFail(step) \/ MayNotice(step)))

-----------------------------------------------------------------------------
(* The steps of a call.                                                     *)

\* Mutant of AfterAad: no data Update for an empty body, in CCM either.
AfterAadSkipsEmpty == IF call.body THEN "data" ELSE "final"

\* A mode other than CCM has nothing to do for an empty body.
AfterAad == IF call.body \/ aead.ccm THEN "data" ELSE "final"
AfterHint == IF call.aad THEN "aad" ELSE AfterAad
AfterInit == IF aead.ccm THEN "hint" ELSE AfterHint

\* Mutant of Begin: no clearErrors before the first C call.
BeginUncleared(c) ==
  /\ pc = "idle"
  /\ call' = c
  /\ fault' = FALSE
  /\ buf' = "none"
  /\ ctx' = FreshCtx
  /\ pc' = "newctx"
  /\ reply' = [verdict |-> "none", entries |-> {}]
  /\ UNCHANGED <<aead, queue>>

Begin(c) ==
  /\ pc = "idle"
  /\ call' = c
  /\ fault' = FALSE
  /\ buf' = "none"
  /\ ctx' = FreshCtx
  /\ IF ~c.nonceFits
       THEN /\ reply' = [verdict |-> "badArgs", entries |-> {}]
            /\ UNCHANGED <<pc, queue>>
     ELSE IF c.op = "open" /\ ~c.tagFits
       THEN /\ reply' = [verdict |-> "ErrVerification", entries |-> {}]
            /\ UNCHANGED <<pc, queue>>
     ELSE /\ pc' = "newctx"
          /\ queue' = {}
          /\ reply' = [verdict |-> "none", entries |-> {}]
  /\ UNCHANGED aead

Proceed(to, c) ==
  /\ pc' = to
  /\ ctx' = c
  /\ UNCHANGED <<aead, call, queue, reply>>

NewCtx ==
  /\ \/ Succeeds("newctx") /\ Proceed("init", ctx)
     \/ Fails("newctx") /\ NewError
  /\ UNCHANGED buf

\* Mutant of InitSizes: CCM gets its sizes and its key in one call.
InitAtOnce ==
  /\ \/ /\ Succeeds("init")
        /\ Proceed(AfterInit, [ctx EXCEPT !.tag = IF aead.ccm THEN @ ELSE aead.tag,
                                         !.keyed = TRUE])
     \/ Fails("init") /\ NewError
  /\ UNCHANGED buf

(* initEncrypt and initDecrypt.  CCM declares its sizes in a first call and *)
(* gives the key in a second; in one call CCM ignores the sizes silently.   *)
InitSizes ==
  /\ \/ /\ Succeeds("init")
        /\ IF aead.ccm
             THEN Proceed("initKey", [ctx EXCEPT !.tag = aead.tag])
             ELSE Proceed(AfterInit, [ctx EXCEPT !.tag = aead.tag, !.keyed = TRUE])
     \/ Fails("init") /\ NewError
  /\ UNCHANGED buf

InitKey ==
  /\ \/ Succeeds("initKey") /\ Proceed(AfterInit, [ctx EXCEPT !.keyed = TRUE])
     \/ Fails("initKey") /\ NewError
  /\ UNCHANGED buf

LengthHint ==
  /\ \/ Succeeds("hint") /\ Proceed(AfterHint, [ctx EXCEPT !.hinted = TRUE])
     \/ Fails("hint") /\ IF opening THEN Verification ELSE NewError
  /\ UNCHANGED buf

\* Mutant of Aad: the CCM case is forgotten.
AadDetailed ==
  /\ \/ Succeeds("aad") /\ Proceed(AfterAad, ctx)
     \/ Fails("aad") /\ NewError
  /\ UNCHANGED buf

Aad ==
  /\ \/ Succeeds("aad") /\ Proceed(AfterAad, ctx)
     \/ Fails("aad") /\ IF opening /\ aead.ccm THEN Verification ELSE NewError
  /\ UNCHANGED buf

(* Open writes plaintext that nothing has authenticated yet, except in CCM. *)
Data ==
  \/ /\ Succeeds("data")
     /\ Proceed("final", [ctx EXCEPT !.tagReady = TRUE])
     /\ buf' = IF opening /\ call.body THEN "plaintext" ELSE buf
  \/ /\ Fails("data")
     /\ IF ~opening THEN NewError
        ELSE IF aead.ccm THEN Verification
        ELSE ErasedError
     /\ buf' = IF opening THEN "zeroed" ELSE buf

\* Mutant of Final: the scratch buffer is left as it is.
FinalUnwiped ==
  /\ \/ /\ Succeeds("final")
        /\ IF opening
             THEN ReturnWith("ok", {}, queue)
             ELSE Proceed("tag", [ctx EXCEPT !.tagReady = @ \/ ~aead.ccm])
     \/ Fails("final") /\ IF opening THEN Verification ELSE NewError
  /\ UNCHANGED buf

Final ==
  \/ /\ Succeeds("final")
     /\ IF opening
          THEN ReturnWith("ok", {}, queue)
          ELSE Proceed("tag", [ctx EXCEPT !.tagReady = @ \/ ~aead.ccm])
     /\ UNCHANGED buf
  \/ /\ Fails("final")
     /\ IF opening THEN Verification ELSE NewError
     /\ buf' = IF opening THEN "zeroed" ELSE buf

GetTag ==
  /\ \/ Succeeds("tag") /\ ReturnWith("ok", {}, queue)
     \/ Fails("tag") /\ NewError
  /\ UNCHANGED buf

(* Other calls of the package on this thread leave entries behind.          *)
OtherFailure ==
  /\ pc = "idle"
  /\ queue' = queue \cup {"stale"}
  /\ UNCHANGED <<aead, call, pc, ctx, buf, reply, fault>>

CCall ==
  NewCtx \/ InitSizes \/ InitKey \/ LengthHint \/ Aad \/ Data \/ Final \/ GetTag

Next == (\E c \in Calls : Begin(c)) \/ CCall \/ OtherFailure

Spec == Init /\ [][Next]_vars

-----------------------------------------------------------------------------
(* Correctness of a call that has returned.                                 *)

returned == pc = "idle" /\ reply.verdict # "none"
argsFit == call.nonceFits /\ (opening => call.tagFits)

(* Open returns plaintext only for what Seal produced: in every mode, with  *)
(* or without AAD, with or without a body, some C call has checked the tag. *)
Authentic == returned /\ opening /\ reply.verdict = "ok" => call.intact

(* With no fault in the library, Seal always succeeds and Open accepts what *)
(* Seal produced, whatever tag length was configured.                       *)
Accepts ==
  returned /\ argsFit /\ ~fault /\ (opening => call.intact) =>
    reply.verdict = "ok"

(* A forged or damaged message has one answer, ErrVerification, in whichever*)
(* C call it is noticed; in CCM that holds of every failure past the key,   *)
(* so that a remote party cannot tell which call noticed (cipher.go:347).   *)
OneVerdict ==
  returned /\ opening /\ argsFit =>
    /\ ~call.intact /\ ~fault => reply.verdict = "ErrVerification"
    /\ aead.ccm /\ ctx.keyed => reply.verdict \in {"ok", "ErrVerification"}

(* No failed Open leaves decrypted bytes in its scratch buffer.             *)
PlaintextWiped == returned /\ reply.verdict # "ok" => buf # "plaintext"

(* An error reported by Seal carries the entries of the failure it reports  *)
(* and none that an earlier failure left on the thread.                     *)
SealDiagnosed ==
  returned /\ ~opening /\ reply.verdict = "Error" => reply.entries = {"own"}
=============================================================================

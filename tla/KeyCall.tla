------------------------------ MODULE KeyCall ------------------------------
(***************************************************************************)
(* The asymmetric one-shot operations of asym.go: RSA encryption and       *)
(* decryption (OAEP and PKCS#1 v1.5), encapsulation, decapsulation and key *)
(* agreement.  All run one pipeline of C calls on an EVP_PKEY_CTX, any of  *)
(* which may fail: allocate, init, options, size query, operation.  What   *)
(* the module follows through it: the C objects and who must free them,    *)
(* the Go buffer that receives a secret, the error queue and what the      *)
(* caller is told.                                                         *)
(*                                                                         *)
(* A failing C call pushes an entry on the queue; one that succeeds may    *)
(* leave one too (errors.go, clearErrors).  The calling goroutine is taken *)
(* to stay on its thread; ErrorQueue says what happens when it does not.   *)
(***************************************************************************)
EXTENDS FiniteSets

VARIABLES
  pc,           \* Idle, or the call in progress and the C call it makes next
  live,         \* allocated C objects
  labelOwner,   \* who has to free the OAEP label
  doubleFree,   \* an object was freed that was not allocated
  queue,        \* entries on the thread's error queue: this call's, or older
  buffer,       \* what the Go buffer for a secret holds
  result        \* what the last call told its caller

vars == <<pc, live, labelOwner, doubleFree, queue, buffer, result>>

Raw      == {"EncryptPKCS1v15", "DecryptPKCS1v15"}
OAEP     == {"Encrypt", "Decrypt"}
KEM      == {"Encapsulate", "Decapsulate"}
Ops      == Raw \cup OAEP \cup KEM \cup {"Derive"}
Decrypts == {"Decrypt", "DecryptPKCS1v15"}
KeyTypes == {"RSA", "EC", "X25519"}

\* What is wrong with a ciphertext, if anything.
Inputs == {"good", "empty", "badPadding", "otherLabel"}

\* option: an OAEP label, or CofactorMode for Derive.
Calls  == [op : Ops, type : KeyTypes, peer : KeyTypes, option : BOOLEAN,
           input : Inputs]
Steps  == {"ctx", "init", "options", "label", "setLabel", "peer", "size", "run"}

Labelled(c) == c.op \in OAEP /\ c.option

Idle     == [at |-> "idle"]
Aborted  == [at |-> "aborted"]          \* SIGABRT in libcrypto
Entries  == {"own", "older"}
Outcomes == {"ok", "ErrVerification", "Error", "refused"}
NoResult == [none |-> TRUE]

\* The last conjunct: at the operation, a label that was given is in place.
TypeOK ==
  /\ pc \in [at : Steps, call : Calls] \cup {Idle, Aborted}
  /\ live \subseteq {"ctx", "label"}
  /\ labelOwner \in {"nobody", "go", "ctx"}
  /\ doubleFree \in BOOLEAN
  /\ queue \subseteq Entries
  /\ buffer \in {"none", "partial", "zeroed", "returned"}
  /\ result \in [call : Calls, outcome : Outcomes, detail : SUBSET Entries,
                 failedIn : Steps \cup {"none"}] \cup {NoResult}
  /\ pc.at \in {"size", "run"} => (labelOwner = "ctx" <=> Labelled(pc.call))

Init ==
  /\ pc = Idle
  /\ live = {}
  /\ labelOwner = "nobody"
  /\ doubleFree = FALSE
  /\ queue \in SUBSET {"older"}
  /\ buffer = "none"
  /\ result = NoResult

-----------------------------------------------------------------------------
(* How a call ends.                                                         *)

\* Freeing the context frees the label it owns; the Go side frees the rest.
Frees(byHand) == (live \cap {"ctx"}) \cup byHand
                   \cup {x \in {"label"} : labelOwner = "ctx"}

Release(byHand) ==
  /\ live' = live \ Frees(byHand)
  /\ doubleFree' = (doubleFree \/ ~(Frees(byHand) \subseteq live)
                      \/ (byHand # {} /\ labelOwner = "ctx"))
  /\ labelOwner' = "nobody"

Answer(outcome, detail, step) ==
  /\ result' = [call |-> pc.call, outcome |-> outcome, detail |-> detail,
                failedIn |-> step]
  /\ pc' = Idle

\* newError drains the queue into the error, after the C call has pushed.
NewError(pushed, byHand, step) ==
  /\ Release(byHand)
  /\ Answer("Error", queue \cup pushed, step)
  /\ queue' = {}
  /\ UNCHANGED buffer

Goto(step) ==
  /\ pc' = [pc EXCEPT !.at = step]
  /\ \E left \in SUBSET {"own"} : queue' = queue \cup left

At(step) == pc.at = step

-----------------------------------------------------------------------------
(* Entry.                                                                   *)

\* Mutant of Refused: the peers' types are left to libcrypto.
RefusedButPeers(c) ==
  \/ c.op \in Raw \cup OAEP /\ c.type # "RSA"
  \/ c.op = "Derive" /\ c.option /\ c.type # "EC"
  \/ c.op = "Decapsulate" /\ c.input = "empty"

\* requireRSA, the two checks of Derive, and an empty encapsulation.
Refused(c) ==
  \/ c.op \in Raw \cup OAEP /\ c.type # "RSA"
  \/ c.op = "Derive" /\ (c.type # c.peer \/ (c.option /\ c.type # "EC"))
  \/ c.op = "Decapsulate" /\ c.input = "empty"

Begin(c) ==
  /\ pc = Idle
  /\ ~Refused(c)
  /\ ~(c.op \in Decrypts /\ c.input = "empty")
  /\ queue' = {}
  /\ pc' = [at |-> "ctx", call |-> c]
  /\ buffer' = "none"
  /\ UNCHANGED <<live, labelOwner, doubleFree, result>>

\* Refusals come before clearErrors and leave the queue as it is.
Refuse(c) ==
  /\ pc = Idle
  /\ Refused(c) \/ (c.op \in Decrypts /\ c.input = "empty")
  /\ result' = [call |-> c, detail |-> {}, failedIn |-> "none",
                outcome |-> IF Refused(c) THEN "refused" ELSE "ErrVerification"]
  /\ UNCHANGED <<pc, live, labelOwner, doubleFree, queue, buffer>>

NewCtx ==
  /\ At("ctx")
  /\ \/ /\ live' = live \cup {"ctx"}
        /\ Goto("init")
        /\ UNCHANGED <<labelOwner, doubleFree, buffer, result>>
     \/ NewError({"own"}, {}, "ctx")

-----------------------------------------------------------------------------
(* Set-up.                                                                  *)

\* Encapsulate and Decapsulate set an option for RSA only, Derive if asked.
AfterInit(c) ==
  CASE c.op = "Derive" /\ ~c.option     -> "peer"
    [] c.op \in KEM /\ c.type # "RSA"   -> "size"
    [] OTHER                            -> "options"

InitOp ==
  /\ At("init")
  /\ \/ /\ Goto(AfterInit(pc.call))
        /\ UNCHANGED <<live, labelOwner, doubleFree, buffer, result>>
     \/ NewError({"own"}, {}, "init")

\* Padding and digests, the KEM operation, or the cofactor mode.
Options ==
  /\ At("options")
  /\ \/ /\ Goto(CASE Labelled(pc.call)     -> "label"
                 [] pc.call.op = "Derive" -> "peer"
                 [] OTHER                 -> "size")
        /\ UNCHANGED <<live, labelOwner, doubleFree, buffer, result>>
     \/ NewError({"own"}, {}, "options")

\* The label is copied into C memory that the Go side owns until set0
\* succeeds; a failed malloc is reported without a queue.
CopyLabel ==
  /\ At("label")
  /\ \/ /\ live' = live \cup {"label"}
        /\ labelOwner' = "go"
        /\ Goto("setLabel")
        /\ UNCHANGED <<doubleFree, buffer, result>>
     \/ /\ Release({})
        /\ Answer("refused", {}, "label")
        /\ UNCHANGED <<queue, buffer>>

\* Mutant of SetLabel: the label is left to the context even when it refused.
SetLabelKept ==
  /\ At("setLabel")
  /\ \/ /\ labelOwner' = "ctx"
        /\ Goto("size")
        /\ UNCHANGED <<live, doubleFree, buffer, result>>
     \/ NewError({"own"}, {}, "setLabel")

SetLabel ==
  /\ At("setLabel")
  /\ \/ /\ labelOwner' = "ctx"
        /\ Goto("size")
        /\ UNCHANGED <<live, doubleFree, buffer, result>>
     \/ NewError({"own"}, {"label"}, "setLabel")

\* libcrypto asserts that both keys have one key management; the state that
\* kills the process in has no successor.
SetPeer ==
  /\ At("peer")
  /\ \/ /\ pc' = IF pc.call.type = pc.call.peer
                   THEN [pc EXCEPT !.at = "size"] ELSE Aborted
        /\ UNCHANGED <<live, labelOwner, doubleFree, queue, buffer, result>>
     \/ NewError({"own"}, {}, "peer")

-----------------------------------------------------------------------------
(* The size query and the operation.                                        *)

\* Mutant of Fail: a decryption answers ErrVerification, entries left behind.
FailUndrained(step, leaves) ==
  IF pc.call.op \in Decrypts
  THEN /\ Release({})
       /\ Answer("ErrVerification", {}, step)
       /\ queue' = queue \cup {"own"}
       /\ buffer' = leaves
  ELSE /\ Release({})
       /\ Answer("Error", queue \cup {"own"}, step)
       /\ queue' = {}
       /\ buffer' = leaves

\* The decryptions drain the queue and say ErrVerification;
\* EncryptPKCS1v15 drains it too, before newError reads it.
Fail(step, leaves) ==
  /\ Release({})
  /\ IF pc.call.op \in Decrypts THEN Answer("ErrVerification", {}, step)
     ELSE Answer("Error", IF pc.call.op \in Raw THEN {} ELSE queue \cup {"own"}, step)
  /\ queue' = {}
  /\ buffer' = leaves

\* A zero length is an empty plaintext to the decryptions and to
\* EncryptPKCS1v15, and a fault to the others.
Size ==
  /\ At("size")
  /\ \/ /\ Goto("run")
        /\ UNCHANGED <<live, labelOwner, doubleFree, buffer, result>>
     \/ Fail("size", buffer)
     \/ IF pc.call.op \in Raw \cup {"Decrypt"}
        THEN /\ Release({})
             /\ Answer("ok", {}, "none")
             /\ UNCHANGED <<queue, buffer>>
        ELSE NewError({}, {}, "none")

\* OAEP tells a bad ciphertext from a good one; PKCS#1 v1.5 and the KEMs
\* reject implicitly, with a plaintext nobody chose.
Succeeds(c) == c.op = "Decrypt" => c.input = "good"

\* Mutant of Leaves: a failed operation's output is not wiped.
LeavesAll(op) == "partial"

\* What the buffer holds after a failure: encryption and encapsulation do
\* not wipe it.
Leaves(op) ==
  IF op \in Decrypts \cup {"EncryptPKCS1v15", "Decapsulate", "Derive"}
  THEN "zeroed" ELSE "partial"

Run ==
  /\ At("run")
  /\ \/ /\ Succeeds(pc.call)
        /\ Release({})
        /\ Answer("ok", {}, "none")
        /\ \E left \in SUBSET {"own"} : queue' = queue \cup left
        /\ buffer' = "returned"
     \/ Fail("run", Leaves(pc.call.op))

-----------------------------------------------------------------------------
\* Inputs matter to the operations that take a ciphertext, the option to
\* OAEP and Derive, the peer to Derive: the others are enumerated once.
Sensible(c) ==
  /\ c.input # "good" => c.op \in Decrypts \cup {"Decapsulate"}
  /\ c.option => c.op \in OAEP \cup {"Derive"}
  /\ c.op # "Derive" => c.peer = c.type
  /\ c.input = "otherLabel" => c.op = "Decrypt"

Next ==
  \/ \E c \in Calls : Sensible(c) /\ (Begin(c) \/ Refuse(c))
  \/ NewCtx \/ InitOp \/ Options \/ CopyLabel \/ SetLabel \/ SetPeer
  \/ Size \/ Run

Spec == Init /\ [][Next]_vars

-----------------------------------------------------------------------------
(* Correctness.                                                             *)

Answered == pc = Idle /\ result # NoResult

(* The label handed to set0 is freed exactly once, by the context if it     *)
(* took it and by the caller if it did not (asym.go:71-75), and no path of  *)
(* any operation leaks its context.                                         *)
FreedOnce == ~doubleFree /\ (pc = Idle => live = {} /\ labelOwner = "nobody")

(* No call reaches the assertion of libcrypto on keys of different types,   *)
(* which would end the process (asym.go:507-521).                           *)
NeverAborts == pc # Aborted

(* A ciphertext that fails to decrypt is told apart from no other: whatever *)
(* is wrong with it and wherever libcrypto noticed, the caller gets a bare  *)
(* ErrVerification and an empty queue (asym.go:151-156).                    *)
OneRejection ==
  /\ Answered
  /\ result.call.op \in Decrypts
  /\ result.failedIn \in {"size", "run"}
  => result.outcome = "ErrVerification" /\ result.detail = {} /\ queue = {}

(* A recovered secret that is not handed out does not survive the call.     *)
SecretsWiped ==
  /\ Answered
  /\ result.failedIn = "run"
  /\ result.call.op \in Decrypts \cup {"Decapsulate", "Derive"}
  => buffer = "zeroed"
=============================================================================

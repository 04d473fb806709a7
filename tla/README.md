# TLA+ models of ossl-go

ossl-go binds OpenSSL 3.5's libcrypto to Go. Its own logic is not cryptography:
it is who owns which C object, what happens when a C call fails half way, which
state goroutines may share, what a caller is told, and in which order OpenSSL
must be asked. That is what the modules here model. OpenSSL, the Go runtime's
locks and the Go scheduler are external: they are modelled by what the code
relies on, and every such operator is marked in `PROJECT.json`.

Paths below are relative to `src/ossl/`.

## The system

| Component | Files | State | Operations | What is hard |
|---|---|---|---|---|
| AEAD, Cipher, KeyWrap | `cipher.go`, `cipher_sym.go` | fetched `EVP_CIPHER`, key bytes, `closed`, a `sync.RWMutex` | constructor, Seal/Open, Encrypt/Decrypt, Wrap/Unwrap, Close | used by many goroutines, closed by any of them |
| an AEAD call | `cipher.go` | one `EVP_CIPHER_CTX`, a scratch buffer | the sequence of EVP calls | CCM's order of calls, the empty body, what failure says and leaves behind |
| a Cipher or KeyWrap call | `cipher_sym.go` | one `EVP_CIPHER_CTX`, a buffer | Encrypt, Decrypt, Wrap, Unwrap | five paddings, a length that becomes a C int, one rejection |
| Hash, MAC | `digest.go`, `mac.go` | EVP context, copied key, latched `err` | Write, Sum, SumXOF, Reset, Close, one-shot forms | `hash.Hash` gives Sum and Reset no error |
| Key, Signer, Verifier | `pkey.go`, `sign.go`, `sign_digest.go`, `signer.go` | `EVP_PKEY` references, `done` | generate, close, stream, sign, verify | a stream outlives its Key; two encodings; two paths |
| signature options | `sign.go`, `sign_digest.go` | none | check, apply | which option reaches OpenSSL for which key, on three paths |
| RSA encryption, KEM, agreement | `asym.go` | none between calls | encrypt, decrypt, encapsulate, decapsulate, derive | ownership of the OAEP label, one rejection, wiped secrets, an assertion in libcrypto |
| Context, Provider, FIPS | `libctx.go`, `provider.go`, `fips.go` | `OSSL_LIB_CTX`, provider references, the `fips` field | load, unload, config, properties, EnableFIPS, Close | a failed load disables the fallback; a wrong load poisons the process |
| capabilities | `capability.go` | `probes` under `mu` | Supports, VerifyCapability | a memo checked, probed and stored in three steps; a trial that must fail only what does not work |
| key encoding | `pkey_pem.go` | none between calls | Marshal, Parse, Public | what OpenSSL does not check; the Context of the result |
| store | `store.go` | one `OSSL_STORE_CTX` | LoadKey, LoadPublicKey, ListStore | skipped and unreadable objects, an end known late |
| lists | `enumerate.go`, `provider.go` | a C array | List*, Parse*, Providers | fixed room; names that cannot be fetched |
| parameters | `params.go` | a C arena | append, c, free | an array that outlives its call in a MAC |
| Argon2 | `kdf.go` | the context's thread budget under `threadBudget` | Argon2 | check-then-raise |
| secure heap | `secure.go` | the process's arena under `secureHeapMu` | init, done, new, close, used | only half of the operations take the lock |
| error queue | `errors.go` | per thread, OpenSSL's | clearErrors, newError | goroutines change threads |
| names, version, documentation, non-cgo stubs | the rest | none | | see *Not modelled* |

Components meet in three places. Every operation takes a `Context` and passes
its `OSSL_LIB_CTX` (or NULL) to a fetch, so what LibContext serves decides
whether constructors elsewhere succeed: those models leave a fetch free to
succeed or fail. Every failure goes through the error queue, which AEADCall and
KeyCall carry for one thread and ErrorQueue for several. A handle and the
operations on it meet at the handle's lock: SharedHandle follows an operation
from the lock to its C calls, AEADCall and CipherMessage follow the C calls.
VerifyCapability calls the other components, and Trial composes it with
CipherMessage.

## The modules

**Goroutines**, **GoRWMutex**. The goroutines, and `sync.RWMutex`: a writer
announces itself, later readers park, Unlock lets the parked readers in.

**SharedHandle**. AEAD, Cipher and KeyWrap under one discipline. One action per
step a goroutine can be preempted at: `Fetch`, `Refuse`, `Accept` in the
constructor; `OpRLock`, the closed check (`OpRefused`, `OpAdmitted`), the
argument checks, `NewCtx`, `CipherInit`, `KeyInit`, `Process`, then the
deferred calls `FreeCtx`, `OpRUnlock`; `CloseAnnounce`, `CloseWLock`,
`CloseFree`, `CloseZero`, `CloseMark`, `CloseUnlock`. The cipher's reference
count is the set of its holders (`holders`): the handle, and each context that
was initialised with it. `closed`, `cipher` and `key` are the Go fields.

**ClosableHandle**. What those types promise, with no lock, cipher or key in
it: an operation is admitted or refused at one instant, a Close takes effect at
one instant at which nothing admitted is running. SharedHandle refines it
(`KeepsContract`), an operation taking effect at its closed check and Close
where it sets `closed`.

**SharedHandleProofs**. The proofs about SharedHandle and the refinement.

**AEADCall**. SealErr and Open after the closed check, one C call per action.
`ctx` holds what the context has been told (tag length, key, total length),
`buf` what is in Open's scratch buffer, `queue` the thread's error queue as
"own" or "stale" entries. `MustFail` says when libcrypto refuses; any call may
also fail for reasons of its own, and `fault` records it.

**KeyStream**. Keys, streams, one-shot signatures. `refs` is who holds each
`EVP_PKEY`, `absorbed` what each `EVP_MD_CTX` was fed. `BeginStream`, `UpRef`,
`DigestInit`, `Apply` are streamInit's C calls, each of which may fail into
`Undo`. `ToDER` and `Encoding` are p1363ToDER and derToP1363 by what they accept
and produce; `Answer` is the three-way return of EVP_DigestVerify.

**MessageStream**. Hash and MAC. Beside the handle's fields it keeps what the
caller offered, what the context absorbed, and the C objects that are allocated
(`live`). Each call into OpenSSL may fail; Write, Sum and Reset latch `err`
as the code does.

**KeyCall**. The operations of `asym.go` as one pipeline: context, init,
options, OAEP label, size query, operation. `labelOwner` is who must free the
label, `buffer` what the Go buffer for a secret holds, `result` what the caller
was told and the queue entries it carried. Passing peers of different key types
to libcrypto leads to `Aborted`, libcrypto's failed assertion, which `NeverAborts` excludes.

**CipherMessage**. Encrypt, Decrypt, Wrap and Unwrap over messages as sequences
of bytes. A ciphertext is written as what it decrypts to, so `ApplyPadding`,
`RemovePadding` and EVP's own padding (`EVPEncrypt`, `EVPDecrypt`) are all that
happens to a message. `CInt` is the conversion of a length. `New`, `Prepare`,
`Update`, `Final` are `run`'s C calls, each free to fail, and `ReturnEncrypt`,
`ReturnDecrypt` what the operation makes of its result.

**Trial**. VerifyCapability: `Check`, then `Make`, `Protect`, `Recover` for an
AEAD or a key; for a cipher the calls are CipherMessage's, on `Probe`.
`handles` counts what check and trial have open.

**SignOptions**. A key's algorithm, a set of options, and what becomes of them:
`Refused`, `DigestRefused`, `PathRefused` are the package's refusals, `Rejected`
OpenSSL's, `ApplySignOptions` what is set, `Statement` what is signed. `Supported`
is what Supports says of the same options. `Meaning`, in the properties, is read
from the comments on SignOptions and not from the code that applies them.

**KeyCodec**. A Key, an encoding, and the encoder, decoder and copies of one
call (`live`). `WrongKind` is the package's own check, `Structure` what OpenSSL
would encode without it, `Home` the Context in which Public decodes.

**StoreWalk**. A URI as a sequence of objects, and the loop over it. The store
may skip what it was not told to expect, fail on an object, and know its end
with the last object or after it.

**Enumerate**. OpenSSL walks names, the callback appends them to an array of
`Room` places, Go copies it and, for digests and ciphers, confirms each name,
while another goroutine may change the property query. `always` and `ever` are
the names that could be fetched all through the call and at some point of it.

**Params**. The parameter builder: `list` is the array, `arena` what it owns,
`heap` what is allocated, `handed` the array as OpenSSL last saw it. A one-shot
caller hands it over once, a MAC at every Reset.

**MCCalls** and **MCSignatures** put components that share nothing in one run:
a behaviour picks a `subject` and the others stand still.

**LibContext**. Contexts, providers, FIPS. `Ptr` is Context.ptr: a closed
Context and Default both reach the global library context. `fallback`,
`config`, `only`, `refs`, `poisoned` are OpenSSL's state of each library
context; EnableFIPS and Close are split where other calls can come between.

**ThreadBudget**, **SecureHeap**, **ProbeMemo**, **ErrorQueue**. What the
goroutines of a process share besides handles, one action per C call or lock
operation. **MCProcess** puts them in one run.

**ProcessProofs**, **LibContextProofs** and **SignaturesProofs** prove what the runs
of those names check. **MessageProofs**, **KeyProofs**, **CipherProofs** and
**CallsProofs** prove what `calls` checks, component by component.

## What is checked

Each `MC` module instantiates a component for TLC; the constants are in its
`.cfg`. Every property is stated, with the lines it is about, in the component's
module.

| Run | Distinct states | What it shows |
|---|---|---|
| `shared_handle` | 7 401 | No context is given a freed cipher (`NoUseAfterFree`) or a zeroed key (`NoZeroedKey`); references balance whatever fails (`CipherBalanced`); the contract holds (`KeepsContract`); no call waits for ever (`CallsReturn`) |
| `calls` | 472 263 | The nine single-goroutine components, below |
| `signatures` | 595 090 | References and contexts balance in any order of closes and failures; a signature covers its stream; verification accepts nothing else, and all it should (`RoundTrip`); no option is dropped alike by signing and verifying (`OptionsSeparate`); the three paths agree (`PathsAgree`); Supports predicts the operation (`SupportsAgrees`) |
| `lib_context` | 615 153 | Each provider reference has one owner; EnableFIPS keeps the module up, touches its own library context only and never poisons the process; a failed load is neutral |
| `process` | 43 544 | The thread budget a derivation relies on is there; buffers are in the arena and no slot is lost, whatever the race; capability answers were true; errors are the caller's own if goroutines keep their thread; no lock is kept |

The properties of `calls`, and the modules' properties each one is made of:

| Property | Of | What it shows |
|---|---|---|
| `Authentic`, `Accepts` | AEADCall | Open succeeds only on what Seal made, and does if nothing fails |
| `AnswersTell` | AEADCall, KeyCall, CipherMessage | damage has one answer in Open, in Decrypt and in Unwrap, and leaves an empty queue; Seal's errors are its own |
| `SecretsWiped` | AEADCall, KeyCall, CipherMessage | no secret is left in a buffer by a call into OpenSSL that failed |
| `NothingLeaks` | MessageStream, KeyCall, Trial, KeyCodec, StoreWalk, Params | every C object is freed exactly once, and libcrypto's assertion and the builder's panic are out of reach |
| `DigestsComplete` | MessageStream | a context has absorbed what was written while no error is latched; a nil `Err` means that Sum is complete, under the key given at construction; one-shot forms are honest |
| `PaddingInverts` | CipherMessage | what was encrypted comes back, and what decrypts was encrypted, but for the two exceptions it names |
| `VerifiedMeansWorks` | Trial | a nil from VerifyCapability is proof; an error means that something failed, never that the probe was ill chosen |
| `ListsAreExact` | Enumerate | a list is complete or refused, and a digest that is listed could be fetched |
| `EncodingsHonest` | KeyCodec | an encoding has the structure asked for, reads back, and Public keeps its Context |
| `FirstMatch` | StoreWalk | the first key of the asked kind is loaded; "not found" is said only where there is none |
| `ArrayIsWhole` | Params | OpenSSL is handed all parameters and one terminator, in live memory, at every Reset |

**Bounds.** Three goroutines on a handle: a reader in flight, a Close waiting
for it, and a reader parked or a Close queued behind that Close; a fourth adds
no kind of waiter. The proofs remove this bound. AEADCall has no bound but its
tag lengths, one that only CCM allows and the two defaults OpenSSL falls back
to (4, 12 and 16): any sequence of calls is explored. KeyStream: an EC key and a
one-shot-only key, two streams, messages of up to two chunks (`MaxWrites`), so
that one message can be a prefix of another, and a Signer and a Verifier can
meet over one key. LibContext: the default and one private context, two
provider handles, one successful EnableFIPS (`MaxEnables`; two in
`enable_twice`). The two provider handles are interchangeable and taken as a symmetry set: no
property names one of them. MessageStream: one handle, since handles share
nothing, and messages of up to three chunks out of two different ones, so a
lost, repeated or swapped chunk shows. KeyCall and SignOptions have no bound:
every key and every combination of options is tried, and a verification under
the same options or any one of them changed. CipherMessage: a block of two
bytes, messages of up to two blocks (`MaxLen`) over the bytes 0, 1, 2 and 128,
that is, every value a padding uses and one that none does; two blocks are
enough for padding to reach over a block's edge. There `IntBits` is wide
enough for every length; in `length_wraps` it is 2, and a stream mode's message
of four bytes counts as one of none, of five as one of one. Enumerate: two places, three names and walks of
three, so that a list can be short, exactly full, too long, and full but for
duplicates; one change of the property query. StoreWalk: three objects of any
kind, so that one is passed over, one matches and one follows. Params: three
parameters and three initialisations. Process: three goroutines, two arena
slots, a maximum of four lanes (the code's is 1024; only the order of numbers
matters), one reconfiguration, two threads.

**Deadlock** is checked in every run except `signatures` and `calls` and the
violations over them, where a behaviour is one or a few calls and every handle
may have been closed or every bound reached: the system really stops.

**Symmetry** is used in `lib_context` only; no run that checks liveness uses it.

**Fairness.** Safety runs assume none. `shared_handle` assumes weak fairness of
the steps of a goroutine inside the package: the Go scheduler runs it and C
calls return. It assumes strong fairness of `CloseAnnounce`, because writers
compete for a `sync.Mutex`, whose starvation mode hands it over in arrival
order. `process` assumes the same of a goroutine inside Argon2 and of its Lock.
Nothing is assumed about whether callers call.

## Where the code and its documentation disagree

Seven runs end in a violation on purpose; each states what a comment or test says:

- `stream_format`: a Signer accepts Format P1363 and returns DER (`signer.go`,
  against `signer_test.go:359-361`).
- `closed_context`: a call on a closed Context acts on the global library
  context instead of returning ErrClosed (`libctx.go:112`, against
  `errors_common.go:50`).
- `enable_twice`: a second EnableFIPS loses the first provider reference
  (`fips.go:125`, against `fips.go:103`).
- `heap_used`: SecureHeapUsed's check and read are not atomic (`secure.go:98`,
  against `secure.go:92-96`).
- `error_migration`: a goroutine that changes threads between two C calls may
  report another's errors (`errors.go`, against `concurrency_test.go:292-294`).
- `length_wraps`: `C.int(len(in))` takes a message of 4 GiB and n bytes for one
  of n, and Encrypt succeeds over that prefix (`cipher_sym.go:317`, against
  `cipher_sym.go:198`). Seal, Open and the key wraps convert lengths alike.
- `list_unfiltered`: ListMACs lists, and ParseMACName accepts, what no fetch
  finds under the property query in force (`enumerate.go:161`, against
  `enumerate.go:160` and `:268`); ListDigests and ListCiphers confirm theirs.

Smaller ones, met while modelling and visible in the modules, have no run.
Open (`cipher.go:415-419`) and EncryptPKCS1v15 (`asym.go:279-281`, `298-300`)
clear the queue before newError reads it, so the Error has no entry
(`ErasedError`, `Fail`). Err reports the last error latched, not the first
(`Summed`, against `digest.go:199`). Supports repeats an answer after the
context was reconfigured (`Look`, against `capability.go:47`). Decrypt returns
an Error and not ErrVerification when its set-up fails (`KeyCall`, against
`asym.go:151`). A Digest is an error for Sign with an Ed25519 or ML-DSA key and
ignored by SignDigest (`Rejected`; `sign.go:84` says it is ignored); PKCS#1 v1.5
drops a salt length and MGF1 hash it was given (`ApplyRSA`). ISO 7816 padding is
found beyond the last block (`Overrun`). MarshalSEC1 and MarshalPKCS1 of a
closed Key say it is of the wrong type, not that it is closed (`WrongKind`).
An unreadable last object of a store may be reported as "no key found" or be
missing from a list (`LoadNull`). Providers refuses a list that is exactly full,
and a duplicate that arrives when the collector is full counts as an overflow
(`Truncated`, `AppendName`).

Three more are outside the models: Params' Int and UInt narrow a value that
DeriveKDF or a MAC option passes through (`params.go:111`, `:119`); secrets
copied into the parameter arena are freed without being cleansed; and the trial
of AES-XTS uses a key of zeroes, which libcrypto refuses (`capability.go:357`).

## What is proved

TLAPS checks the following for every value of the constants that satisfies the
named assumptions: any goroutines, handles, keys, chunks, names and bytes,
messages, stores and walks of any length, blocks of any size. Every property
that a run expects to hold has a theorem, but for the liveness property
`CallsReturn`. Hardly any is inductive as it stands, so each module strengthens
it first; the strengthenings were given to TLC before they were proved.

*SharedHandleProofs*, for any finite set of goroutines not containing `Nobody`
and a `Handle` that is not one of them. `IndInv` adds three parts to the type
invariant. `LockInv` says which program
counters imply holding the read or write lock, and that a writer past its wait
has no readers. `LifeInv` ties the fields to the program counters: an intact
handle has its cipher and its key, it holds a reference exactly while it is
intact or being validated, an operation past its closed check means `closed` is
false, and only a context between init and free holds a reference. `ResultInv`
says what a goroutine about to return will return. The proof that steps preserve
it has one step per action. From it follow `TypeCorrect`,
`UseAfterFreeImpossible`, `ZeroedKeyImpossible`, `CloseExcludesAll`,
`ReferencesBalance`, `ClosedForGood` and `Refinement`, that every step is a step
of ClosableHandle or leaves its state alone. `CloseIsAlone` and `ClosedIsFinal`
have theorems and no run: the refinement, which is run, implies what a caller
sees of them.

*ProcessProofs*, over `ProcessSpec`. ThreadBudget: the mutex is held exactly
between Lock and Unlock (`MutexHeld`), which is what makes what a goroutine
knows of the budget at each step (`Knowledge`) stay true; `BudgetHolds` and
`BudgetMonotone` follow. SecureHeap: `ArenaBalances` counts the goroutines that
own secure memory or are about to, so that a teardown, which the mutex does not
keep apart from an allocation, is refused while there are any
(`UsedArenaStays`); `BuffersStaySecure` follows. ProbeMemo: whatever is
remembered, found or answered has been true (`MemoInv`), so `AnswersHaveBeenTrue`
although check, probe and store are three steps. ErrorQueue: if nothing migrates
(`~Migrates`) a thread serves one goroutine, whose queue has only what its call
put there (`QueueIsOwn`), so `ErrorsStayOwn`; `error_migration` shows that the
hypothesis is needed.

*LibContextProofs*. `Accounted` is the heart of it: the references of a provider
are those of the callers' handles, one that a Context keeps, one that a running
EnableFIPS holds, and one for each success after the first, which nobody holds.
`Progress` says what a running EnableFIPS or Close knows of its Context, and
`Owns` that a Context that has enabled FIPS and is open keeps its reference until
Close is about to free it. `FIPSIsUp`, `FailedLoadsNeutral` and
`EnableFIPSContained` hold for any `MaxEnables`. `ReferencesHaveOwners` and
`FIPSIsReleased` are for `MaxEnables = 1`, where the last term is zero;
`enable_twice` shows that it must be.

*SignaturesProofs*. `Owned` gives every `EVP_PKEY` reference and `EVP_MD_CTX` an
owner at every step, the stream under construction included, which makes
`KeysBalance` inductive; `Encoded` and `Answered` relate a signature to the path
that made it and an answer to what EVP said, from which `StreamsCover`,
`NothingFalseAccepted` and `SignaturesRoundTrip`. For SignOptions, `Made` and
`Compared` say that an attempt had one of the outcomes its path has for those
options; what remains is about operators alone: `StatementTellsMeaning` (options
that mean different signatures are never the same statement, for one key and
path) and `PathDoesNotShow` (a statement does not tell its path). They give
`OptionsStaySeparate`, `EveryPathAgrees`, `SupportsPredicts`.

*MessageProofs*, *KeyProofs*, *CipherProofs* and *CallsProofs* are one
development over `CallsSpec`, each extending the one before; a projection lemma
for each component reduces a step of the nine subjects to one of that component
or a stutter.

- MessageStream: `Holdings` says that what is allocated is what the open handles
  own and what the constructor would free if it failed; with `KeysKept` and
  `TracksMessage` it gives `DigestsAreComplete`.
- AEADCall: `Running` says what the context has been told at each call (tag
  length before key, CCM's length before its AAD, CCM's tag before Final), and
  `PlaintextHeld` where the scratch buffer may hold plaintext. `OpenIsAuthentic`,
  `OpenAccepts` and `OpenTellsNothing` follow.
- KeyCall: `KeyHoldings` fixes what is allocated and who frees the label by the C
  call that is next; `KeyObjectsFreed` and `KeyRejectsAlike` follow.
- KeyCodec: `CodecStage` keeps a call to the key and blob it began with;
  `EncodingsAreHonest`.
- StoreWalk: `WalkStage` says that a narrowed walk has passed nothing of the asked
  kind and any other has collected all it passed; `FirstIsMatched`, for stores of
  any length.
- Params: allocations are numbered, entries refer to earlier ones, the terminator
  comes with the first use; `ArraysAreWhole`, for any number of parameters.
- Enumerate: the array has every name walked so far or is full (`Collecting`), and
  names are confirmed or still to be (`Confirming`); `ListsAreWhole`, for any
  `Room`, any walk, and any changes of the query.
- CipherMessage and Trial: `CipherInv` and `TrialInv` are about control and
  allocations and hold whatever the lengths. `DataInv` says what a call's argument,
  what it handed to OpenSSL, what was made and what was answered have to do with
  one another. It needs the pure algorithms to be inverse, which is proved
  without recursion: `PowerOfTwo` and `PowerDoubles` count subsets, `NarrowingKeeps`
  says that a length that fits survives `C.int`, `RestFills`, `CutAndJoin` and
  `TakeApart` are about blocks, and `PaddedForm`, `OneSuffix`, `StrippedPads`,
  `UnwrapsKW` and `UnwrapsKWP` about each padding. `RoundTrips` (decrypting what was
  encrypted gives it back) and `OpensHonestly` (what decrypts was encrypted) sum
  them up. `PaddingsInvert`, `VerifiedWorks` and `AllIsEncrypted` follow under
  `LongestFits`, that the longest message with its padding is below
  `2^(IntBits - 1)`; `length_wraps` shows that this is needed.
- Of several components: `AnswersStayAlike`, `SecretsStayWiped`, `NothingIsLeaked`
  and `TypesStayOK`, with no hypothesis on lengths.

**Assumptions**, evaluated by TLC in every run: goroutines and provider handles
are finite sets, bounds are naturals, a block and a C int have a size, the model
values `Nobody`, `NoName`, `Default` and `Handle` are none of the things they stand
beside, EC keys are keys, bytes are naturals, and the trial's probe can be of a
byte no padding uses (it is 0x2a, `capability.go:374`).

**What the proofs found.** `Instance` in SignOptions and `Summed` in MessageStream
were CASE expressions with overlapping guards: TLC takes the first, the logic any.
They are IF now, in the code's order. A conjunct of `ListsAreExact` compared a
Boolean by `=` with a formula; it is an equivalence now. Counting references needs
finite sets, and the sets of goroutines and of handles are now assumed to be.

**Only model-checked**: liveness (`CallsReturn`, in `shared_handle` and in
`process`), which the prover does not handle under fairness, and what the seven
violation runs refute. ENABLED, proofs by induction over data and RECURSIVE
operators are out of the prover's reach; no module here is recursive.

## Assumptions about the outside

- In AEADCall and KeyCall the goroutine stays on its thread for one call;
  ErrorQueue says what happens otherwise.
- A C call that fails pushes an entry on the queue. One that succeeds may leave
  one in KeyCall and ErrorQueue.
- A failed Update absorbs nothing, a finalised context refuses Update and
  Final, and a failed init may leave a context either way.
- A failing `EVP_*Final` of a stream changes nothing (KeyStream).
- `CRYPTO_secure_malloc_done` refuses while anything is allocated; without an
  arena the secure allocator gives ordinary memory.
- A config that activates `fips` activates `default` too, and
  `OSSL_PROVIDER_available` may or may not activate the fallback.
- A decoder takes the structure it is told as a hint: any private encoding of the
  right kind of key will do. A vendor's algorithm may be in one Context only, and
  a token's private key cannot be encoded (KeyCodec).
- A store delivers in order, skips what it was not told to expect except names,
  and may know its end with its last object or only when asked for more.
- Two providers may offer one algorithm; a provider is walked once.
- Ed25519ctx with an empty context is another instance than Ed25519; elsewhere no
  context is the empty one (SignOptions).
- Callers unload a Provider before they close its Context, and do not copy a
  handle or use a non-concurrent one from two goroutines, as the docs require.

## Not modelled

- `names.go`, `doc.go`, `ossl.go`, `nocgo.go`: constants, documentation, a version
  comparison, stubs. They keep no state and decide nothing.
- Of `capability.go`, the availability checks of AEAD and cipher capabilities,
  which are one outcome of `Check`; of `enumerate.go`, ListCurves and the parsers
  that are one query.
- The values of parameters, passphrases of encoded keys, and sizes that are
  arithmetic on one argument (MaxOAEPPlaintext, digest and nonce sizes).
- The content of cryptographic operations: an AEAD's ciphertext is intact or not,
  a cipher's is its padded message, a signature is the statement it was made of.
- GC, finalisers (there are none), and `runtime.KeepAlive`.

## Plan

1. Handles (SharedHandle, ClosableHandle), AEADCall, KeyStream, LibContext, the
   process-wide state, MessageStream, KeyCall; proofs of SharedHandle and
   ThreadBudget. Done.
2. SignOptions, CipherMessage and Trial, KeyCodec, StoreWalk, Enumerate, Params:
   the options, the messages, the resources of one call and the pure algorithms.
   Done.
3. Proofs of the safety properties and action properties of every passing run.
   Done.
4. Proofs of refinement: a reference-counted object as an abstract specification
   that SharedHandle's ciphers, KeyStream's keys and LibContext's providers
   implement, and the budget, the arena and the memo as atomic objects.

----------------------------- MODULE LibContext -----------------------------
(***************************************************************************)
(* Contexts, Providers and FIPS (libctx.go, provider.go, fips.go): which   *)
(* OSSL_LIB_CTX a call reaches, what that library context can serve, and   *)
(* who holds references to providers.                                      *)
(*                                                                         *)
(* OpenSSL is external.  A library context serves the default provider     *)
(* through an implicit fallback until a load turns it off; a config may    *)
(* activate providers or only carry the FIPS module's MAC; loading "fips"  *)
(* with no config puts the module into an error state for the process.  A  *)
(* config that activates "fips" activates "default" too, as the tests' do. *)
(* Whether asking for a provider activates the fallback is left open.      *)
(*                                                                         *)
(* EnableFIPS and Close are several C calls; calls on other contexts, and  *)
(* loads, unloads and queries on the same one, may come between them.      *)
(***************************************************************************)
EXTENDS Naturals, FiniteSets

CONSTANTS
  Contexts,     \* Go contexts made by NewContext or NewFIPSContext
  Default,      \* the Go variable Default, and the global library context
  Handles,      \* *Provider values a caller can hold
  MaxEnables    \* bound: successful EnableFIPS calls on one context

ASSUME DefaultAssumption == Default \notin Contexts
ASSUME HandlesAssumption == IsFiniteSet(Handles)
ASSUME EnablesAssumption == MaxEnables \in Nat \ {0}

\* Every Go Context, and the OSSL_LIB_CTX behind each.
Libs == Contexts \cup {Default}

\* "missing" stands for a module that does not exist.
Providers == {"default", "legacy", "fips", "missing"}

VARIABLES
  ctx,          \* each Context: not made, open or closed
  fips,         \* its fips field is non-nil
  enables,      \* how often EnableFIPS has succeeded on it
  fallback,     \* OSSL: the implicit default provider of a library context
  config,       \* OSSL: the config it has loaded
  only,         \* OSSL: its default property query is fips=yes
  refs,         \* OSSL: explicit references to each of its providers
  poisoned,     \* OSSL: the FIPS module is in its error state
  handle,       \* what each *Provider refers to
  pc,           \* where a running EnableFIPS or Close is
  last          \* the last reply of a call

vars == <<ctx, fips, enables, fallback, config, only, refs, poisoned, handle,
          pc, last>>
ossl == <<fallback, config, only, refs, poisoned>>

NoProvider == [lib |-> "none"]
Idle == [at |-> "idle"]
Nothing == [op |-> "none"]

Running == [at : {"load", "selfTest", "restrict", "undo", "free"}, on : Contexts,
            fresh : BOOLEAN]
Answers == {"ok", "Error", "ErrClosed"}
Replies == [op : {"new", "load", "unload", "config", "properties", "enable",
                  "close"},
            on : Libs, answer : Answers]

TypeOK ==
  /\ ctx \in [Contexts -> {"none", "open", "closed"}]
  /\ fips \in [Contexts -> BOOLEAN]
  /\ enables \in [Contexts -> 0..MaxEnables]
  /\ fallback \in [Libs -> {"implicit", "active", "off"}]
  /\ config \in [Libs -> {"none", "mac", "active"}]
  /\ only \in [Libs -> BOOLEAN]
  /\ refs \in [Libs -> [Providers -> 0..(Cardinality(Handles) + MaxEnables + 1)]]
  /\ poisoned \in BOOLEAN
  /\ handle \in [Handles -> [lib : Libs, name : Providers] \cup {NoProvider}]
  /\ pc \in Running \cup {Idle}
  /\ last \in Replies \cup {Nothing}

Init ==
  /\ ctx = [c \in Contexts |-> "none"]
  /\ fips = [c \in Contexts |-> FALSE]
  /\ enables = [c \in Contexts |-> 0]
  /\ fallback = [l \in Libs |-> "implicit"]
  /\ config = [l \in Libs |-> "none"]
  /\ only = [l \in Libs |-> FALSE]
  /\ refs = [l \in Libs |-> [p \in Providers |-> 0]]
  /\ poisoned = FALSE
  /\ handle = [h \in Handles |-> NoProvider]
  /\ pc = Idle
  /\ last = Nothing

idle == pc = Idle
Reply(o, c, a) == last' = [op |-> o, on |-> c, answer |-> a]

\* Nobody has a Context that is still being made, or uses one being closed.
InTransit(c) == pc # Idle /\ pc.on = c /\ (pc.fresh \/ pc.at = "free")
Usable(c) == c \in Contexts => ctx[c] # "none" /\ ~InTransit(c)

\* Default has no OSSL_LIB_CTX of its own, and a closed Context none any more.
Ptr(c) == IF c \in Contexts /\ ctx[c] = "open" THEN c ELSE Default

-----------------------------------------------------------------------------
(* What an OSSL_LIB_CTX can serve.                                          *)

ServesDefault(l, fb) ==
  fb \in {"implicit", "active"} \/ refs[l]["default"] > 0 \/ config[l] = "active"

FipsUp(l) == ~poisoned /\ (refs[l]["fips"] > 0 \/ config[l] = "active")

\* OSSL_PROVIDER_available may bring the fallback up.
Asked(fb) == IF fb = "implicit" THEN {"implicit", "active"} ELSE {fb}

\* OSSL_PROVIDER_load turns the implicit fallback off, even when it fails.
AfterLoad(fb) == IF fb = "implicit" THEN "off" ELSE fb

\* Success takes a reference; the caller of these says whose it is.
LoadWorks(l, p) ==
  /\ p # "missing"
  /\ p = "fips" => ~poisoned /\ config[l] # "none"
  /\ refs' = [refs EXCEPT ![l][p] = @ + 1]
  /\ \E fb \in Asked(fallback[l]) : fallback' = [fallback EXCEPT ![l] = AfterLoad(fb)]
  /\ UNCHANGED <<config, only, poisoned>>

\* Mutant of LoadFails: the fallback is not restored.
LoadFailsForGood(l, p) ==
  /\ poisoned' = (poisoned \/ (p = "fips" /\ config[l] = "none"))
  /\ \E fb \in Asked(fallback[l]) : fallback' = [fallback EXCEPT ![l] = AfterLoad(fb)]
  /\ UNCHANGED <<config, only, refs>>

(* A failed load, and what LoadProvider then does about the fallback: it is *)
(* brought back only if the default provider was there before.              *)
LoadFails(l, p) ==
  /\ poisoned' = (poisoned \/ (p = "fips" /\ config[l] = "none"))
  /\ \E fb \in Asked(fallback[l]) :
       LET hadDefault == ServesDefault(l, fb)
           lost == hadDefault /\ ~ServesDefault(l, AfterLoad(fb))
       IN  fallback' = [fallback EXCEPT ![l] = IF lost THEN "active" ELSE AfterLoad(fb)]
  /\ UNCHANGED <<config, only, refs>>

Drop(l, p) ==
  /\ refs' = [refs EXCEPT ![l][p] = @ - 1]
  /\ UNCHANGED <<fallback, config, only, poisoned>>

-----------------------------------------------------------------------------
(* Context and Provider.                                                    *)

NewContext(c) ==
  /\ ctx[c] = "none"
  /\ ctx' = [ctx EXCEPT ![c] = "open"]
  /\ Reply("new", c, "ok")
  /\ UNCHANGED <<fips, enables, ossl, handle, pc>>

LoadProvider(c, p, h) ==
  /\ Usable(c)
  /\ handle[h] = NoProvider
  /\ \/ /\ LoadWorks(Ptr(c), p)
        /\ handle' = [handle EXCEPT ![h] = [lib |-> Ptr(c), name |-> p]]
        /\ Reply("load", c, "ok")
     \/ /\ LoadFails(Ptr(c), p)
        /\ Reply("load", c, "Error")
        /\ UNCHANGED handle
  /\ UNCHANGED <<ctx, fips, enables, pc>>

\* The library context still exists.
Live(l) == l \in Contexts => ctx[l] = "open"

\* Mutant of Unload: the pointer is not cleared.
UnloadTwice(h) ==
  /\ handle[h] # NoProvider
  /\ Live(handle[h].lib)
  /\ Drop(handle[h].lib, handle[h].name)
  /\ Reply("unload", handle[h].lib, "ok")
  /\ UNCHANGED <<ctx, fips, enables, handle, pc>>

(* A caller unloads before it closes the context, as it must.               *)
Unload(h) ==
  /\ handle[h] # NoProvider
  /\ Live(handle[h].lib)
  /\ Drop(handle[h].lib, handle[h].name)
  /\ handle' = [handle EXCEPT ![h] = NoProvider]
  /\ Reply("unload", handle[h].lib, "ok")
  /\ UNCHANGED <<ctx, fips, enables, pc>>

LoadConfig(c, kind) ==
  /\ Usable(c)
  /\ \/ /\ config' = [config EXCEPT ![Ptr(c)] =
                        IF "active" \in {@, kind} THEN "active" ELSE kind]
        /\ Reply("config", c, "ok")
     \/ Reply("config", c, "Error") /\ UNCHANGED config
  /\ UNCHANGED <<ctx, fips, enables, fallback, only, refs, poisoned, handle, pc>>

SetDefaultProperties(c, fipsYes) ==
  /\ Usable(c)
  /\ only' = [only EXCEPT ![Ptr(c)] = fipsYes]
  /\ Reply("properties", c, "ok")
  /\ UNCHANGED <<ctx, fips, enables, fallback, config, refs, poisoned, handle, pc>>

-----------------------------------------------------------------------------
(* EnableFIPS, and NewFIPSContext, which closes the context if it fails.    *)

Fail(c) ==
  /\ Reply("enable", c, "Error")
  /\ pc' = IF pc.fresh THEN [pc EXCEPT !.at = "undo"] ELSE Idle
  /\ UNCHANGED <<ctx, fips, enables, handle>>

\* Mutant of EnableBegin: a closed context is not refused.
EnableBeginAnywhere(c, kind, fresh) ==
  /\ idle
  /\ ~fresh => Usable(c) /\ enables[c] < MaxEnables
  /\ fresh => ctx[c] = "none"
  /\ ctx' = IF fresh THEN [ctx EXCEPT ![c] = "open"] ELSE ctx
  /\ LET l == IF fresh THEN c ELSE Ptr(c)
     IN  config' = [config EXCEPT ![l] = IF "active" \in {@, kind} THEN "active" ELSE kind]
  /\ pc' = [at |-> "load", on |-> c, fresh |-> fresh]
  /\ Reply("enable", c, "Error")
  /\ UNCHANGED <<fips, enables, fallback, only, refs, poisoned, handle>>

(* The config comes first: only then is it safe to load the module.         *)
EnableBegin(c, kind, fresh) ==
  /\ idle
  /\ ~fresh => ctx[c] = "open" /\ enables[c] < MaxEnables
  /\ fresh => ctx[c] = "none"
  /\ ctx' = IF fresh THEN [ctx EXCEPT ![c] = "open"] ELSE ctx
  /\ \/ /\ config' = [config EXCEPT ![c] =
                        IF "active" \in {@, kind} THEN "active" ELSE kind]
        /\ pc' = [at |-> "load", on |-> c, fresh |-> fresh]
        /\ last' = Nothing
     \/ /\ pc' = IF fresh THEN [at |-> "undo", on |-> c, fresh |-> TRUE] ELSE Idle
        /\ Reply("enable", c, "Error")
        /\ UNCHANGED config
  /\ UNCHANGED <<fips, enables, fallback, only, refs, poisoned, handle>>

(* Default and closed contexts are refused.                                 *)
EnableRefused(c) ==
  /\ c \in Contexts => ctx[c] = "closed"
  /\ Reply("enable", c, "Error")
  /\ UNCHANGED <<ctx, fips, enables, ossl, handle, pc>>

EnableLoad ==
  /\ pc.at = "load"
  /\ \/ /\ LoadWorks(Ptr(pc.on), "fips")
        /\ pc' = [pc EXCEPT !.at = "selfTest"]
        /\ UNCHANGED <<ctx, fips, enables, handle>>
        /\ last' = Nothing
     \/ LoadFails(Ptr(pc.on), "fips") /\ Fail(pc.on)

\* Mutant of EnableSelfTest: the reference is forgotten when the test fails.
EnableSelfTestLeaks ==
  /\ pc.at = "selfTest"
  /\ \/ /\ pc' = [pc EXCEPT !.at = "restrict"]
        /\ UNCHANGED <<ctx, fips, enables, ossl, handle>>
        /\ last' = Nothing
     \/ UNCHANGED ossl /\ Fail(pc.on)

EnableSelfTest ==
  /\ pc.at = "selfTest"
  /\ \/ /\ pc' = [pc EXCEPT !.at = "restrict"]
        /\ UNCHANGED <<ctx, fips, enables, ossl, handle>>
        /\ last' = Nothing
     \/ Drop(Ptr(pc.on), "fips") /\ Fail(pc.on)

\* Mutant of EnableRestrict: the reference is dropped on success too.
EnableRestrictUnloads ==
  /\ pc.at = "restrict"
  /\ \/ /\ only' = [only EXCEPT ![Ptr(pc.on)] = TRUE]
        /\ refs' = [refs EXCEPT ![Ptr(pc.on)]["fips"] = @ - 1]
        /\ fips' = [fips EXCEPT ![pc.on] = TRUE]
        /\ enables' = [enables EXCEPT ![pc.on] = @ + 1]
        /\ pc' = Idle
        /\ Reply("enable", pc.on, "ok")
        /\ UNCHANGED <<ctx, fallback, config, poisoned, handle>>
     \/ Drop(Ptr(pc.on), "fips") /\ Fail(pc.on)

EnableRestrict ==
  /\ pc.at = "restrict"
  /\ \/ /\ only' = [only EXCEPT ![Ptr(pc.on)] = TRUE]
        /\ fips' = [fips EXCEPT ![pc.on] = TRUE]
        /\ enables' = [enables EXCEPT ![pc.on] = @ + 1]
        /\ pc' = Idle
        /\ Reply("enable", pc.on, "ok")
        /\ UNCHANGED <<ctx, fallback, config, refs, poisoned, handle>>
     \/ Drop(Ptr(pc.on), "fips") /\ Fail(pc.on)

-----------------------------------------------------------------------------
(* Close: the provider reference, then the library context.                 *)

CloseProvider(c) ==
  /\ \/ idle /\ Usable(c)
     \/ pc.at = "undo" /\ pc.on = c
  /\ IF fips[c] THEN Drop(c, "fips") ELSE UNCHANGED ossl
  /\ fips' = [fips EXCEPT ![c] = FALSE]
  /\ pc' = [at |-> "free", on |-> c, fresh |-> FALSE]
  /\ last' = Nothing
  /\ UNCHANGED <<ctx, enables, handle>>

CloseFree ==
  /\ pc.at = "free"
  /\ ctx' = [ctx EXCEPT ![pc.on] = "closed"]
  /\ pc' = Idle
  /\ Reply("close", pc.on, "ok")
  /\ UNCHANGED <<fips, enables, ossl, handle>>

-----------------------------------------------------------------------------
Next ==
  \/ \E c \in Contexts : NewContext(c) \/ CloseProvider(c)
  \/ \E c \in Libs, p \in Providers, h \in Handles : LoadProvider(c, p, h)
  \/ \E h \in Handles : Unload(h)
  \/ \E c \in Libs, kind \in {"mac", "active"} : LoadConfig(c, kind)
  \/ \E c \in Libs, fipsYes \in BOOLEAN : SetDefaultProperties(c, fipsYes)
  \/ \E c \in Libs : EnableRefused(c)
  \/ \E c \in Contexts, kind \in {"mac", "active"}, fresh \in BOOLEAN :
       EnableBegin(c, kind, fresh)
  \/ EnableLoad \/ EnableSelfTest \/ EnableRestrict \/ CloseFree

Spec == Init /\ [][Next]_vars

-----------------------------------------------------------------------------
(* Correctness.                                                             *)

\* The running EnableFIPS holds a reference between its load and its end.
Holding(l) == pc.at \in {"selfTest", "restrict"} /\ Ptr(pc.on) = l

Count(S) == Cardinality(S)

(* Every provider reference has one owner, an unreleased *Provider, the     *)
(* fips field of a Context or a running EnableFIPS: no failure of EnableFIPS*)
(* or NewFIPSContext leaks one, and Close releases its own exactly once.    *)
ReferencesBalance ==
  \A l \in Libs, p \in Providers :
    refs[l][p] = Count({h \in Handles : handle[h] = [lib |-> l, name |-> p]})
               + Count({c \in Contexts : p = "fips" /\ fips[c] /\ c = l})
               + Count({x \in {l} : p = "fips" /\ Holding(x)})

(* The reference EnableFIPS took keeps the module in the context, whatever  *)
(* providers callers unload, and never outlives the library context         *)
(* (libctx.go:29-32, 95-96).                                                *)
FIPSStaysUp == \A c \in Contexts : fips[c] => ctx[c] = "open" /\ (poisoned \/ FipsUp(c))

(* A failed load takes nothing away and adds nothing: the default provider  *)
(* serves a library context after it exactly if it did before, and so a     *)
(* narrowed context stays narrow (provider.go:84-99).                       *)
FailedLoadIsNeutral ==
  [][last'.op = "load" /\ last'.answer = "Error" =>
       \A l \in Libs : ServesDefault(l, fallback[l])' = ServesDefault(l, fallback[l])]_vars

(* EnableFIPS touches its own library context only, and however it fails it *)
(* never leaves the FIPS module in its process-wide error state (fips.go:   *)
(* 83-101); that takes a bare LoadProvider("fips").                         *)
EnableFIPSIsContained ==
  [][EnableLoad \/ EnableSelfTest \/ EnableRestrict =>
       /\ poisoned' = poisoned
       /\ only'[Default] = only[Default]
       /\ refs'[Default] = refs[Default]]_vars

(* errors_common.go: ErrClosed is returned by methods on a resource whose   *)
(* Close has run.  Stated of the calls that take or change a context.       *)
ClosedContextRefuses ==
  [][\A c \in Contexts :
       ctx[c] = "closed" /\ last' # Nothing
         /\ last'.on = c /\ last'.op \notin {"close", "unload"} => last'.answer = "ErrClosed"]_vars

(* fips.go: the context keeps the provider reference and releases it on     *)
(* Close.                                                                   *)
FIPSReferenceReleased ==
  \A c \in Contexts :
    ctx[c] = "closed" /\ (\A h \in Handles : handle[h] # [lib |-> c, name |-> "fips"]) =>
      refs[c]["fips"] = 0
=============================================================================

------------------------------ MODULE ProbeMemo ------------------------------
(***************************************************************************)
(* The memo behind Context.Supports (capability.go: probe, curveUsable),   *)
(* for one question about one Context shared by goroutines: the lock is    *)
(* held to read the memo and to write it, not while the question is put to *)
(* OpenSSL.                                                                *)
(*                                                                         *)
(* What the true answer is depends on the context's providers and property *)
(* query, so any call that changes those may change it; no such call       *)
(* touches the memo.                                                       *)
(***************************************************************************)
EXTENDS Naturals

CONSTANTS
  Goroutines,
  MaxChanges    \* bound: how often the context is reconfigured

Answers == {"yes", "no"}

VARIABLES
  truth,        \* OSSL: can this context generate a key on the curve?
  changes,      \* how often that may have changed so far
  memo,         \* probes[key], once there is one
  pc,           \* where each goroutine is in probe
  found,        \* its local err
  reply,        \* what its last Supports answered
  held          \* history: the answers that have been true so far

vars == <<truth, changes, memo, pc, found, reply, held>>

TypeOK ==
  /\ truth \in Answers
  /\ changes \in 0..MaxChanges
  /\ memo \in Answers \cup {"unasked"}
  /\ pc \in [Goroutines -> {"idle", "look", "run", "store"}]
  /\ found \in [Goroutines -> Answers]
  /\ reply \in [Goroutines -> Answers \cup {"none"}]
  /\ held \in SUBSET Answers

Init ==
  /\ truth \in Answers
  /\ changes = 0
  /\ memo = "unasked"
  /\ pc = [g \in Goroutines |-> "idle"]
  /\ found = [g \in Goroutines |-> "yes"]
  /\ reply = [g \in Goroutines |-> "none"]
  /\ held = {truth}

Goto(g, from, to) == pc[g] = from /\ pc' = [pc EXCEPT ![g] = to]
Return(g, r) == reply' = [reply EXCEPT ![g] = r]

(* LoadProvider, Unload, LoadConfig, SetDefaultProperties, EnableFIPS.      *)
Reconfigure ==
  /\ changes < MaxChanges
  /\ changes' = changes + 1
  /\ truth' \in Answers
  /\ held' = held \cup {truth'}
  /\ UNCHANGED <<memo, pc, found, reply>>

Ask(g) ==
  /\ Goto(g, "idle", "look")
  /\ Return(g, "none")
  /\ UNCHANGED <<truth, changes, memo, found, held>>

\* Mutant of Look: what the map gives for a missing key, nil, is an answer.
LookUnseen(g) ==
  /\ Goto(g, "look", "idle")
  /\ Return(g, IF memo = "unasked" THEN "yes" ELSE memo)
  /\ UNCHANGED <<truth, changes, memo, found, held>>

Look(g) ==
  /\ \/ memo = "unasked" /\ Goto(g, "look", "run") /\ UNCHANGED reply
     \/ memo # "unasked" /\ Goto(g, "look", "idle") /\ Return(g, memo)
  /\ UNCHANGED <<truth, changes, memo, found, held>>

Run(g) ==
  /\ Goto(g, "run", "store")
  /\ found' = [found EXCEPT ![g] = truth]
  /\ UNCHANGED <<truth, changes, memo, reply, held>>

Store(g) ==
  /\ Goto(g, "store", "idle")
  /\ memo' = found[g]
  /\ Return(g, found[g])
  /\ UNCHANGED <<truth, changes, found, held>>

Next == Reconfigure \/ \E g \in Goroutines : Ask(g) \/ Look(g) \/ Run(g) \/ Store(g)

Spec == Init /\ [][Next]_vars

-----------------------------------------------------------------------------
(* Correctness.                                                             *)

(* Every answer Supports gives, remembered or found by probing, has been    *)
(* true of this context at some time, whoever else is asking and whoever    *)
(* reconfigures it meanwhile; while nobody does, it is true now             *)
(* (libctx.go:35-39, capability.go:471-489).                                *)
AnswersWereTrue == \A g \in Goroutines : reply[g] # "none" => reply[g] \in held
=============================================================================

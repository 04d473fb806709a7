--------------------------- MODULE ClosableHandle ---------------------------
(***************************************************************************)
(* What AEAD, Cipher and KeyWrap promise a caller that shares one handle   *)
(* among goroutines, with no lock, cipher or key in sight                  *)
(* (cipher.go:35-39 and 480-483, cipher_sym.go:70-71 and 441):             *)
(*                                                                         *)
(*  - an operation takes effect at one instant, at which it is admitted if *)
(*    the handle is open and refused with ErrClosed if it is closed;       *)
(*  - a Close takes effect at one instant between its call and its return, *)
(*    at which no admitted operation is still running;                     *)
(*  - a handle, once closed, stays closed.                                 *)
(***************************************************************************)
CONSTANT Goroutines

VARIABLES
  status,    \* where each goroutine's call stands
  answer,    \* what its last call returned, "none" while a call is running
  created,
  closed

vars == <<status, answer, created, closed>>

Status == {"idle", "making", "asking", "admitted", "refused", "closing", "closed"}

Init ==
  /\ status = [g \in Goroutines |-> "idle"]
  /\ answer = [g \in Goroutines |-> "none"]
  /\ created = FALSE
  /\ closed = FALSE

Move(g, from, to) == status[g] = from /\ status' = [status EXCEPT ![g] = to]
Answer(g, a) == answer' = [answer EXCEPT ![g] = a]

Call(g) ==
  /\ \/ ~created /\ Move(g, "idle", "making")
     \/ created /\ Move(g, "idle", "asking")
     \/ created /\ Move(g, "idle", "closing")
  /\ Answer(g, "none")
  /\ UNCHANGED <<created, closed>>

AskNil(g) ==
  /\ ~created
  /\ status[g] = "idle"
  /\ Answer(g, "ErrClosed")
  /\ UNCHANGED <<status, created, closed>>

Make(g) ==
  /\ Move(g, "making", "idle")
  /\ \/ Answer(g, "ok") /\ created' = TRUE
     \/ Answer(g, "err") /\ UNCHANGED created
  /\ UNCHANGED closed

Admit(g) ==
  /\ ~closed
  /\ Move(g, "asking", "admitted")
  /\ UNCHANGED <<answer, created, closed>>

RefuseClosed(g) ==
  /\ closed
  /\ Move(g, "asking", "refused")
  /\ UNCHANGED <<answer, created, closed>>

Reply(g) ==
  /\ \/ Move(g, "admitted", "idle") /\ (Answer(g, "ok") \/ Answer(g, "err"))
     \/ Move(g, "refused", "idle") /\ Answer(g, "ErrClosed")
  /\ UNCHANGED <<created, closed>>

TakeEffect(g) ==
  /\ \A h \in Goroutines : status[h] # "admitted"
  /\ Move(g, "closing", "closed")
  /\ closed' = TRUE
  /\ UNCHANGED <<answer, created>>

CloseReturn(g) ==
  /\ Move(g, "closed", "idle")
  /\ Answer(g, "ok")
  /\ UNCHANGED <<created, closed>>

Next ==
  \E g \in Goroutines :
    \/ Call(g) \/ AskNil(g) \/ Make(g)
    \/ Admit(g) \/ RefuseClosed(g) \/ Reply(g)
    \/ TakeEffect(g) \/ CloseReturn(g)

Spec == Init /\ [][Next]_vars
=============================================================================

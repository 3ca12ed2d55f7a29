---------------------------- MODULE DurableStore ----------------------------
(***************************************************************************)
(* What a store promises to the services that call it: the calls stand in  *)
(* a line, and each one, when it comes to its head, either takes effect as *)
(* a whole and for good or fails without a trace.  What took effect is     *)
(* always a valid state.  If the process dies, the calls still in line are *)
(* lost and nothing else is.                                               *)
(***************************************************************************)
EXTENDS Sequences

CONSTANTS
  Callers,      \* the service calls that may be under way at the same time
  Requests,     \* what a call asks for: a function from records to new values
  ValidStates,  \* the states validatedGraphStateSnapshot accepts
  InitState     \* the state of a new store

VARIABLES
  stored,  \* the state that survives
  line,    \* the callers that wait for an answer, first come first
  asked,   \* the request of each caller
  answer   \* the answer to the last call of each caller, or "none"

vars == <<stored, line, asked, answer>>

Waiting(c) == \E i \in DOMAIN line : line[i] = c

\* The state after the writes of W.
Apply(s, W) == [k \in DOMAIN s |-> IF k \in DOMAIN W THEN W[k] ELSE s[k]]

Init ==
  /\ stored = InitState
  /\ line = <<>>
  /\ asked \in [Callers -> Requests]
  /\ answer = [c \in Callers |-> "none"]

Call(c) == \E W \in Requests :
  /\ ~Waiting(c)
  /\ line' = Append(line, c)
  /\ asked' = [asked EXCEPT ![c] = W]
  /\ answer' = [answer EXCEPT ![c] = "none"]
  /\ UNCHANGED stored

\* The store is being closed and takes no call.
Refuse(c) ==
  /\ ~Waiting(c)
  /\ answer' = [answer EXCEPT ![c] = "failed"]
  /\ UNCHANGED <<stored, line, asked>>

Leave(c, result) ==
  /\ line # <<>> /\ c = Head(line)
  /\ line' = Tail(line)
  /\ answer' = [answer EXCEPT ![c] = result]
  /\ UNCHANGED asked

Succeed(c) ==
  /\ Leave(c, "ok")
  /\ stored' = Apply(stored, asked[c])
  /\ stored' \in ValidStates

Fail(c) == Leave(c, "failed") /\ UNCHANGED stored

Die ==
  /\ line' = <<>>
  /\ answer' = [c \in Callers |-> "none"]
  /\ UNCHANGED <<stored, asked>>

Next == Die \/ \E c \in Callers : Call(c) \/ Refuse(c) \/ Succeed(c) \/ Fail(c)

Spec == Init /\ [][Next]_vars
=============================================================================

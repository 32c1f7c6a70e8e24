--------------------------- MODULE InferenceGate ---------------------------
(***************************************************************************)
(* runInference (internal/service/handler.go): requests share one embedding *)
(* model.  A channel of capacity one admits a call at a time, a goroutine  *)
(* runs it and gives the place back, and a request that times out looks at *)
(* how long the model has been held: if it is stuck, the server exits for  *)
(* its supervisor to restart it.                                           *)
(*                                                                         *)
(* A timed-out request leaves its goroutine behind, which still holds the  *)
(* place; the goroutine clears heldSince and frees the place in two steps. *)
(***************************************************************************)
EXTENDS Naturals

CONSTANTS
  Callers,      \* requests that need a vector, one at a time each
  Goroutines,   \* goroutines that can exist at once
  StuckAfter,   \* six timeouts
  Nil

ASSUME StuckAssumption == StuckAfter \in Nat

VARIABLES
  caller,      \* what a request does: idle, queued, admitted or waiting
  gate,        \* whether inferenceGate is full
  heldSince,   \* Nil (0 in the code) or the age of the time stored
  goroutine,   \* [state, age, answers]: the call, and the request it answers
  answered     \* requests whose result is in their channel

vars == <<caller, gate, heldSince, goroutine, answered>>

NoGoroutine == [state |-> "none", age |-> 0, answers |-> Nil]

\* Ages beyond the limit are alike.
Older(age) == IF age <= StuckAfter THEN age + 1 ELSE age

Init ==
  /\ caller = [c \in Callers |-> "idle"]
  /\ gate = FALSE
  /\ heldSince = Nil
  /\ goroutine = [g \in Goroutines |-> NoGoroutine]
  /\ answered = {}

Ask(c) ==
  /\ caller[c] = "idle"
  /\ caller' = [caller EXCEPT ![c] = "queued"]
  /\ UNCHANGED <<gate, heldSince, goroutine, answered>>

\* inferenceGate <- struct{}{}
Enter(c) ==
  /\ caller[c] = "queued" /\ ~gate
  /\ gate' = TRUE
  /\ caller' = [caller EXCEPT ![c] = "admitted"]
  /\ UNCHANGED <<heldSince, goroutine, answered>>

\* heldSince.Store(now), then the goroutine.
Hold(c, g) ==
  /\ caller[c] = "admitted" /\ goroutine[g].state = "none"
  /\ heldSince' = 0
  /\ goroutine' = [goroutine EXCEPT ![g] = [state |-> "running", age |-> 0, answers |-> c]]
  /\ caller' = [caller EXCEPT ![c] = "waiting"]
  /\ UNCHANGED <<gate, answered>>

\* The model answers, perhaps a request that no longer waits.
Returns(g) ==
  /\ goroutine[g].state = "running"
  /\ goroutine' = [goroutine EXCEPT ![g].state = "clearing", ![g].answers = Nil]
  /\ answered' = answered \cup ({goroutine[g].answers} \ {Nil})
  /\ UNCHANGED <<caller, gate, heldSince>>

\* Mutant: the place is given back first, and heldSince cleared afterwards.
Leave_Swapped(g) ==
  /\ \/ /\ goroutine[g].state = "clearing"
        /\ gate' = FALSE
        /\ goroutine' = [goroutine EXCEPT ![g].state = "leaving"]
        /\ UNCHANGED heldSince
     \/ /\ goroutine[g].state = "leaving"
        /\ heldSince' = Nil
        /\ goroutine' = [goroutine EXCEPT ![g] = NoGoroutine]
        /\ UNCHANGED gate
  /\ UNCHANGED <<caller, answered>>

\* Mutant: heldSince keeps the time of the last call.
Leave_NotCleared(g) ==
  /\ goroutine[g].state = "clearing"
  /\ gate' = FALSE
  /\ goroutine' = [goroutine EXCEPT ![g] = NoGoroutine]
  /\ UNCHANGED <<caller, heldSince, answered>>

\* The goroutine's deferred heldSince.Store(0) and <-inferenceGate.
Leave(g) ==
  /\ \/ /\ goroutine[g].state = "clearing"
        /\ heldSince' = Nil
        /\ goroutine' = [goroutine EXCEPT ![g].state = "leaving"]
        /\ UNCHANGED gate
     \/ /\ goroutine[g].state = "leaving"
        /\ gate' = FALSE
        /\ goroutine' = [goroutine EXCEPT ![g] = NoGoroutine]
        /\ UNCHANGED heldSince
  /\ UNCHANGED <<caller, answered>>

Receive(c) ==
  /\ c \in answered
  /\ caller' = [caller EXCEPT ![c] = "idle"]
  /\ answered' = answered \ {c}
  /\ UNCHANGED <<gate, heldSince, goroutine>>

Stuck == heldSince # Nil /\ heldSince > StuckAfter

\* The goroutines whose result nobody receives any more.
Abandons(c) ==
  goroutine' = [g \in Goroutines |->
    IF goroutine[g].answers = c THEN [goroutine[g] EXCEPT !.answers = Nil] ELSE goroutine[g]]

\* Mutant: a request that gives up frees the place it was admitted to.
TimesOut_Frees(c) ==
  /\ caller[c] \in {"queued", "waiting"}
  /\ ~Stuck
  /\ caller' = [caller EXCEPT ![c] = "idle"]
  /\ answered' = answered \ {c}
  /\ gate' = IF caller[c] = "waiting" THEN FALSE ELSE gate
  /\ Abandons(c)
  /\ UNCHANGED heldSince

\* The request's time is over or its client is gone.
TimesOut(c) ==
  /\ caller[c] \in {"queued", "waiting"}
  /\ ~Stuck
  /\ caller' = [caller EXCEPT ![c] = "idle"]
  /\ answered' = answered \ {c}
  /\ Abandons(c)
  /\ UNCHANGED <<gate, heldSince>>

\* A new process knows nothing of the old one's requests and calls.
Restarts ==
  /\ caller' = [d \in Callers |-> "idle"]
  /\ gate' = FALSE
  /\ heldSince' = Nil
  /\ goroutine' = [g \in Goroutines |-> NoGoroutine]
  /\ answered' = {}

\* The same, when the model looks stuck: the process exits and is restarted.
Exits(c) ==
  /\ caller[c] \in {"queued", "waiting"}
  /\ Stuck
  /\ Restarts

Tick ==
  /\ heldSince' = IF heldSince = Nil THEN Nil ELSE Older(heldSince)
  /\ goroutine' = [g \in Goroutines |->
       IF goroutine[g].state = "none" THEN goroutine[g] ELSE [goroutine[g] EXCEPT !.age = Older(@)]]
  /\ UNCHANGED <<caller, gate, answered>>

Next ==
  \/ \E c \in Callers : Ask(c) \/ Enter(c) \/ Receive(c) \/ TimesOut(c) \/ Exits(c)
  \/ \E c \in Callers, g \in Goroutines : Hold(c, g)
  \/ \E g \in Goroutines : Returns(g) \/ Leave(g)
  \/ Restarts
  \/ Tick

Spec == Init /\ [][Next]_vars

----------------------------------------------------------------------------
\* "Timed-out calls cannot overlap": however many requests gave up, at most one
\* call is in the model.
NoOverlap ==
  \A g, h \in Goroutines : goroutine[g].state = "running" /\ goroutine[h].state = "running" => g = h

\* "Requests merely queued behind a slow call never trigger this": the process
\* exits only if one and the same call has held the model for too long, however
\* the stores to heldSince interleave with the next call.
ExitJustified ==
  [][\A c \in Callers : Exits(c) =>
       \E g \in Goroutines : goroutine[g].state # "none" /\ goroutine[g].age > StuckAfter]_vars
============================================================================

------------------------------ MODULE Service ------------------------------
(***************************************************************************)
(* Agents save and search through their bridges (internal/client,          *)
(* adapter.go and remote.go), which forward one request at a time and give *)
(* up after five seconds; the server's handlers (internal/service,         *)
(* handler.go) embed under the inference gate and then ask the store.      *)
(*                                                                         *)
(* A bridge that gave up leaves its request behind: it may still arrive,   *)
(* run and be committed while the agent sends the same request again, and  *)
(* the server may exit or be restarted at any step.                        *)
(***************************************************************************)
EXTENDS InferenceGate, Sequences, Functions

CONSTANTS
  Agents,     \* agents' sessions, a bridge each
  Stores,     \* request IDs of the store tool, which embeds the text it saves
  Archives,   \* request IDs of the archive tool, which needs no vector
  Search      \* the search tool, which embeds the query if it can

Writes == Stores \cup Archives
Requests == Writes \cup {Search}

ASSUME RequestAssumption == Stores \cap Archives = {} /\ Search \notin Writes /\ Nil \notin Callers

VARIABLES
  bridge,     \* bridge[a]: the exchange (of Callers) its agent waits for, or Nil
  handler,    \* handler[c]: [at, request], how far the exchange has come
  stored,     \* the writes the database holds, in order
  told        \* told[a]: writes whose receipt reached the agent

svars == <<vars, bridge, handler, stored, told>>

Free == [at |-> "free", request |-> Nil]
Goes(c, place) == handler' = [handler EXCEPT ![c].at = place]

ServiceInit ==
  /\ Init
  /\ bridge = [a \in Agents |-> Nil]
  /\ handler = [c \in Callers |-> Free]
  /\ stored = <<>>
  /\ told = [a \in Agents |-> {}]

\* The agent writes a line, perhaps a request it has sent before.
Send(a, c, r) ==
  /\ bridge[a] = Nil /\ handler[c] = Free /\ caller[c] = "idle"
  /\ bridge' = [bridge EXCEPT ![a] = c]
  /\ handler' = [handler EXCEPT ![c] = [at |-> "sent", request |-> r]]
  /\ UNCHANGED <<vars, stored, told>>

\* The server takes the request: archive goes to the store, the others embed.
Arrive(c) ==
  /\ handler[c].at = "sent"
  /\ \/ /\ handler[c].request \in Archives
        /\ Goes(c, "ready")
        /\ UNCHANGED vars
     \/ /\ handler[c].request \notin Archives
        /\ Goes(c, "embedding")
        /\ Ask(c)
  /\ UNCHANGED <<bridge, stored, told>>

\* A message that never arrives, or that the server rejects.
Rejected(c) ==
  /\ handler[c].at = "sent"
  /\ Goes(c, "failed")
  /\ UNCHANGED <<vars, bridge, stored, told>>

\* The handler has its vector.
Embedded(c) ==
  /\ handler[c].at = "embedding"
  /\ Receive(c)
  /\ Goes(c, "ready")
  /\ UNCHANGED <<bridge, stored, told>>

\* Without a vector a store fails, a search goes on by wording alone; the model may
\* also answer with an error.
Unembedded(c) ==
  /\ handler[c].at = "embedding"
  /\ TimesOut(c) \/ Receive(c)
  /\ Goes(c, IF handler[c].request = Search THEN "ready" ELSE "failed")
  /\ UNCHANGED <<bridge, stored, told>>

\* Mutant: the request ID is looked up before embedding, outside the transaction.
Commit_NoReplay(c) ==
  /\ handler[c].at = "ready"
  /\ Goes(c, "done")
  /\ stored' = IF handler[c].request \in Writes THEN Append(stored, handler[c].request) ELSE stored
  /\ UNCHANGED <<vars, bridge, told>>

\* The transaction: a request the store has seen replays its receipt.
Commit(c) ==
  /\ handler[c].at = "ready"
  /\ Goes(c, "done")
  /\ stored' = IF handler[c].request \in Writes \ Range(stored)
               THEN Append(stored, handler[c].request) ELSE stored
  /\ UNCHANGED <<vars, bridge, told>>

\* The transaction is refused, fails or is cancelled with its request.
Refuse(c) ==
  /\ handler[c].at = "ready"
  /\ Goes(c, "failed")
  /\ UNCHANGED <<vars, bridge, stored, told>>

\* The agent holds a receipt when the reply is one.
Learns(a, c) ==
  told' = IF handler[c].at = "done" /\ handler[c].request \in Writes
          THEN [told EXCEPT ![a] = @ \cup {handler[c].request}] ELSE told

\* The answer reaches the bridge that waits for it, as a receipt or as an error.
Answer(a, c) ==
  /\ handler[c].at \in {"done", "failed"}
  /\ bridge[a] = c
  /\ Learns(a, c)
  /\ bridge' = [bridge EXCEPT ![a] = Nil]
  /\ handler' = [handler EXCEPT ![c] = Free]
  /\ UNCHANGED <<vars, stored>>

\* Nobody waits for the answer any more.
Unheard(c) ==
  /\ handler[c].at \in {"done", "failed"}
  /\ \A a \in Agents : bridge[a] # c
  /\ handler' = [handler EXCEPT ![c] = Free]
  /\ UNCHANGED <<vars, bridge, stored, told>>

\* Five seconds have passed: the agent is told that nothing was acknowledged.
GivesUp(a) ==
  /\ bridge[a] # Nil
  /\ bridge' = [bridge EXCEPT ![a] = Nil]
  /\ UNCHANGED <<vars, handler, stored, told>>

\* Every handler of the old process is gone, and its connections with it; what is
\* on its way arrives at the new one.
Drops ==
  /\ handler' = [c \in Callers |-> IF handler[c].at = "sent" THEN handler[c] ELSE Free]
  /\ bridge' = [a \in Agents |->
       IF bridge[a] # Nil /\ handler[bridge[a]].at # "sent" THEN Nil ELSE bridge[a]]
  /\ UNCHANGED <<stored, told>>

\* The supervisor or an upgrade restarts the server.
Restart == Restarts /\ Drops

Unchanged == UNCHANGED <<bridge, handler, stored, told>>

ServiceNext ==
  \/ \E a \in Agents, c \in Callers, r \in Requests : Send(a, c, r)
  \/ \E c \in Callers : \/ Arrive(c) \/ Rejected(c) \/ Embedded(c) \/ Unembedded(c)
                        \/ Commit(c) \/ Refuse(c) \/ Unheard(c)
  \/ \E a \in Agents, c \in Callers : Answer(a, c)
  \/ \E a \in Agents : GivesUp(a)
  \/ \E c \in Callers : Exits(c) /\ Drops
  \/ Restart
  \/ \E c \in Callers : Enter(c) /\ Unchanged
  \/ \E c \in Callers, g \in Goroutines : Hold(c, g) /\ Unchanged
  \/ \E g \in Goroutines : (Returns(g) \/ Leave(g)) /\ Unchanged
  \/ Tick /\ Unchanged

\* Searches keep coming and arriving, nobody waits for ever, goroutines run and time
\* passes; nothing says that the model ever answers or that a write ever arrives.
ServiceSpec ==
  /\ ServiceInit /\ [][ServiceNext]_svars
  /\ WF_svars(Tick /\ Unchanged)
  /\ SF_svars(\E a \in Agents, c \in Callers : Send(a, c, Search))
  /\ SF_svars(\E c \in Callers : handler[c].request = Search /\ Arrive(c))
  /\ \A a \in Agents : WF_svars(GivesUp(a))
  /\ \A c \in Callers :
       /\ WF_svars(\/ Unembedded(c) \/ Embedded(c) \/ (Exits(c) /\ Drops) \/ (Enter(c) /\ Unchanged))
       /\ WF_svars(\E g \in Goroutines : Hold(c, g) /\ Unchanged)
       /\ WF_svars(Arrive(c) \/ Rejected(c))
       /\ WF_svars(Commit(c) \/ Refuse(c))
       /\ WF_svars(Unheard(c))
  /\ \A g \in Goroutines : WF_svars(Leave(g) /\ Unchanged)

----------------------------------------------------------------------------
Saved == INSTANCE SavedWrites WITH saved <- stored, acknowledged <- UNION {told[a] : a \in Agents}

\* "A failed write is never reported as acknowledged", and a request ID is applied
\* once: with lost and late messages, repeated requests, abandoned handlers and
\* restarts, the service does what SavedWrites promises.
ImplementsSavedWrites == Saved!Spec

\* A call that never returns does not hold the model for ever: the process exits.
GateFrees == gate ~> ~gate
============================================================================

----------------------------- MODULE HttpServer -----------------------------
(***************************************************************************)
(* internal/rest around the handlers, and the metrics of internal/service: *)
(* who gets past the middleware, what becomes of a panic, what is counted, *)
(* and how Server.Run ends while handlers are at work.  The route is       *)
(* Recoverer(jwtAuth(metricTrack(handler))), see rest.New.                 *)
(*                                                                         *)
(* What a handler does to the tables is WalletService's; here a request    *)
(* that moves money is its Kafka send and its commit.  What it waits for   *)
(* is the pool of ConnPool, of which only the connections of transactions  *)
(* are counted: a statement outside of one gives its own back in the same  *)
(* step.                                                                   *)
(***************************************************************************)
EXTENDS Integers, FiniteSets

CONSTANTS
    Requests,   \* HTTP requests
    Headers,    \* the Authorization headers that occur
    Kinds,      \* the kinds of requests that occur
    MaxConns    \* pool_max_conns

\* An Authorization header: absent, of another scheme, the word Bearer
\* alone, a token that does not verify, one without an expiry, a good one.
Header == {"none", "scheme", "bare", "bad", "eternal", "good"}

\* "money" and "update" reach a service method with a transaction of its own
Kind == {"other", "update", "money"}

ASSUME ServerAssumption ==
    /\ IsFiniteSet(Requests) /\ Headers \subseteq Header
    /\ Kinds \subseteq Kind
    /\ MaxConns \in Nat \ {0}

VARIABLES
    server,     \* the goroutine in Server.Run
    drain,      \* the goroutine Run starts, which waits for the context
    producer,   \* the Kafka producer main creates, and closes when it returns
    req,        \* what each request does next
    kind,       \* past the middleware: "money" and "update" reach a service
                \* method with a transaction of its own, "other" does not
    answer,     \* what it is answered: "ok", "unauthorized" or "error"
    sent,       \* the requests whose message is in topic transaction_update
    committed,  \* the requests whose transaction is committed
    total,      \* http_request_total of this process, over all labels
    completed   \* tx_completed_total of this process, over all labels

runVars == <<server, drain>>
requestVars == <<req, kind, answer, sent, committed, total, completed>>
serverVars == <<server, drain, producer, requestVars>>

ServerStages == {"off", "starting", "listening", "closed", "failed"}
DrainStages == {"off", "armed", "draining"}
ProducerStages == {"absent", "open", "closing", "closed"}
\* past: answered by a process that is gone;  cut: at work when it went
RequestStages == {"new", "begin", "read", "work", "commit", "return",
                  "respond", "done", "past", "cut"}

ServerInit ==
    /\ server = "off" /\ drain = "off" /\ producer = "absent"
    /\ req = [r \in Requests |-> "new"]
    /\ kind = [r \in Requests |-> "none"]
    /\ answer = [r \in Requests |-> "none"]
    /\ sent = {} /\ committed = {}
    /\ total = 0 /\ completed = 0

AtWork == {r \in Requests : req[r] \in {"begin", "read", "work", "commit",
                                        "return", "respond"}}

\* the requests whose transaction holds a connection
Holders ==
    {r \in Requests : /\ kind[r] \in {"update", "money"}
                      /\ req[r] \in {"read", "work", "commit"}}

\* the pool has a connection to hand out
HasRoom == Cardinality(Holders) < MaxConns

\* Every connection is held by a transaction that waits for a second one.
PoolStalled == ~HasRoom /\ \A r \in Holders : req[r] = "read"

(***************************************************************************)
(* Server.Run and its goroutine.                                           *)
(***************************************************************************)
\* ListenAndServe binds the port or fails, or Shutdown came first.
Listen ==
    /\ server = "starting"
    /\ server' \in IF drain = "armed" THEN {"listening", "failed"}
                                      ELSE {"closed", "failed"}
    /\ UNCHANGED <<drain, producer, requestVars>>

\* the context is cancelled: Shutdown closes the listener ...
BeginDrain ==
    /\ drain = "armed"
    /\ drain' = "draining"
    /\ UNCHANGED <<server, producer, requestVars>>

\* ... so that ListenAndServe, and with it Run, returns, while it goes on
\* waiting for the handlers, at most gracefulTimeout.  Nobody waits for that
\* goroutine, so its end changes nothing.
ServerReturns ==
    /\ server = "listening" /\ drain # "armed"
    /\ server' = "closed"
    /\ UNCHANGED <<drain, producer, requestVars>>

(***************************************************************************)
(* A request.                                                              *)
(***************************************************************************)
\* jwtAuth: what it answers, or "ok" to go on.  It reads the second word of
\* the header and the expiry of the token without a look whether they are
\* there; Recoverer answers the panic with 500.
Auth(h) ==
    CASE h \in {"none", "scheme", "bad"} -> "unauthorized"
      [] h \in {"bare", "eternal"} -> "error"
      [] h = "good" -> "ok"

\* the middleware answers a itself
TurnAway(r, a) ==
    /\ req' = [req EXCEPT ![r] = "done"]
    /\ answer' = [answer EXCEPT ![r] = a]

Arrive(r) ==
    /\ server = "listening" /\ req[r] = "new"
    /\ \E h \in Headers :
         IF Auth(h) = "ok"
         THEN /\ \E k \in Kinds :
                    /\ kind' = [kind EXCEPT ![r] = k]
                    /\ req' = [req EXCEPT ![r] = IF k = "other" THEN "work"
                                                               ELSE "begin"]
              /\ UNCHANGED answer
         ELSE TurnAway(r, Auth(h)) /\ UNCHANGED kind
    /\ UNCHANGED <<runVars, producer, sent, committed, total, completed>>

\* trackHTTPRequest, which metricTrack defers: a panic runs it too
CountRequest == total' = total + 1

\* The deferred function of the service method.  It reads the err of its own
\* scope, which nothing assigns, and counts the transaction as completed.
CountCompleted == completed' = completed + 1

\* a service method comes to its end with the result s for the handler
Ends(r, s) ==
    /\ req' = [req EXCEPT ![r] = IF kind[r] = "other" THEN "respond" ELSE "return"]
    /\ answer' = [answer EXCEPT ![r] = s]

\* DoWithTx gets the connection of its transaction,
BeginTx(r) ==
    /\ req[r] = "begin" /\ HasRoom
    /\ req' = [req EXCEPT ![r] = "read"]
    /\ UNCHANGED <<runVars, producer, kind, answer, sent, committed, total, completed>>

\* and store.GetWallet, inside it, a second one from the pool.
ReadTx(r) ==
    /\ req[r] = "read" /\ HasRoom
    /\ req' = [req EXCEPT ![r] = "work"]
    /\ UNCHANGED <<runVars, producer, kind, answer, sent, committed, total, completed>>

\* The client leaves, and its handler with it, whatever it waits for.
GiveUp(r) ==
    /\ req[r] \in {"begin", "read", "work"}
    /\ Ends(r, "error")
    /\ UNCHANGED <<runVars, producer, kind, sent, committed, total, completed>>

\* It fails before it sends, or has nothing to send.  One without a
\* transaction does so on a connection of the pool.
Work(r) ==
    /\ req[r] = "work"
    /\ kind[r] = "other" => HasRoom
    /\ \E s \in {"error"} \cup IF kind[r] # "money" THEN {"ok"} ELSE {} :
         Ends(r, s)
    /\ UNCHANGED <<runVars, producer, kind, sent, committed, total, completed>>

Send(r) ==
    /\ req[r] = "work" /\ kind[r] = "money" /\ producer = "open"
    /\ sent' = sent \cup {r}
    /\ req' = [req EXCEPT ![r] = "commit"]
    /\ UNCHANGED <<runVars, producer, kind, answer, committed, total, completed>>

\* mutant: a producer that shuts down is not an error
Mut_SendFails(r) ==
    /\ req[r] = "work" /\ kind[r] = "money" /\ producer = "closing"
    /\ req' = [req EXCEPT ![r] = "commit"]
    /\ UNCHANGED <<runVars, producer, kind, answer, sent, committed, total, completed>>

\* SendMessage returns the error of the broker, which may have the message,
\* or of a producer that shuts down.
SendFails(r) ==
    /\ req[r] = "work" /\ kind[r] = "money" /\ producer \in {"open", "closing"}
    /\ sent' \in {sent} \cup IF producer = "open" THEN {sent \cup {r}} ELSE {}
    /\ Ends(r, "error")
    /\ UNCHANGED <<runVars, producer, kind, committed, total, completed>>

\* mutant: the middleware counts after the handler, not in a deferred call
Mut_SendPanics(r) ==
    /\ req[r] = "work" /\ kind[r] = "money" /\ producer = "closed"
    /\ req' = [req EXCEPT ![r] = "done"]
    /\ answer' = [answer EXCEPT ![r] = "error"]
    /\ CountCompleted
    /\ UNCHANGED <<runVars, producer, kind, sent, committed, total>>

\* On a closed producer SendMessage panics: the deferred Rollback, the
\* deferred counters of the service and of metricTrack, then Recoverer.
SendPanics(r) ==
    /\ req[r] = "work" /\ kind[r] = "money" /\ producer = "closed"
    /\ req' = [req EXCEPT ![r] = "done"]
    /\ answer' = [answer EXCEPT ![r] = "error"]
    /\ CountRequest /\ CountCompleted
    /\ UNCHANGED <<runVars, producer, kind, sent, committed>>

\* mutant: a COMMIT that failed starts the transaction again
Mut_CommitTx(r) ==
    /\ req[r] = "commit"
    /\ \/ committed' = committed \cup {r} /\ Ends(r, "ok")
       \/ /\ req' = [req EXCEPT ![r] = "work"]
          /\ UNCHANGED <<answer, committed>>
    /\ UNCHANGED <<runVars, producer, kind, sent, total, completed>>

\* COMMIT; the handler may read an error although the database did it
CommitTx(r) ==
    /\ req[r] = "commit"
    /\ \/ committed' = committed \cup {r} /\ Ends(r, "ok")
       \/ committed' \in {committed, committed \cup {r}} /\ Ends(r, "error")
    /\ UNCHANGED <<runVars, producer, kind, sent, total, completed>>

\* the service method returns
CountTx(r) ==
    /\ req[r] = "return"
    /\ req' = [req EXCEPT ![r] = "respond"]
    /\ CountCompleted
    /\ UNCHANGED <<runVars, producer, kind, answer, sent, committed, total>>

\* the handler writes its answer, and metricTrack counts
Respond(r) ==
    /\ req[r] = "respond"
    /\ req' = [req EXCEPT ![r] = "done"]
    /\ CountRequest
    /\ UNCHANGED <<runVars, producer, kind, answer, sent, committed, completed>>

RequestStep(r) ==
    \/ BeginTx(r) \/ ReadTx(r) \/ Work(r)
    \/ Send(r) \/ SendFails(r) \/ SendPanics(r)
    \/ CommitTx(r) \/ CountTx(r) \/ Respond(r)

\* the process is gone, and its counters with it; open transactions are
\* rolled back
ServerGone ==
    /\ server' = "off" /\ drain' = "off" /\ producer' = "absent"
    /\ req' = [r \in Requests |->
                 CASE r \in AtWork -> "cut"
                   [] req[r] = "done" -> "past"
                   [] OTHER -> req[r]]
    /\ total' = 0 /\ completed' = 0
    /\ UNCHANGED <<kind, answer, sent, committed>>

(***************************************************************************)
(* Properties.                                                             *)
(***************************************************************************)
ServerTypeOK ==
    /\ server \in ServerStages /\ drain \in DrainStages
    /\ producer \in ProducerStages
    /\ req \in [Requests -> RequestStages]
    /\ kind \in [Requests -> Kind \cup {"none"}]
    /\ answer \in [Requests -> {"none", "ok", "unauthorized", "error"}]
    /\ sent \subseteq Requests /\ committed \subseteq Requests
    /\ total \in Nat /\ completed \in Nat

\* The handlers outlive Run, and main closes the producer under them: still
\* nothing is committed that was not sent before, and who reads 200 has its
\* money moved, whatever the process did meanwhile.
ShutdownKeepsOrder ==
    /\ committed \subseteq sent
    /\ \A r \in Requests :
         kind[r] = "money" /\ req[r] \in {"done", "past"} /\ answer[r] = "ok"
            => r \in committed

\* Every request the middleware let through is counted once when it ends,
\* one that panics too, and those it turned away are not (metricTrack).
RequestsAreCounted ==
    total = Cardinality({r \in Requests : kind[r] # "none" /\ req[r] = "done"})

\* tx_completed_total counts what its name says, transactions that were
\* completed, and not those that failed (the help texts of
\* internal/service/metrics.go: 'Number of completed transactions', 'Number
\* of failed transactions').
OnlyCompletedAreCounted ==
    completed <= Cardinality({r \in Requests :
                    /\ kind[r] \in {"update", "money"}
                    /\ req[r] \in {"respond", "done"} /\ answer[r] = "ok"})
=============================================================================

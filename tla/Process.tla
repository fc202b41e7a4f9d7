------------------------------ MODULE Process -------------------------------
(***************************************************************************)
(* cmd/wallets-service: the process that starts the consumer of topic      *)
(* users, the archiver and the HTTP server in an errgroup, stops them when *)
(* a signal arrives or one of them fails, and is started again after it    *)
(* ended.  It composes UserFeed and HttpServer.                            *)
(***************************************************************************)
EXTENDS UserFeed, HttpServer

CONSTANTS
    MaxRetries, \* attempts of NewConsumer
    MaxRuns     \* bound: processes started, one after the other

ASSUME ProcessAssumption == MaxRetries \in Nat \ {0} /\ MaxRuns \in Nat

VARIABLES
    main,       \* what main does next
    attempt,    \* the attempts NewConsumer has made
    asked,      \* a signal has arrived
    archiver,   \* the goroutine of Service.Run
    cause,      \* the part whose error the errgroup keeps
    runs        \* the processes started so far

mainVars == <<main, attempt, asked, archiver, cause, runs>>
vars == <<feedVars, serverVars, mainVars>>

\* the calls of main, up to the errgroup
StartupStages == {"config", "store", "migrate", "dial", "produce"}

MainStages == StartupStages \cup {"down", "running", "closing", "leaving"}
ArchiverStages == {"off", "select", "stopped", "failed"}
Parts == {"consumer", "archiver", "server"}

Init ==
    /\ FeedInit /\ ServerInit
    /\ main = "down" /\ attempt = 0 /\ asked = FALSE
    /\ archiver = "off" /\ cause = "none" /\ runs = 0

\* the context of the errgroup: cancelled by a signal or by the first error
Cancelled == asked \/ cause # "none"

(***************************************************************************)
(* Start-up.                                                               *)
(***************************************************************************)
Boot ==
    /\ main = "down" /\ runs < MaxRuns
    /\ main' = "config" /\ runs' = runs + 1
    /\ attempt' = 0 /\ asked' = FALSE /\ cause' = "none"
    /\ UNCHANGED <<feedVars, serverVars, archiver>>

\* SIGINT or SIGTERM; the handler of the first one stays in place
Signal ==
    /\ main # "down" /\ ~asked
    /\ asked' = TRUE
    /\ UNCHANGED <<feedVars, serverVars, main, attempt, archiver, cause, runs>>

\* a call of main succeeds
Proceed(here, there) ==
    /\ main = here /\ main' = there /\ attempt' = 0
    /\ UNCHANGED <<feedVars, serverVars, asked, archiver, cause, runs>>

ReadConfig == Proceed("config", "store")

\* Only store.New is given the context; the others do not notice a signal.
ConnectStore == ~Cancelled /\ Proceed("store", "migrate")

Migrate == Proceed("migrate", "dial")

DialConsumer == Proceed("dial", "produce")

\* the producer is there: the errgroup starts its three goroutines
Launch ==
    /\ main = "produce"
    /\ main' = "running"
    /\ producer' = "open" /\ server' = "starting" /\ drain' = "armed"
    /\ archiver' = "select" /\ ConsumerBecomes("subscribe")
    /\ UNCHANGED <<requestVars, attempt, asked, cause, runs>>

\* every goroutine and variable of the process is gone
Gone ==
    /\ main' = "down" /\ archiver' = "off" /\ asked' = FALSE /\ cause' = "none"
    /\ attempt' = 0
    /\ ServerGone /\ ConsumerBecomes("off")
    /\ UNCHANGED runs

\* mutant: one attempt too many
Mut_Retry ==
    /\ main = "dial" /\ attempt < MaxRetries
    /\ attempt' = attempt + 1
    /\ UNCHANGED <<feedVars, serverVars, main, asked, archiver, cause, runs>>

\* NewConsumer tries again, every other error of start-up is a panic
Retry ==
    /\ main = "dial" /\ attempt + 1 < MaxRetries
    /\ attempt' = attempt + 1
    /\ UNCHANGED <<feedVars, serverVars, main, asked, archiver, cause, runs>>

StartupFails ==
    /\ main \in StartupStages
    /\ main = "dial" => attempt + 1 = MaxRetries
    /\ Gone

(***************************************************************************)
(* The goroutines of the errgroup.  A select that has both a message or a  *)
(* tick and a cancelled context takes either.  The UPSERT takes a           *)
(* connection of the pool, and stops waiting for it when the context ends. *)
(***************************************************************************)
ConsumeStep ==
    /\ main = "running"
    /\ \/ Subscribe \/ SubscribeFails
       \/ Take(~Cancelled)
       \/ HasRoom /\ (Upsert \/ UpsertFails)
       \/ Cancelled /\ UpsertFails /\ UNCHANGED stored
       \/ Cancelled /\ ConsumerStops
    /\ UNCHANGED <<serverVars, mainVars>>

\* A tick, and its statement fails, as it does on a cancelled context.  One
\* that succeeds changes nothing here.
ArchiverFails ==
    /\ archiver = "select"
    /\ archiver' = "failed"
    /\ UNCHANGED <<feedVars, serverVars, main, attempt, asked, cause, runs>>

ArchiverStops ==
    /\ archiver = "select" /\ Cancelled
    /\ archiver' = "stopped"
    /\ UNCHANGED <<feedVars, serverVars, main, attempt, asked, cause, runs>>

\* mutant: Shutdown is called when main ends, not when the context does
Mut_ServeStep ==
    /\ main \in {"running", "closing", "leaving"}
    /\ \/ Listen \/ ServerReturns
       \/ main # "running" /\ BeginDrain
    /\ UNCHANGED <<feedVars, mainVars>>

\* the goroutine that drains is not in the errgroup: it goes on after Wait
ServeStep ==
    /\ main \in {"running", "closing", "leaving"}
    /\ \/ Listen \/ ServerReturns
       \/ Cancelled /\ BeginDrain
    /\ UNCHANGED <<feedVars, mainVars>>

\* nor are the handlers, and their context is not the errgroup's
HandlerStep(r) ==
    /\ RequestStep(r)
    /\ UNCHANGED <<feedVars, mainVars>>

Failed(p) ==
    CASE p = "consumer" -> consumer = "failed"
      [] p = "archiver" -> archiver = "failed"
      [] p = "server" -> server = "failed"

\* the errgroup keeps the first error and cancels the context
Collect ==
    /\ main = "running" /\ cause = "none"
    /\ \E p \in Parts : Failed(p) /\ cause' = p
    /\ UNCHANGED <<feedVars, serverVars, main, attempt, asked, archiver, runs>>

(***************************************************************************)
(* The end of main.                                                        *)
(***************************************************************************)
\* mutant: main waits for the handlers too
Mut_Wait ==
    /\ main = "running" /\ AtWork = {}
    /\ consumer \in {"stopped", "failed"} /\ archiver \in {"stopped", "failed"}
    /\ server \in {"closed", "failed"}
    /\ cause # "none" \/ \A p \in Parts : ~Failed(p)
    /\ main' = "closing" /\ producer' = "closing"
    /\ UNCHANGED <<feedVars, runVars, requestVars, attempt, asked, archiver, cause, runs>>

\* Wait returns, with the error kept; the deferred calls close the producer,
Wait ==
    /\ main = "running"
    /\ consumer \in {"stopped", "failed"} /\ archiver \in {"stopped", "failed"}
    /\ server \in {"closed", "failed"}
    /\ cause # "none" \/ \A p \in Parts : ~Failed(p)
    /\ main' = "closing" /\ producer' = "closing"
    /\ UNCHANGED <<feedVars, runVars, requestVars, attempt, asked, archiver, cause, runs>>

CloseProducer ==
    /\ main = "closing"
    /\ main' = "leaving" /\ producer' = "closed"
    /\ UNCHANGED <<feedVars, runVars, requestVars, attempt, asked, archiver, cause, runs>>

\* then the consumer, and the process ends: cleanly, or in a panic
Leave == main = "leaving" /\ Gone

Crash == main # "down" /\ Gone

(***************************************************************************)
(* The specification.                                                      *)
(***************************************************************************)
MainStep ==
    \/ ReadConfig \/ ConnectStore \/ Migrate \/ DialConsumer
    \/ Launch \/ Retry \/ StartupFails
    \/ Collect \/ Wait \/ CloseProducer \/ Leave

World ==
    \/ Boot \/ Signal \/ Crash
    \/ Announce /\ UNCHANGED <<serverVars, mainVars>>
    \/ \E r \in Requests : (Arrive(r) \/ GiveUp(r)) /\ UNCHANGED <<feedVars, mainVars>>

Next ==
    \/ MainStep \/ World
    \/ ConsumeStep \/ ServeStep
    \/ ArchiverFails \/ ArchiverStops
    \/ \E r \in Requests : HandlerStep(r)

Spec == Init /\ [][Next]_vars

\* Every goroutine of a process that can go on does, the pool hands out a
\* connection it has, and the database, the broker and the rate service
\* answer a call that has reached them, with a result or an error.  A handler
\* that waits for a connection the pool does not have may wait for good.
\* Nothing is assumed of signals, crashes, ticks, producers and clients.
Fairness ==
    /\ WF_vars(MainStep)
    /\ WF_vars(ConsumeStep) /\ WF_vars(ServeStep)
    /\ WF_vars(ArchiverStops)
    /\ \A r \in Requests : WF_vars(HandlerStep(r))

FairSpec == Spec /\ Fairness

(***************************************************************************)
(* Properties.                                                             *)
(***************************************************************************)
\* Every variable has its type.
ProcessTypeOK ==
    /\ FeedTypeOK /\ ServerTypeOK
    /\ main \in MainStages /\ attempt \in 0 .. MaxRetries - 1
    /\ asked \in BOOLEAN /\ archiver \in ArchiverStages
    /\ cause \in Parts \cup {"none"} /\ runs \in 0 .. MaxRuns

\* A process that was asked to stop, or of which a part has failed, ends:
\* the others notice, whatever they are at, and Wait returns.  A stalled pool
\* does not hold it up: nobody waits for the handlers.
CancelledEnds == Cancelled ~> main = "down"

\* A message that is in the topic after the subscription is stored, or the
\* consumer does not run any more, or waits for a stalled pool.
MessagesAreStored ==
    \A i \in 1 .. MaxTopic :
        i \in first .. Len(topic) /\ consumer \in {"select", "upsert"}
            ~> \/ i \in stored \/ consumer \notin {"select", "upsert"}
               \/ PoolStalled

\* A request the server has accepted is answered, or cut by the end of the
\* process, unless the pool is stalled.
RequestsLeave == \A r \in Requests : r \in AtWork ~> r \notin AtWork \/ PoolStalled
=============================================================================

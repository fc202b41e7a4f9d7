---------------------------- MODULE ProcessProofs ----------------------------
(***************************************************************************)
(* The process and the two components it is composed of, for any requests, *)
(* users, messages and number of runs: the users feed keeps its promises,  *)
(* the process runs it as the feed assumes, and its server keeps its own.  *)
(***************************************************************************)
EXTENDS Process, FiniteSetTheorems, TLAPS

(***************************************************************************)
(* The users feed.                                                         *)
(***************************************************************************)
\* the offset of the message the consumer has in its hand, or waits for
Hand == IF consumer = "upsert" THEN next - 1 ELSE next

\* What was stored, and what ended a Run, lies before the message in hand:
\* each subscription starts behind everything the earlier ones have seen.
Ahead ==
    consumer \in {"select", "upsert"} =>
        /\ first <= Hand
        /\ \A i \in stored : i < Hand
        /\ \A k \in DOMAIN fatal : fatal[k] < Hand

FeedInv ==
    /\ FeedTypeOK /\ UsersFollowTopic /\ NothingSkipped /\ NoMessageFailsTwice
    /\ Ahead

\* Before anything happens there is no message and no user.
LEMMA FeedInitial == FeedInit => FeedInv
<1> SUFFICES ASSUME FeedInit PROVE FeedInv
  OBVIOUS
<1>1. FeedTypeOK
  BY DEF FeedInit, FeedTypeOK, ConsumerStages
<1>2. UsersFollowTopic
  BY DEF FeedInit, UsersFollowTopic, StoredFor
<1> QED
  BY <1>1, <1>2 DEF FeedInit, FeedInv, NothingSkipped, NoMessageFailsTwice, Ahead

\* A step that neither touches the table nor the topic leaves the users as
\* they should be.
LEMMA UsersUntouched ==
    ASSUME UsersFollowTopic, UNCHANGED <<topic, users, stored>>
    PROVE  UsersFollowTopic'
BY DEF UsersFollowTopic, StoredFor, RowOf

\* A producer appends behind everything that was stored.
LEMMA AnnounceKeeps ==
    ASSUME FeedInv, Announce
    PROVE  FeedInv'
<1> USE DEF FeedInv
<1>1. PICK m \in Messages : topic' = Append(topic, m)
  BY DEF Announce
<1>2. /\ Len(topic') = Len(topic) + 1 /\ topic' \in Seq(Messages)
      /\ \A i \in 1 .. Len(topic) : topic'[i] = topic[i]
      /\ Len(topic) \in Nat
  BY <1>1 DEF FeedTypeOK
<1>3. FeedTypeOK'
  <2>1. fatal' \in Seq(1 .. Len(topic'))
    BY <1>2 DEF Announce, FeedTypeOK
  <2> QED
    BY <1>2, <2>1 DEF Announce, FeedTypeOK
<1>4. UsersFollowTopic'
  <2>1. ASSUME NEW u \in UserIds
        PROVE  StoredFor(u)' = StoredFor(u)
    BY <1>2 DEF Announce, StoredFor, FeedTypeOK
  <2>2. ASSUME NEW u \in UserIds, NEW i \in StoredFor(u)
        PROVE  RowOf(topic'[i]) = RowOf(topic[i])
    BY <1>2 DEF StoredFor, RowOf, FeedTypeOK
  <2>3. UNCHANGED users
    BY DEF Announce
  <2>4. ASSUME NEW u \in UserIds
        PROVE  \/ StoredFor(u)' = {} /\ users'[u] = "absent"
               \/ \E i \in StoredFor(u)' : /\ \A j \in StoredFor(u)' : j <= i
                                           /\ users'[u] = RowOf(topic'[i])
    BY <2>1, <2>2, <2>3 DEF UsersFollowTopic
  <2>5. \A i : RowOf(topic'[i]) = RowOf(topic[i])'
    BY DEF RowOf
  <2> QED
    BY <2>4, <2>5 DEF UsersFollowTopic
<1> QED
  BY <1>3, <1>4 DEF Announce, NothingSkipped, NoMessageFailsTwice, Ahead, Hand

\* A subscription starts behind all messages, those stored among them.
LEMMA SubscribeKeeps ==
    ASSUME FeedInv, Subscribe \/ SubscribeFails
    PROVE  FeedInv'
<1> USE DEF FeedInv
<1>1. Len(topic) \in Nat /\ fatal \in Seq(1 .. Len(topic)) /\ stored \subseteq 1 .. Len(topic)
  BY DEF FeedTypeOK
<1>2. UsersFollowTopic'
  BY UsersUntouched DEF Subscribe, SubscribeFails
<1>3. CASE Subscribe
  <2>1. next' \in 1 .. Len(topic') + 1 /\ first' \in 1 .. next'
    BY <1>1, <1>3 DEF Subscribe
  <2>2. FeedTypeOK'
    BY <1>1, <1>3, <2>1 DEF Subscribe, FeedTypeOK, ConsumerStages
  <2>3. Hand' = Len(topic) + 1 /\ first' = Hand'
    BY <1>3 DEF Subscribe, Hand
  <2>4. \A k \in DOMAIN fatal : fatal[k] \in 1 .. Len(topic)
    BY <1>1
  <2>5. Ahead'
    BY <1>1, <1>3, <2>3, <2>4 DEF Subscribe, Ahead
  <2>6. NothingSkipped'
    BY <1>1, <1>3 DEF Subscribe, NothingSkipped
  <2> QED
    BY <1>2, <1>3, <2>2, <2>5, <2>6 DEF Subscribe, NoMessageFailsTwice
<1>4. CASE SubscribeFails
  <2>1. FeedTypeOK'
    BY <1>4 DEF SubscribeFails, FeedTypeOK, ConsumerStages
  <2> QED
    BY <1>2, <1>4, <2>1
       DEF SubscribeFails, NothingSkipped, NoMessageFailsTwice, Ahead
<1> QED
  BY <1>3, <1>4

\* A message that ends the Run lies behind those that ended earlier ones.
LEMMA FailKeeps ==
    ASSUME FeedInv, consumer \in {"select", "upsert"},
           Hand \in 1 .. Len(topic), fatal' = Append(fatal, Hand),
           UNCHANGED topic
    PROVE  fatal' \in Seq(1 .. Len(topic')) /\ NoMessageFailsTwice'
<1> USE DEF FeedInv
<1>1. fatal \in Seq(1 .. Len(topic)) /\ Len(fatal) \in Nat
  BY DEF FeedTypeOK
<1>2. /\ fatal' \in Seq(1 .. Len(topic))
      /\ DOMAIN fatal' = 1 .. Len(fatal) + 1
      /\ fatal'[Len(fatal) + 1] = Hand
      /\ \A k \in 1 .. Len(fatal) : fatal'[k] = fatal[k]
  BY <1>1
<1>3. \A k \in 1 .. Len(fatal) : fatal[k] < Hand /\ fatal[k] \in Int
  BY <1>1 DEF Ahead
<1> QED
  BY <1>1, <1>2, <1>3 DEF NoMessageFailsTwice

\* Taking a message moves on by one.
LEMMA TakeKeeps ==
    ASSUME FeedInv, NEW usable, Take(usable)
    PROVE  FeedInv'
<1> USE DEF FeedInv
<1>1. /\ Len(topic) \in Nat /\ next \in 1 .. Len(topic) /\ next' = next + 1
      /\ first \in 1 .. next /\ consumer = "select" /\ Hand = next
  BY DEF Take, FeedTypeOK, Hand
<1>2. UsersFollowTopic'
  BY UsersUntouched DEF Take
<1>3. CASE consumer' = "upsert" /\ UNCHANGED fatal
  <2>1. FeedTypeOK'
    BY <1>1, <1>3 DEF Take, FeedTypeOK, ConsumerStages
  <2>2. NothingSkipped'
    BY <1>1, <1>3 DEF Take, NothingSkipped
  <2>3. Ahead'
    BY <1>1, <1>3 DEF Take, Ahead, Hand
  <2> QED
    BY <1>2, <1>3, <2>1, <2>2, <2>3 DEF NoMessageFailsTwice
<1>4. CASE consumer' = "failed" /\ fatal' = Append(fatal, next)
  <2>1. fatal' \in Seq(1 .. Len(topic')) /\ NoMessageFailsTwice'
    BY <1>1, <1>4, FailKeeps DEF Take
  <2>2. FeedTypeOK'
    BY <1>1, <1>4, <2>1 DEF Take, FeedTypeOK, ConsumerStages
  <2> QED
    BY <1>2, <1>4, <2>1, <2>2 DEF NothingSkipped, Ahead
<1> QED
  BY <1>3, <1>4 DEF Take

\* The statement stores the newest of the user's messages.
LEMMA StoreKeeps ==
    ASSUME FeedInv, consumer = "upsert", Store(next - 1), UNCHANGED topic
    PROVE  /\ UsersFollowTopic'
           /\ users' \in [UserIds -> {"absent", "present", "deleted"}]
           /\ stored' \subseteq 1 .. Len(topic')
<1> USE DEF FeedInv
<1>1. /\ first <= next - 1 /\ next - 1 \in 1 .. Len(topic) /\ Len(topic) \in Nat
      /\ \A i \in stored : i < next - 1 /\ i \in Int
  BY DEF Ahead, Hand, FeedTypeOK
<1> DEFINE h == next - 1
           who == topic[h].user
<1>2. who \in UserIds
  BY <1>1, FeedAssumption DEF FeedTypeOK, Message
<1>3. stored' = stored \cup {h} /\ users' = [users EXCEPT ![who] = RowOf(topic[h])]
  BY DEF Store
<1>4. RowOf(topic[h]) \in {"present", "deleted"}
  BY DEF RowOf
<1>5. ASSUME NEW u \in UserIds
      PROVE  \/ StoredFor(u)' = {} /\ users'[u] = "absent"
             \/ \E i \in StoredFor(u)' : /\ \A j \in StoredFor(u)' : j <= i
                                         /\ users'[u] = RowOf(topic'[i])
  <2>1. CASE u = who
    <3>1. h \in StoredFor(u)' /\ \A j \in StoredFor(u)' : j <= h
      BY <1>1, <1>3, <2>1 DEF StoredFor
    <3>2. users'[u] = RowOf(topic'[h])
      BY <1>3, <2>1 DEF FeedTypeOK
    <3> QED
      BY <3>1, <3>2
  <2>2. CASE u # who
    <3>1. StoredFor(u)' = StoredFor(u)
      BY <1>3, <2>2 DEF StoredFor
    <3>2. users'[u] = users[u]
      BY <1>3, <2>2 DEF FeedTypeOK
    <3> QED
      BY <3>1, <3>2 DEF UsersFollowTopic
  <2> QED
    BY <2>1, <2>2
<1>6. UsersFollowTopic'
  <2>1. \A i : RowOf(topic'[i]) = RowOf(topic[i])' 
    BY DEF RowOf
  <2> QED
    BY <1>5, <2>1 DEF UsersFollowTopic
<1>7. users' \in [UserIds -> {"absent", "present", "deleted"}]
  BY <1>2, <1>3, <1>4 DEF FeedTypeOK
<1>8. stored' \subseteq 1 .. Len(topic')
  BY <1>1, <1>3 DEF FeedTypeOK
<1> QED
  BY <1>6, <1>7, <1>8

\* An UPSERT that succeeds puts the message in hand away.
LEMMA UpsertKeeps ==
    ASSUME FeedInv, Upsert
    PROVE  FeedInv'
<1> USE DEF FeedInv
<1>1. consumer = "upsert" /\ Store(next - 1) /\ UNCHANGED topic
  BY DEF Upsert
<1>2. /\ UsersFollowTopic' /\ stored' \subseteq 1 .. Len(topic')
      /\ users' \in [UserIds -> {"absent", "present", "deleted"}]
  BY <1>1, StoreKeeps
<1>3. FeedTypeOK'
  BY <1>2 DEF Upsert, FeedTypeOK, ConsumerStages
<1>4. /\ next \in Nat /\ first \in Nat /\ \A i \in stored : i \in Int
      /\ \A k \in DOMAIN fatal : fatal[k] \in Int
      /\ stored' = stored \cup {next - 1}
  BY DEF Upsert, Store, FeedTypeOK
<1>5. NothingSkipped'
  BY <1>1, <1>4 DEF Upsert, NothingSkipped
<1>6. Ahead'
  BY <1>1, <1>4 DEF Upsert, Ahead, Hand
<1> QED
  BY <1>2, <1>3, <1>5, <1>6 DEF Upsert, NoMessageFailsTwice

\* One that fails ends the Run, whether the database did it or not.
LEMMA UpsertFailsKeeps ==
    ASSUME FeedInv, UpsertFails
    PROVE  FeedInv'
<1> USE DEF FeedInv
<1>1. consumer = "upsert" /\ consumer' = "failed" /\ UNCHANGED <<topic, next, first>>
  BY DEF UpsertFails
<1>2. /\ UsersFollowTopic' /\ stored' \subseteq 1 .. Len(topic')
      /\ users' \in [UserIds -> {"absent", "present", "deleted"}]
  <2>1. CASE Store(next - 1)
    BY <1>1, <2>1, StoreKeeps
  <2>2. CASE UNCHANGED <<users, stored>>
    BY <1>1, <2>2, UsersUntouched DEF FeedTypeOK
  <2> QED
    BY <2>1, <2>2 DEF UpsertFails
<1>3. Hand = next - 1 /\ Hand \in 1 .. Len(topic)
  BY <1>1 DEF Hand, Ahead, FeedTypeOK
<1>4. fatal' \in Seq(1 .. Len(topic')) /\ NoMessageFailsTwice'
  BY <1>1, <1>3, FailKeeps DEF UpsertFails
<1>5. FeedTypeOK'
  BY <1>1, <1>2, <1>4 DEF FeedTypeOK, ConsumerStages
<1> QED
  BY <1>1, <1>2, <1>4, <1>5 DEF NothingSkipped, Ahead

\* A consumer that stops, starts or is gone has nothing in its hand.
LEMMA ConsumerEnds ==
    ASSUME FeedInv,
           \/ ConsumerStops
           \/ ConsumerBecomes("subscribe")
           \/ ConsumerBecomes("off")
    PROVE  FeedInv'
<1> USE DEF FeedInv
<1>1. FeedTypeOK'
  <2>1. Len(topic) \in Nat
    BY DEF FeedTypeOK
  <2>2. CASE ConsumerStops
    BY <2>2 DEF ConsumerStops, FeedTypeOK, ConsumerStages
  <2>3. ASSUME NEW s \in {"subscribe", "off"}, ConsumerBecomes(s)
        PROVE  FeedTypeOK'
    <3>1. next' \in 1 .. Len(topic') + 1 /\ first' \in 1 .. next'
      BY <2>1, <2>3 DEF ConsumerBecomes
    <3> QED
      BY <2>3, <3>1 DEF ConsumerBecomes, FeedTypeOK, ConsumerStages
  <2> QED
    BY <2>2, <2>3
<1>2. UsersFollowTopic'
  BY UsersUntouched DEF ConsumerStops, ConsumerBecomes
<1> QED
  BY <1>1, <1>2
     DEF ConsumerStops, ConsumerBecomes, NothingSkipped, NoMessageFailsTwice, Ahead

LEMMA FeedStep ==
    ASSUME FeedInv, [FeedNext]_feedVars
    PROVE  FeedInv'
<1>1. CASE Announce
  BY <1>1, AnnounceKeeps
<1>2. CASE Subscribe \/ SubscribeFails
  BY <1>2, SubscribeKeeps
<1>3. CASE Take(TRUE) \/ Take(FALSE)
  BY <1>3, TakeKeeps
<1>4. CASE Upsert
  BY <1>4, UpsertKeeps
<1>5. CASE UpsertFails
  BY <1>5, UpsertFailsKeeps
<1>6. CASE ConsumerStops \/ ConsumerBecomes("subscribe") \/ ConsumerBecomes("off")
  BY <1>6, ConsumerEnds
<1>7. CASE UNCHANGED feedVars
  BY <1>7 DEF feedVars, FeedInv, FeedTypeOK, UsersFollowTopic, StoredFor, RowOf,
              NothingSkipped, NoMessageFailsTwice, Ahead, Hand
<1> QED
  BY <1>1, <1>2, <1>3, <1>4, <1>5, <1>6, <1>7 DEF FeedNext

\* The invariant, in every behaviour of the feed.
THEOREM FeedInductive == FeedSpec => []FeedInv
<1>1. FeedInit => FeedInv
  BY FeedInitial
<1>2. FeedInv /\ [FeedNext]_feedVars => FeedInv'
  BY FeedStep
<1> QED
  BY <1>1, <1>2, PTL DEF FeedSpec

\* Table users says what the newest stored message about each user says,
\* however often the consumer is started again.
THEOREM TableFollowsTopic == FeedSpec => []UsersFollowTopic
<1>1. FeedInv => UsersFollowTopic
  BY DEF FeedInv
<1> QED
  BY <1>1, FeedInductive, PTL

\* A consumer that goes on has lost no message since its subscription.
THEOREM RunningLosesNothing == FeedSpec => []NothingSkipped
<1>1. FeedInv => NothingSkipped
  BY DEF FeedInv
<1> QED
  BY <1>1, FeedInductive, PTL

\* No message ends two processes.
THEOREM MessagesFailOnce == FeedSpec => []NoMessageFailsTwice
<1>1. FeedInv => NoMessageFailsTwice
  BY DEF FeedInv
<1> QED
  BY <1>1, FeedInductive, PTL

(***************************************************************************)
(* The consumer's part: every step of the process is a step of the feed.   *)
(***************************************************************************)
\* the consumer runs only while the errgroup does, and starts from nothing
ConsumerInv ==
    /\ main \in StartupStages \cup {"down"} => consumer = "off"
    /\ consumer = "off" => next = 1 /\ first = 1

LEMMA ConsumerInitial == Init => FeedInit /\ ConsumerInv
BY DEF Init, FeedInit, ConsumerInv

\* Where the process is gone, so is its consumer.
LEMMA GoneKeeps ==
    ASSUME ConsumerInv, Gone
    PROVE  ConsumerInv' /\ [FeedNext]_feedVars
<1>1. consumer' = "off" /\ next' = 1 /\ first' = 1
  BY DEF Gone, ConsumerBecomes
<1>2. ConsumerInv'
  BY <1>1 DEF ConsumerInv
<1>3. CASE consumer = "off"
  BY <1>2, <1>3 DEF Gone, ConsumerBecomes, ConsumerInv, feedVars
<1>4. CASE consumer # "off"
  BY <1>2, <1>4 DEF Gone, FeedNext
<1> QED
  BY <1>3, <1>4

LEMMA ConsumeKeeps ==
    ASSUME ConsumerInv, ConsumeStep
    PROVE  ConsumerInv' /\ [FeedNext]_feedVars
<1>1. FeedNext
  <2>1. CASE Take(~Cancelled)
    <3>1. CASE Cancelled
      <4>1. (~Cancelled) = FALSE
        BY <3>1
      <4> QED
        BY <2>1, <4>1 DEF FeedNext
    <3>2. CASE ~Cancelled
      <4>1. (~Cancelled) = TRUE
        BY <3>2
      <4> QED
        BY <2>1, <4>1 DEF FeedNext
    <3> QED
      BY <3>1, <3>2
  <2> QED
    BY <2>1 DEF ConsumeStep, FeedNext
<1>2. main' = "running" /\ consumer' # "off"
  BY DEF ConsumeStep, mainVars, Subscribe, SubscribeFails, Take, Upsert,
         UpsertFails, ConsumerStops
<1> QED
  BY <1>1, <1>2 DEF ConsumerInv, StartupStages

LEMMA ConsumerStep ==
    ASSUME ConsumerInv, [Next]_vars
    PROVE  ConsumerInv' /\ [FeedNext]_feedVars
<1>1. CASE Gone
  BY <1>1, GoneKeeps
<1>2. CASE ConsumeStep
  BY <1>2, ConsumeKeeps
<1>3. CASE Launch
  <2>1. consumer = "off" /\ FeedNext
    BY <1>3 DEF Launch, ConsumerInv, StartupStages, FeedNext
  <2>2. main' = "running" /\ consumer' = "subscribe"
    BY <1>3 DEF Launch, ConsumerBecomes
  <2> QED
    BY <2>1, <2>2 DEF ConsumerInv, StartupStages
<1>4. CASE Announce /\ UNCHANGED <<serverVars, mainVars>>
  BY <1>4 DEF Announce, FeedNext, ConsumerInv, mainVars
<1>5. CASE UNCHANGED feedVars /\ (main' \in StartupStages \cup {"down"}
                                     => main \in StartupStages \cup {"down"})
  BY <1>5 DEF feedVars, ConsumerInv
<1>6. CASE UNCHANGED vars
  BY <1>5, <1>6 DEF vars, mainVars
<1>7. CASE MainStep
  <2>1. StartupFails \/ Leave => Gone
    BY DEF StartupFails, Leave
  <2>2. CASE ReadConfig \/ ConnectStore \/ Migrate \/ DialConsumer
    <3>1. UNCHANGED feedVars /\ main \in StartupStages
      BY <2>2 DEF ReadConfig, ConnectStore, Migrate, DialConsumer, Proceed,
                  StartupStages
    <3> QED
      BY <1>5, <3>1
  <2>3. CASE Retry \/ Collect
    BY <1>5, <2>3 DEF Retry, Collect
  <2>4. CASE Wait \/ CloseProducer
    BY <1>5, <2>4 DEF Wait, CloseProducer, StartupStages
  <2> QED
    BY <1>1, <1>3, <1>7, <2>1, <2>2, <2>3, <2>4 DEF MainStep
<1>8. CASE World
  <2>1. Crash => Gone
    BY DEF Crash
  <2>2. CASE Boot \/ Signal
    BY <1>5, <2>2 DEF Boot, Signal
  <2>3. CASE \E r \in Requests : (Arrive(r) \/ GiveUp(r)) /\ UNCHANGED <<feedVars, mainVars>>
    BY <1>5, <2>3 DEF mainVars
  <2> QED
    BY <1>1, <1>4, <1>8, <2>1, <2>2, <2>3 DEF World
<1>9. CASE ServeStep \/ ArchiverFails \/ ArchiverStops
  BY <1>5, <1>9 DEF ServeStep, ArchiverFails, ArchiverStops, mainVars
<1>10. CASE \E r \in Requests : HandlerStep(r)
  BY <1>5, <1>10 DEF HandlerStep, mainVars
<1> QED
  BY <1>2, <1>6, <1>7, <1>8, <1>9, <1>10 DEF Next

\* The process is built on the steps of the feed, so that what holds of the
\* feed holds in the process.
LEMMA ImplementsFeed == Spec => FeedSpec
<1>1. Init => FeedInit /\ ConsumerInv
  BY ConsumerInitial
<1>2. ConsumerInv /\ [Next]_vars => ConsumerInv' /\ [FeedNext]_feedVars
  BY ConsumerStep
<1> QED
  BY <1>1, <1>2, PTL DEF Spec, FeedSpec

\* Hence table users follows the topic,
THEOREM ProcessUsersFollowTopic == Spec => []UsersFollowTopic
BY ImplementsFeed, TableFollowsTopic, PTL

\* a running consumer has lost nothing,
THEOREM ProcessNothingSkipped == Spec => []NothingSkipped
BY ImplementsFeed, RunningLosesNothing, PTL

\* and no message ends two processes.
THEOREM ProcessNoMessageFailsTwice == Spec => []NoMessageFailsTwice
BY ImplementsFeed, MessagesFailOnce, PTL

(***************************************************************************)
(* The server's part.                                                      *)
(***************************************************************************)
\* What the kind of a request says of the place it has come to, and the other
\* way round; and the order of send, commit and answer at every place.
RequestInv ==
    \A r \in Requests :
        /\ req[r] = "new" => kind[r] = "none"
        /\ req[r] \in {"begin", "read", "work", "respond"} => kind[r] # "none"
        /\ req[r] = "return" => kind[r] \in {"update", "money"}
        /\ req[r] = "commit" => kind[r] = "money" /\ r \in sent
        /\ kind[r] = "money" /\ answer[r] = "ok"
              /\ req[r] \in {"return", "respond", "done", "past"}
           => r \in committed

\* the requests counted
CountedRequests == {r \in Requests : kind[r] # "none" /\ req[r] = "done"}

Counts == total = Cardinality(CountedRequests)

ServerInv == ServerTypeOK /\ RequestInv /\ committed \subseteq sent /\ Counts

\* A request more is counted once.
LEMMA OneMore ==
    ASSUME NEW S \in SUBSET Requests, NEW r \in Requests, r \notin S
    PROVE  Cardinality(S \cup {r}) = Cardinality(S) + 1
<1>1. IsFiniteSet(S)
  BY ServerAssumption, FS_Subset
<1> QED
  BY <1>1, FS_AddElement

LEMMA ServerInitial == Init => ServerInv
<1> SUFFICES ASSUME Init PROVE ServerInv
  OBVIOUS
<1>1. ServerInit
  BY DEF Init
<1>2. CountedRequests = {}
  BY <1>1 DEF ServerInit, CountedRequests
<1>3. Counts
  BY <1>1, <1>2, FS_EmptySet DEF ServerInit, Counts
<1>4. ServerTypeOK
  BY <1>1 DEF ServerInit, ServerTypeOK, ServerStages, DrainStages,
              ProducerStages, RequestStages
<1>5. RequestInv /\ committed \subseteq sent
  BY <1>1 DEF ServerInit, RequestInv
<1> QED
  BY <1>3, <1>4, <1>5 DEF ServerInv

\* Steps that concern no request.
LEMMA RequestsUntouched ==
    ASSUME ServerInv, UNCHANGED requestVars,
           server' \in ServerStages, drain' \in DrainStages,
           producer' \in ProducerStages
    PROVE  ServerInv'
<1>1. ServerTypeOK' /\ RequestInv' /\ (committed \subseteq sent)'
  BY DEF ServerInv, requestVars, ServerTypeOK, RequestInv
<1>2. CountedRequests' = CountedRequests
  BY DEF requestVars, CountedRequests
<1> QED
  BY <1>1, <1>2 DEF ServerInv, Counts, requestVars

LEMMA ArriveKeeps ==
    ASSUME ServerInv, NEW r \in Requests, Arrive(r)
    PROVE  ServerInv'
<1> USE DEF ServerInv
<1>1. /\ req[r] = "new" /\ kind[r] = "none"
      /\ UNCHANGED <<server, drain, producer, sent, committed, total, completed>>
  BY DEF Arrive, RequestInv, runVars
<1>2. PICK h \in Headers :
         IF Auth(h) = "ok"
         THEN /\ \E k \in Kinds :
                    /\ kind' = [kind EXCEPT ![r] = k]
                    /\ req' = [req EXCEPT ![r] = IF k = "other" THEN "work"
                                                               ELSE "begin"]
              /\ UNCHANGED answer
         ELSE TurnAway(r, Auth(h)) /\ UNCHANGED kind
  BY DEF Arrive
<1>3. CASE Auth(h) = "ok"
  <2>1. PICK k \in Kind, x \in {"begin", "work"} :
           kind' = [kind EXCEPT ![r] = k] /\ req' = [req EXCEPT ![r] = x]
    BY <1>2, <1>3, ServerAssumption
  <2>2. answer' = answer
    BY <1>2, <1>3
  <2>3. ServerTypeOK'
    BY <1>1, <2>1, <2>2 DEF ServerTypeOK, RequestStages
  <2>4. RequestInv'
    BY <1>1, <2>1, <2>2 DEF ServerTypeOK, RequestInv, Kind
  <2>5. CountedRequests' = CountedRequests
    BY <1>1, <2>1, <2>2 DEF ServerTypeOK, CountedRequests
  <2> QED
    BY <1>1, <2>3, <2>4, <2>5 DEF Counts
<1>4. CASE Auth(h) # "ok"
  <2>1. /\ req' = [req EXCEPT ![r] = "done"] /\ kind' = kind
        /\ answer' = [answer EXCEPT ![r] = Auth(h)]
    BY <1>2, <1>4 DEF TurnAway
  <2>2. Auth(h) \in {"unauthorized", "error"}
    BY <1>4, ServerAssumption DEF Auth, Header
  <2>3. ServerTypeOK'
    BY <1>1, <2>1, <2>2 DEF ServerTypeOK, RequestStages
  <2>4. RequestInv'
    BY <1>1, <2>1, <2>2 DEF ServerTypeOK, RequestInv
  <2>5. CountedRequests' = CountedRequests
    BY <1>1, <2>1 DEF ServerTypeOK, CountedRequests
  <2> QED
    BY <1>1, <2>3, <2>4, <2>5 DEF Counts
<1> QED
  BY <1>3, <1>4

\* A step of a request that counts nothing: sending, committing, failing.
LEMMA UncountedKeeps ==
    ASSUME ServerInv, NEW r \in Requests,
           \/ BeginTx(r) \/ ReadTx(r) \/ GiveUp(r)
           \/ Work(r) \/ Send(r) \/ SendFails(r) \/ CommitTx(r)
    PROVE  ServerInv'
<1> USE DEF ServerInv, Kind
<1>1. /\ req[r] \in {"begin", "read", "work", "commit"} /\ kind[r] # "none"
      /\ UNCHANGED <<server, drain, producer, kind, total, completed>>
  BY DEF BeginTx, ReadTx, GiveUp, Work, Send, SendFails, CommitTx, runVars, RequestInv
<1>2. /\ sent' \in {sent, sent \cup {r}}
      /\ committed' \in {committed, committed \cup {r}}
      /\ committed' # committed => r \in sent
  BY DEF BeginTx, ReadTx, GiveUp, Work, Send, SendFails, CommitTx, RequestInv
<1>3. PICK x \in {"read", "work", "commit", "return", "respond"} : req' = [req EXCEPT ![r] = x]
  BY DEF BeginTx, ReadTx, GiveUp, Work, Send, SendFails, CommitTx, Ends
<1>4. \/ UNCHANGED answer
      \/ answer' = [answer EXCEPT ![r] = "ok"]
      \/ answer' = [answer EXCEPT ![r] = "error"]
  BY DEF BeginTx, ReadTx, GiveUp, Work, Send, SendFails, CommitTx, Ends
<1>5. ServerTypeOK'
  BY <1>1, <1>2, <1>3, <1>4 DEF ServerTypeOK, RequestStages
<1>6. (committed \subseteq sent)'
  BY <1>2
<1>7. RequestInv'
  <2>1. x = "commit" => kind[r] = "money" /\ r \in sent'
    BY <1>3 DEF BeginTx, ReadTx, GiveUp, Work, Send, SendFails, CommitTx, Ends, ServerTypeOK
  <2>2. /\ x = "return" => kind[r] # "other"
        /\ kind[r] = "money" => x # "respond"
    BY <1>3 DEF BeginTx, ReadTx, GiveUp, Work, Send, SendFails, CommitTx, Ends, ServerTypeOK
  <2>3. kind[r] = "money" /\ x \in {"return", "respond"} /\ answer'[r] = "ok" => r \in committed'
    BY <1>3 DEF BeginTx, ReadTx, GiveUp, Work, Send, SendFails, CommitTx, Ends, ServerTypeOK
  <2>4. ASSUME NEW q \in Requests
        PROVE  /\ req'[q] = "new" => kind'[q] = "none"
               /\ req'[q] \in {"begin", "read", "work", "respond"} => kind'[q] # "none"
               /\ req'[q] = "return" => kind'[q] \in {"update", "money"}
               /\ req'[q] = "commit" => kind'[q] = "money" /\ q \in sent'
               /\ kind'[q] = "money" /\ answer'[q] = "ok"
                     /\ req'[q] \in {"return", "respond", "done", "past"}
                  => q \in committed'
    <3>1. CASE q = r
      BY <1>1, <1>3, <2>1, <2>2, <2>3, <3>1 DEF ServerTypeOK
    <3>2. CASE q # r
      BY <1>1, <1>2, <1>3, <1>4, <3>2 DEF ServerTypeOK, RequestInv
    <3> QED
      BY <3>1, <3>2
  <2> QED
    BY <2>4 DEF RequestInv
<1>8. CountedRequests' = CountedRequests
  <2>1. req'[r] = x /\ \A q \in Requests : q # r => req'[q] = req[q]
    BY <1>3 DEF ServerTypeOK
  <2> QED
    BY <1>1, <2>1 DEF CountedRequests
<1> QED
  BY <1>1, <1>5, <1>6, <1>7, <1>8 DEF Counts

\* What ends counts itself, and no other request.
LEMMA CountedKeeps ==
    ASSUME ServerInv, NEW r \in Requests,
           SendPanics(r) \/ CountTx(r) \/ Respond(r)
    PROVE  ServerInv'
<1> USE DEF ServerInv
<1>1. UNCHANGED <<server, drain, producer, kind, sent, committed>>
  BY DEF SendPanics, CountTx, Respond, runVars
<1>2. /\ CountedRequests \in SUBSET Requests
      /\ kind[r] # "none"
  BY DEF CountedRequests, SendPanics, CountTx, Respond, RequestInv
<1>3. CASE SendPanics(r)
  <2>1. /\ req' = [req EXCEPT ![r] = "done"] /\ req[r] = "work" /\ kind[r] = "money"
        /\ answer' = [answer EXCEPT ![r] = "error"]
        /\ total' = total + 1 /\ completed' = completed + 1
    BY <1>3 DEF SendPanics, CountRequest, CountCompleted
  <2>2. ServerTypeOK' /\ RequestInv'
    BY <1>1, <2>1 DEF ServerTypeOK, RequestInv, RequestStages
  <2>3. /\ r \notin CountedRequests /\ CountedRequests' = CountedRequests \cup {r}
    BY <1>1, <2>1 DEF ServerTypeOK, CountedRequests
  <2> QED
    BY <1>1, <1>2, <2>1, <2>2, <2>3, OneMore DEF Counts
<1>4. CASE CountTx(r)
  <2>1. /\ req' = [req EXCEPT ![r] = "respond"] /\ req[r] = "return"
        /\ answer' = answer /\ total' = total /\ completed' = completed + 1
    BY <1>4 DEF CountTx, CountCompleted
  <2>2. kind[r] \in {"update", "money"}
    BY <2>1 DEF RequestInv
  <2>3. ServerTypeOK' /\ RequestInv'
    BY <1>1, <2>1, <2>2 DEF ServerTypeOK, RequestInv, RequestStages
  <2>4. /\ CountedRequests' = CountedRequests
    BY <1>1, <2>1, <2>2 DEF ServerTypeOK, CountedRequests
  <2> QED
    BY <1>1, <1>2, <2>1, <2>3, <2>4, OneMore DEF Counts
<1>5. CASE Respond(r)
  <2>1. /\ req' = [req EXCEPT ![r] = "done"] /\ req[r] = "respond"
        /\ answer' = answer /\ total' = total + 1 /\ completed' = completed
    BY <1>5 DEF Respond, CountRequest
  <2>2. ServerTypeOK' /\ RequestInv'
    BY <1>1, <2>1 DEF ServerTypeOK, RequestInv, RequestStages
  <2>3. /\ r \notin CountedRequests /\ CountedRequests' = CountedRequests \cup {r}
    BY <1>1, <1>2, <2>1 DEF ServerTypeOK, CountedRequests
  <2> QED
    BY <1>1, <1>2, <2>1, <2>2, <2>3, OneMore DEF Counts
<1> QED
  BY <1>3, <1>4, <1>5

\* With the process its counters and the requests it counted are gone.
LEMMA ServerGoneKeeps ==
    ASSUME ServerInv, ServerGone
    PROVE  ServerInv'
<1> USE DEF ServerInv
<1>1. /\ \A r \in Requests :
             req'[r] = IF r \in AtWork THEN "cut"
                       ELSE IF req[r] = "done" THEN "past" ELSE req[r]
      /\ req' = [r \in Requests |-> req'[r]]
      /\ UNCHANGED <<kind, answer, sent, committed>>
      /\ server' = "off" /\ drain' = "off" /\ producer' = "absent"
      /\ total' = 0 /\ completed' = 0
  BY DEF ServerGone, AtWork
<1>2. ServerTypeOK'
  <2>1. \A r \in Requests : req'[r] \in RequestStages
    BY <1>1 DEF ServerTypeOK, RequestStages
  <2> QED
    BY <1>1, <2>1 DEF ServerTypeOK, ServerStages, DrainStages, ProducerStages
<1>3. RequestInv'
  BY <1>1 DEF RequestInv, AtWork
<1>4. CountedRequests' = {}
  BY <1>1 DEF CountedRequests, AtWork
<1> QED
  BY <1>1, <1>2, <1>3, <1>4, FS_EmptySet DEF Counts

LEMMA ServerStep ==
    ASSUME ServerInv, [Next]_vars
    PROVE  ServerInv'
<1>1. server \in ServerStages /\ drain \in DrainStages /\ producer \in ProducerStages
  BY DEF ServerInv, ServerTypeOK
<1>2. ASSUME UNCHANGED serverVars
      PROVE  ServerInv'
  BY <1>1, <1>2, RequestsUntouched DEF serverVars, runVars
<1>3. CASE Gone
  BY <1>3, ServerGoneKeeps DEF Gone
<1>4. CASE MainStep
  <2>1. StartupFails \/ Leave => Gone
    BY DEF StartupFails, Leave
  <2>2. CASE ReadConfig \/ ConnectStore \/ Migrate \/ DialConsumer \/ Retry \/ Collect
    BY <1>2, <2>2 DEF ReadConfig, ConnectStore, Migrate, DialConsumer, Proceed,
                      Retry, Collect
  <2>3. CASE Launch \/ Wait \/ CloseProducer
    <3>1. /\ UNCHANGED requestVars
          /\ server' \in ServerStages /\ drain' \in DrainStages
          /\ producer' \in ProducerStages
      BY <1>1, <2>3 DEF Launch, Wait, CloseProducer, runVars, ServerStages,
                        DrainStages, ProducerStages
    <3> QED
      BY <3>1, RequestsUntouched
  <2> QED
    BY <1>3, <1>4, <2>1, <2>2, <2>3 DEF MainStep
<1>5. CASE World
  <2>1. Crash => Gone
    BY DEF Crash
  <2>2. CASE Boot \/ Signal \/ (Announce /\ UNCHANGED <<serverVars, mainVars>>)
    BY <1>2, <2>2 DEF Boot, Signal
  <2>3. CASE \E r \in Requests : (Arrive(r) \/ GiveUp(r)) /\ UNCHANGED <<feedVars, mainVars>>
    BY <2>3, ArriveKeeps, UncountedKeeps
  <2> QED
    BY <1>3, <1>5, <2>1, <2>2, <2>3 DEF World
<1>6. CASE ServeStep
  <2>1. /\ UNCHANGED <<requestVars, producer>>
        /\ server' \in ServerStages /\ drain' \in DrainStages
    BY <1>1, <1>6 DEF ServeStep, Listen, ServerReturns, BeginDrain, ServerStages,
                      DrainStages
  <2> QED
    BY <1>1, <2>1, RequestsUntouched
<1>7. CASE ConsumeStep \/ ArchiverFails \/ ArchiverStops
  BY <1>2, <1>7 DEF ConsumeStep, ArchiverFails, ArchiverStops
<1>8. ASSUME NEW r \in Requests, HandlerStep(r)
      PROVE  ServerInv'
  BY <1>8, UncountedKeeps, CountedKeeps DEF HandlerStep, RequestStep
<1>9. CASE UNCHANGED vars
  BY <1>2, <1>9 DEF vars
<1> QED
  BY <1>4, <1>5, <1>6, <1>7, <1>8, <1>9 DEF Next

\* The server's invariant, in every behaviour of the process.
THEOREM ServerInductive == Spec => []ServerInv
<1>1. Init => ServerInv
  BY ServerInitial
<1>2. ServerInv /\ [Next]_vars => ServerInv'
  BY ServerStep
<1> QED
  BY <1>1, <1>2, PTL DEF Spec

\* Nothing is committed that was not sent, and who reads 200 has its money
\* moved, while the process drains, closes its producer, crashes or restarts.
THEOREM OrderIsKept == Spec => []ShutdownKeepsOrder
<1>1. ServerInv => ShutdownKeepsOrder
  BY DEF ServerInv, RequestInv, ShutdownKeepsOrder
<1> QED
  BY <1>1, ServerInductive, PTL

\* Every request past the middleware is counted once, whatever it ends in.
THEOREM AllRequestsCounted == Spec => []RequestsAreCounted
<1>1. ServerInv => RequestsAreCounted
  BY DEF ServerInv, Counts, CountedRequests, RequestsAreCounted
<1> QED
  BY <1>1, ServerInductive, PTL

(***************************************************************************)
(* Start-up, the errgroup and the end of main.                             *)
(***************************************************************************)
MainTypeOK ==
    /\ main \in MainStages /\ attempt \in 0 .. MaxRetries - 1
    /\ asked \in BOOLEAN /\ archiver \in ArchiverStages
    /\ cause \in Parts \cup {"none"} /\ runs \in 0 .. MaxRuns

LEMMA MainInitial == Init => MainTypeOK
<1>1. 0 \in 0 .. MaxRetries - 1 /\ 0 \in 0 .. MaxRuns
  BY ProcessAssumption
<1> QED
  BY <1>1, Zenon DEF Init, MainTypeOK, MainStages, ArchiverStages

\* NewConsumer gives up before the attempts run out of their range, and
\* every other stage counts none.
LEMMA MainStepKeeps ==
    ASSUME MainTypeOK, [Next]_vars
    PROVE  MainTypeOK'
<1> USE ProcessAssumption DEF MainTypeOK
<1>1. ASSUME UNCHANGED mainVars
      PROVE  MainTypeOK'
  BY <1>1 DEF mainVars
<1>2. CASE Gone
  <2>1. /\ main' = "down" /\ archiver' = "off" /\ cause' = "none"
        /\ attempt' = 0 /\ runs' = runs
    BY <1>2 DEF Gone
  <2>2. asked' \in BOOLEAN
    BY <1>2, Zenon DEF Gone
  <2> QED
    BY <2>1, <2>2 DEF MainStages, ArchiverStages
<1>3. CASE MainStep
  <2>1. StartupFails \/ Leave => Gone
    BY DEF StartupFails, Leave
  <2>2. CASE ReadConfig \/ ConnectStore \/ Migrate \/ DialConsumer
    BY <2>2 DEF ReadConfig, ConnectStore, Migrate, DialConsumer, Proceed,
                MainStages, StartupStages
  <2>3. CASE Launch
    BY <2>3 DEF Launch, MainStages, ArchiverStages
  <2>4. CASE Retry
    BY <2>4 DEF Retry
  <2>5. CASE Collect
    BY <2>5 DEF Collect
  <2>6. CASE Wait \/ CloseProducer
    BY <2>6 DEF Wait, CloseProducer, MainStages
  <2> QED
    BY <1>2, <1>3, <2>1, <2>2, <2>3, <2>4, <2>5, <2>6 DEF MainStep
<1>4. CASE World
  <2>1. Crash => Gone
    BY DEF Crash
  <2>2. CASE Boot \/ Signal
    <3>1. asked' \in BOOLEAN
      BY <2>2, Zenon DEF Boot, Signal
    <3>2. main' \in MainStages /\ cause' \in Parts \cup {"none"}
      BY <2>2 DEF Boot, Signal, MainStages, StartupStages
    <3>3. attempt' \in 0 .. MaxRetries - 1 /\ runs' \in 0 .. MaxRuns
      BY <2>2 DEF Boot, Signal
    <3> QED
      BY <2>2, <3>1, <3>2, <3>3 DEF Boot, Signal
  <2>3. CASE \/ Announce /\ UNCHANGED <<serverVars, mainVars>>
             \/ \E r \in Requests : (Arrive(r) \/ GiveUp(r)) /\ UNCHANGED <<feedVars, mainVars>>
    BY <1>1, <2>3
  <2> QED
    BY <1>2, <1>4, <2>1, <2>2, <2>3 DEF World
<1>5. CASE ConsumeStep \/ ServeStep \/ \E r \in Requests : HandlerStep(r)
  BY <1>1, <1>5 DEF ConsumeStep, ServeStep, HandlerStep
<1>6. CASE ArchiverFails \/ ArchiverStops
  BY <1>6 DEF ArchiverFails, ArchiverStops, ArchiverStages
<1>7. CASE UNCHANGED vars
  BY <1>1, <1>7 DEF vars
<1> QED
  BY <1>3, <1>4, <1>5, <1>6, <1>7 DEF Next

\* Every variable of the process has its type; in particular NewConsumer is
\* never beyond its last attempt.
THEOREM ProcessTypeCorrect == Spec => []ProcessTypeOK
<1>1. Init => MainTypeOK
  BY MainInitial
<1>2. MainTypeOK /\ [Next]_vars => MainTypeOK'
  BY MainStepKeeps
<1>3. FeedInv /\ ServerInv /\ MainTypeOK => ProcessTypeOK
  BY DEF FeedInv, ServerInv, MainTypeOK, ProcessTypeOK
<1> QED
  BY <1>1, <1>2, <1>3, ImplementsFeed, FeedInductive, ServerInductive, PTL DEF Spec
=============================================================================

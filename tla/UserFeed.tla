------------------------------ MODULE UserFeed ------------------------------
(***************************************************************************)
(* internal/broker/consumer.go and store.UpsertUser: the users of topic    *)
(* users on their way into table users, which a wallet's owner must be in. *)
(* The consumer commits no offset.  Each subscription starts behind the    *)
(* newest message, and the first message that cannot be decoded or stored  *)
(* ends Run, and with it the process.                                      *)
(***************************************************************************)
EXTENDS Integers, Sequences

CONSTANTS
    UserIds,    \* the user ids that occur
    Messages,   \* the messages producers may send
    MaxTopic    \* bound: messages in the topic

\* A message as the consumer tells it from others.  UserID.UnmarshalText
\* wants a JSON string inside the text, as UserID.MarshalText writes it: an
\* id spelled "plain" does not decode.  The generator marks a user with a
\* field deleted, the consumer looks for deletedAt.
Message == [user : UserIds, form : {"quoted", "plain"},
            deleted : BOOLEAN, deletedAt : BOOLEAN]

ASSUME FeedAssumption == Messages \subseteq Message /\ MaxTopic \in Nat

VARIABLES
    topic,      \* partition 0 of topic users, oldest message first
    consumer,   \* what Run does next
    next,       \* the offset of the message it takes next
    first,      \* the offset its subscription started at
    users,      \* table users
    stored,     \* history: the offsets whose message reached the table
    fatal       \* history: the offsets that ended a Run, one for each end

feedVars == <<topic, consumer, next, first, users, stored, fatal>>

ConsumerStages == {"off", "subscribe", "select", "upsert", "stopped", "failed"}

FeedInit ==
    /\ topic = <<>> /\ consumer = "off" /\ next = 1 /\ first = 1
    /\ users = [u \in UserIds |-> "absent"]
    /\ stored = {} /\ fatal = <<>>

Decodes(m) == m.form = "quoted"

\* the row an UPSERT of m leaves
RowOf(m) == IF m.deletedAt THEN "deleted" ELSE "present"

\* the user generator: an id, a flag, and nothing the consumer can read it by
Generated(u, deleted) ==
    [user |-> u, form |-> "quoted", deleted |-> deleted, deletedAt |-> FALSE]

\* a producer appends a message
Announce ==
    /\ Len(topic) < MaxTopic
    /\ \E m \in Messages : topic' = Append(topic, m)
    /\ UNCHANGED <<consumer, next, first, users, stored, fatal>>

\* mutant: the subscription starts at the oldest message
Mut_Subscribe ==
    /\ consumer = "subscribe"
    /\ consumer' = "select" /\ next' = 1 /\ first' = 1
    /\ UNCHANGED <<topic, users, stored, fatal>>

\* ConsumePartition(topic, 0, OffsetNewest)
Subscribe ==
    /\ consumer = "subscribe"
    /\ consumer' = "select" /\ next' = Len(topic) + 1 /\ first' = Len(topic) + 1
    /\ UNCHANGED <<topic, users, stored, fatal>>

SubscribeFails ==
    /\ consumer = "subscribe"
    /\ consumer' = "failed"
    /\ UNCHANGED <<topic, next, first, users, stored, fatal>>

\* mutant: a message that does not decode is logged and skipped
Mut_Take(usable) ==
    /\ consumer = "select" /\ next <= Len(topic)
    /\ next' = next + 1
    /\ consumer' = IF Decodes(topic[next]) /\ usable THEN "upsert" ELSE "select"
    /\ UNCHANGED <<topic, first, users, stored, fatal>>

\* A message is taken and decoded.  With a context that is not usable any
\* more the UPSERT fails before it is sent.
Take(usable) ==
    /\ consumer = "select" /\ next <= Len(topic)
    /\ next' = next + 1
    /\ IF Decodes(topic[next]) /\ usable
       THEN consumer' = "upsert" /\ UNCHANGED fatal
       ELSE consumer' = "failed" /\ fatal' = Append(fatal, next)
    /\ UNCHANGED <<topic, first, users, stored>>

\* mutant: ON CONFLICT DO NOTHING
Mut_Store(i) ==
    /\ users' = [users EXCEPT ![topic[i].user] =
                    IF @ = "absent" THEN RowOf(topic[i]) ELSE @]
    /\ stored' = stored \cup {i}

\* INSERT ... ON CONFLICT (user_id) DO UPDATE SET deleted_at
Store(i) ==
    /\ users' = [users EXCEPT ![topic[i].user] = RowOf(topic[i])]
    /\ stored' = stored \cup {i}

Upsert ==
    /\ consumer = "upsert"
    /\ Store(next - 1)
    /\ consumer' = "select"
    /\ UNCHANGED <<topic, next, first, fatal>>

\* the statement fails, or its answer is lost
UpsertFails ==
    /\ consumer = "upsert"
    /\ Store(next - 1) \/ UNCHANGED <<users, stored>>
    /\ consumer' = "failed" /\ fatal' = Append(fatal, next - 1)
    /\ UNCHANGED <<topic, next, first>>

\* ctx.Done() is seen
ConsumerStops ==
    /\ consumer = "select"
    /\ consumer' = "stopped"
    /\ UNCHANGED <<topic, next, first, users, stored, fatal>>

\* the process starts Run, or is gone
ConsumerBecomes(s) ==
    /\ consumer' = s /\ next' = 1 /\ first' = 1
    /\ UNCHANGED <<topic, users, stored, fatal>>

\* The feed in a process that starts it, cancels it and ends as it likes.
FeedNext ==
    \/ Announce \/ Subscribe \/ SubscribeFails
    \/ Take(TRUE) \/ Take(FALSE)
    \/ Upsert \/ UpsertFails \/ ConsumerStops
    \/ consumer = "off" /\ ConsumerBecomes("subscribe")
    \/ consumer # "off" /\ ConsumerBecomes("off")

FeedSpec == FeedInit /\ [][FeedNext]_feedVars

(***************************************************************************)
(* Properties.                                                             *)
(***************************************************************************)
FeedTypeOK ==
    /\ topic \in Seq(Messages)
    /\ consumer \in ConsumerStages
    /\ next \in 1 .. Len(topic) + 1 /\ first \in 1 .. next
    /\ users \in [UserIds -> {"absent", "present", "deleted"}]
    /\ stored \subseteq 1 .. Len(topic)
    /\ fatal \in Seq(1 .. Len(topic))

StoredFor(u) == {i \in stored : topic[i].user = u}

\* The row of a user is what the newest message about the user that was ever
\* stored says: restarts, failed statements and lost answers never bring an
\* older one back (OffsetNewest, and one message after the other).
UsersFollowTopic ==
    \A u \in UserIds :
        \/ StoredFor(u) = {} /\ users[u] = "absent"
        \/ \E i \in StoredFor(u) : /\ \A j \in StoredFor(u) : j <= i
                                   /\ users[u] = RowOf(topic[i])

\* A running consumer has stored every message since its subscription except
\* the one in its hand: it may end, but it does not lose a message and go on.
NothingSkipped ==
    consumer \in {"select", "upsert", "stopped"} =>
        \A i \in first .. next - 1 :
            i \in stored \/ (consumer = "upsert" /\ i = next - 1)

\* A message ends at most one Run, so that one that cannot be decoded does
\* not end every process that is started after it.
NoMessageFailsTwice ==
    \A i, j \in DOMAIN fatal : fatal[i] = fatal[j] => i = j
=============================================================================

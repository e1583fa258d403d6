------------------------------- MODULE PubSub -------------------------------
(***************************************************************************)
(* Publish/subscribe in mini-redis: the pub_sub map of src/db.rs with one  *)
(* tokio broadcast channel per name, and the subscribed loop of a client   *)
(* (src/cmd/subscribe.rs) with its StreamMap of receivers.                 *)
(*                                                                         *)
(* A message is its position in its channel; what it says plays no role.   *)
(* The write of a frame is a step of its own, as long as the peer makes it.*)
(***************************************************************************)
EXTENDS Integers, SequencesExt

CONSTANTS
    Clients,      \* connections that subscribe; any other may publish
    Channels,     \* channel names
    Capacity,     \* messages a broadcast channel retains: 1024
    MaxRequest,   \* bound on the channels named by one command
    MaxMessages   \* bound on the messages sent to one channel

ASSUME PubSubAssumption ==
    /\ IsFiniteSet(Clients)
    /\ IsFiniteSet(Channels)
    /\ Capacity \in Nat \ {0}
    /\ MaxRequest \in Nat \ {0}
    /\ MaxMessages \in Nat

VARIABLES
    \* State::pub_sub and its broadcast channels
    pub_sub,    \* the channels that have been created
    tail,       \* tail[ch]: how many messages ch was sent
    rx_count,   \* rx_count[ch]: how many receivers ch has
    \* one client's connection task
    session,    \* where it is
    todo,       \* the channels its command still has to work on
    fresh,      \* the position of a receiver not yet in the StreamMap
    cursor,     \* the StreamMap: cursor[c][ch] is {} or the next position
    message,    \* the message taken from a stream, being written
    \* what the client has been told
    acked,      \* the channels whose last confirmation was a subscribe
    seen        \* seen[c][ch]: one more than the last position delivered

broadcast == <<pub_sub, tail, rx_count>>
streams == <<fresh, cursor, message>>
told == <<acked, seen>>
vars == <<broadcast, session, todo, streams, told>>

Opt(S) == {o \in SUBSET S : \A x, y \in o : x = y}

Requests == UNION {[1..n -> Channels] : n \in 1..MaxRequest}

Subscriptions(c) == {ch \in Channels : cursor[c][ch] # {}}

\* Mutant: the number is taken before the StreamMap gets the new stream.
NumSubsBefore(c) ==
    Cardinality(IF session[c] = "ack" THEN Subscriptions(c) \ {Head(todo[c])} ELSE Subscriptions(c))

\* num_subs of a confirmation: subscriptions.len() when its frame is made.
NumSubs(c) == Cardinality(Subscriptions(c))

\* The oldest position a broadcast channel still holds.
Oldest(ch) == IF tail[ch] > Capacity THEN tail[ch] - Capacity ELSE 0

Init ==
    /\ pub_sub = {}
    /\ tail = [ch \in Channels |-> 0]
    /\ rx_count = [ch \in Channels |-> 0]
    /\ session = [c \in Clients |-> "idle"]
    /\ todo = [c \in Clients |-> <<>>]
    /\ fresh = [c \in Clients |-> {}]
    /\ cursor = [c \in Clients |-> [ch \in Channels |-> {}]]
    /\ message = [c \in Clients |-> {}]
    /\ acked = [c \in Clients |-> {}]
    /\ seen = [c \in Clients |-> [ch \in Channels |-> 0]]

-----------------------------------------------------------------------------
(***************************************************************************)
(* Publishing: Db::publish.                                                *)
(***************************************************************************)

\* A send without receivers is an error and stores nothing.
Publish(ch) ==
    /\ tail[ch] < MaxMessages
    /\ ch \in pub_sub
    /\ rx_count[ch] > 0
    /\ tail' = [tail EXCEPT ![ch] = @ + 1]
    /\ UNCHANGED <<pub_sub, rx_count, session, todo, streams, told>>

-----------------------------------------------------------------------------
(***************************************************************************)
(* Commands of a client.                                                   *)
(***************************************************************************)

\* SUBSCRIBE, from the handler's loop or from the subscribed loop.
Subscribe(c, channels) ==
    /\ session[c] \in {"idle", "select"}
    /\ session' = [session EXCEPT ![c] = "subscribing"]
    /\ todo' = [todo EXCEPT ![c] = channels]
    /\ UNCHANGED <<broadcast, streams, told>>

\* UNSUBSCRIBE of the named channels, subscribed or not.
Unsubscribe(c, channels) ==
    /\ session[c] = "select"
    /\ session' = [session EXCEPT ![c] = "unsubscribing"]
    /\ todo' = [todo EXCEPT ![c] = channels]
    /\ UNCHANGED <<broadcast, streams, told>>

\* UNSUBSCRIBE without a channel: of all, in the order of the StreamMap.
UnsubscribeAll(c) ==
    /\ session[c] = "select"
    /\ \E channels \in SetToSeqs(Subscriptions(c)) :
         /\ todo' = [todo EXCEPT ![c] = channels]
         /\ session' = [session EXCEPT ![c] =
                          IF channels = <<>> THEN "select" ELSE "unsubscribing"]
    /\ UNCHANGED <<broadcast, streams, told>>

\* Any other command is answered as unknown.
OtherCommand(c) ==
    /\ session[c] = "select"
    /\ session' = [session EXCEPT ![c] = "reply"]
    /\ UNCHANGED <<broadcast, todo, streams, told>>

ReplyWritten(c) ==
    /\ session[c] = "reply"
    /\ session' = [session EXCEPT ![c] = "select"]
    /\ UNCHANGED <<broadcast, todo, streams, told>>

-----------------------------------------------------------------------------
(***************************************************************************)
(* subscribe_to_channel, for each channel of self.channels.                *)
(***************************************************************************)

\* Mutant: a new receiver starts at the oldest message the channel holds.
RegisterFromOldest(c) ==
    LET ch == Head(todo[c]) IN
    /\ session[c] = "subscribing"
    /\ pub_sub' = pub_sub \cup {ch}
    /\ rx_count' = [rx_count EXCEPT ![ch] = @ + 1]
    /\ fresh' = [fresh EXCEPT ![c] = {Oldest(ch)}]
    /\ session' = [session EXCEPT ![c] = "registered"]
    /\ UNCHANGED <<tail, todo, cursor, message, told>>

\* Db::subscribe creates the channel or adds a receiver to it; the receiver
\* will get what is sent from now on.
Register(c) ==
    LET ch == Head(todo[c]) IN
    /\ session[c] = "subscribing"
    /\ pub_sub' = pub_sub \cup {ch}
    /\ rx_count' = [rx_count EXCEPT ![ch] = @ + 1]
    /\ fresh' = [fresh EXCEPT ![c] = {tail[ch]}]
    /\ session' = [session EXCEPT ![c] = "registered"]
    /\ UNCHANGED <<tail, todo, cursor, message, told>>

\* Mutant: the receiver that is replaced is kept alive somewhere.
InsertLeaks(c) ==
    LET ch == Head(todo[c]) IN
    /\ session[c] = "registered"
    /\ cursor' = [cursor EXCEPT ![c][ch] = fresh[c]]
    /\ fresh' = [fresh EXCEPT ![c] = {}]
    /\ session' = [session EXCEPT ![c] = "ack"]
    /\ UNCHANGED <<broadcast, todo, message, told>>

\* Mutant: the receiver is not put into the StreamMap and dropped.
InsertForgotten(c) ==
    LET ch == Head(todo[c]) IN
    /\ session[c] = "registered"
    /\ rx_count' = [rx_count EXCEPT ![ch] = @ - 1]
    /\ fresh' = [fresh EXCEPT ![c] = {}]
    /\ session' = [session EXCEPT ![c] = "ack"]
    /\ UNCHANGED <<pub_sub, tail, todo, cursor, message, told>>

\* StreamMap::insert: the receiver it replaces, if any, is dropped.
Insert(c) ==
    LET ch == Head(todo[c]) IN
    /\ session[c] = "registered"
    /\ rx_count' = [rx_count EXCEPT ![ch] = IF cursor[c][ch] = {} THEN @ ELSE @ - 1]
    /\ cursor' = [cursor EXCEPT ![c][ch] = fresh[c]]
    /\ fresh' = [fresh EXCEPT ![c] = {}]
    /\ session' = [session EXCEPT ![c] = "ack"]
    /\ UNCHANGED <<pub_sub, tail, todo, message, told>>

\* The next channel of the command, or the select! of the loop.
Continue(c, pc) ==
    /\ todo' = [todo EXCEPT ![c] = Tail(@)]
    /\ session' = [session EXCEPT ![c] = IF Len(todo[c]) = 1 THEN "select" ELSE pc]

AckWritten(c) ==
    /\ session[c] = "ack"
    /\ acked' = [acked EXCEPT ![c] = @ \cup {Head(todo[c])}]
    /\ Continue(c, "subscribing")
    /\ UNCHANGED <<broadcast, streams, seen>>

-----------------------------------------------------------------------------
(***************************************************************************)
(* The Unsubscribe branch of handle_command.                               *)
(***************************************************************************)

\* Mutant: the channel is confirmed but not removed from the StreamMap.
RemoveForgotten(c) ==
    /\ session[c] = "unsubscribing"
    /\ session' = [session EXCEPT ![c] = "unack"]
    /\ UNCHANGED <<broadcast, todo, streams, told>>

\* StreamMap::remove drops the receiver, if there is one.
RemoveStream(c) ==
    LET ch == Head(todo[c]) IN
    /\ session[c] = "unsubscribing"
    /\ rx_count' = [rx_count EXCEPT ![ch] = IF cursor[c][ch] = {} THEN @ ELSE @ - 1]
    /\ cursor' = [cursor EXCEPT ![c][ch] = {}]
    /\ session' = [session EXCEPT ![c] = "unack"]
    /\ UNCHANGED <<pub_sub, tail, todo, fresh, message, told>>

UnackWritten(c) ==
    /\ session[c] = "unack"
    /\ acked' = [acked EXCEPT ![c] = @ \ {Head(todo[c])}]
    /\ Continue(c, "unsubscribing")
    /\ UNCHANGED <<broadcast, streams, seen>>

-----------------------------------------------------------------------------
(***************************************************************************)
(* Messages: subscriptions.next() and the write of what it yields.         *)
(***************************************************************************)

\* Mutant: a receiver that lagged passes over the oldest message as well.
NextPositionSkips(c, ch) == {IF n >= Oldest(ch) THEN n ELSE Oldest(ch) + 1 : n \in cursor[c][ch]}

\* A receiver that lagged behind what the channel holds resumes at the oldest.
NextPosition(c, ch) == {IF n >= Oldest(ch) THEN n ELSE Oldest(ch) : n \in cursor[c][ch]}

\* The stream of ch yields its next message.
Receive(c, ch) ==
    /\ session[c] = "select"
    /\ \E n \in NextPosition(c, ch) :
         /\ n < tail[ch]
         /\ message' = [message EXCEPT ![c] = {[channel |-> ch, position |-> n]}]
         /\ cursor' = [cursor EXCEPT ![c][ch] = {n + 1}]
    /\ session' = [session EXCEPT ![c] = "deliver"]
    /\ UNCHANGED <<broadcast, todo, fresh, told>>

MessageWritten(c) ==
    /\ session[c] = "deliver"
    /\ \E m \in message[c] : seen' = [seen EXCEPT ![c][m.channel] = m.position + 1]
    /\ message' = [message EXCEPT ![c] = {}]
    /\ session' = [session EXCEPT ![c] = "select"]
    /\ UNCHANGED <<broadcast, todo, fresh, cursor, acked>>

-----------------------------------------------------------------------------
(***************************************************************************)
(* The end: the peer hangs up or sends an invalid frame, the shutdown is   *)
(* signalled, a write fails, or a poisoned mutex makes Db::subscribe panic.*)
(* Subscribe::apply drops its StreamMap, one receiver after another.       *)
(***************************************************************************)

Leave(c) ==
    /\ session[c] \in {"subscribing", "ack", "select", "deliver", "reply", "unack"}
    /\ session' = [session EXCEPT ![c] = "dropping"]
    /\ todo' = [todo EXCEPT ![c] = <<>>]
    /\ message' = [message EXCEPT ![c] = {}]
    /\ acked' = [acked EXCEPT ![c] = {}]
    /\ UNCHANGED <<broadcast, fresh, cursor, seen>>

DropReceiver(c, ch) ==
    /\ session[c] = "dropping"
    /\ cursor[c][ch] # {}
    /\ rx_count' = [rx_count EXCEPT ![ch] = @ - 1]
    /\ cursor' = [cursor EXCEPT ![c][ch] = {}]
    /\ UNCHANGED <<pub_sub, tail, session, todo, fresh, message, told>>

Dropped(c) ==
    /\ session[c] = "dropping"
    /\ Subscriptions(c) = {}
    /\ session' = [session EXCEPT ![c] = "ended"]
    /\ UNCHANGED <<broadcast, todo, streams, told>>

-----------------------------------------------------------------------------
Command(c) ==
    \/ \E channels \in Requests : Subscribe(c, channels) \/ Unsubscribe(c, channels)
    \/ UnsubscribeAll(c)
    \/ OtherCommand(c)

\* Steps of the session that need no event: code between two awaits, and
\* writes that the peer reads.
Proceed(c) ==
    \/ Register(c) \/ Insert(c) \/ RemoveStream(c)
    \/ AckWritten(c) \/ UnackWritten(c) \/ MessageWritten(c) \/ ReplyWritten(c)
    \/ (\E ch \in Channels : DropReceiver(c, ch)) \/ Dropped(c)

Next ==
    \/ \E ch \in Channels : Publish(ch)
    \/ \E c \in Clients :
         \/ Command(c)
         \/ Proceed(c)
         \/ \E ch \in Channels : Receive(c, ch)
         \/ Leave(c)

Spec == Init /\ [][Next]_vars

-----------------------------------------------------------------------------
Message == [channel : Channels, position : Nat]

TypeOK ==
    /\ pub_sub \subseteq Channels
    /\ tail \in [Channels -> Nat]
    /\ rx_count \in [Channels -> Int]
    /\ session \in [Clients -> {"idle", "subscribing", "registered", "ack", "select", "reply",
                                "deliver", "unsubscribing", "unack", "dropping", "ended"}]
    /\ todo \in [Clients -> Seq(Channels)]
    /\ fresh \in [Clients -> Opt(Nat)]
    /\ cursor \in [Clients -> [Channels -> Opt(Nat)]]
    /\ message \in [Clients -> Opt(Message)]
    /\ acked \in [Clients -> SUBSET Channels]
    /\ seen \in [Clients -> [Channels -> Nat]]

\* The clients that are between Db::subscribe and StreamMap::insert for ch.
Registering(ch) == {c \in Clients : session[c] = "registered" /\ Head(todo[c]) = ch}
Subscribers(ch) == {c \in Clients : cursor[c][ch] # {}}

(***************************************************************************)
(* What PUBLISH answers: every client subscribed to the channel counts     *)
(* once, and once more while it is subscribing to it again; when sessions  *)
(* end, unsubscribe or subscribe twice nothing leaks (db.rs:265-278;       *)
(* cmd/subscribe.rs:178-193, 235-236).                                     *)
(***************************************************************************)
ReceiversCounted ==
    \A ch \in Channels :
        rx_count[ch] = Cardinality(Subscribers(ch)) + Cardinality(Registering(ch))

(***************************************************************************)
(* A client that was told it is subscribed is listening: what is published *)
(* after its confirmation and before the next unsubscribe is not published *)
(* to nobody (cmd/subscribe.rs:178-199, 235-240).                          *)
(***************************************************************************)
AckedIsListening ==
    \A c \in Clients : \A ch \in acked[c] :
        \/ cursor[c][ch] # {} /\ rx_count[ch] > 0
        \/ session[c] = "unack" /\ Head(todo[c]) = ch

(***************************************************************************)
(* A confirmation ends with the number of channels that the client is      *)
(* subscribed to by what it has been told, this confirmation included:     *)
(* over channels named twice, subscribed again, unsubscribed without       *)
(* having been subscribed, and all at once (cmd/subscribe.rs:193-199,      *)
(* 228-240).                                                               *)
(***************************************************************************)
ConfirmedNumberIsTrue ==
    \A c \in Clients :
        /\ session[c] = "ack" => NumSubs(c) = Cardinality(acked[c] \cup {Head(todo[c])})
        /\ session[c] = "unack" => NumSubs(c) = Cardinality(acked[c] \ {Head(todo[c])})

(***************************************************************************)
(* A message frame comes only while the client has been told that it is    *)
(* subscribed to the channel: never before the confirmation, never after   *)
(* that of the unsubscribe (cmd/subscribe.rs:123-149, 193-199, 235-240).   *)
(***************************************************************************)
MessagesOnlyWhileSubscribed ==
    \A c \in Clients : \A m \in message[c] : m.channel \in acked[c]

(***************************************************************************)
(* Messages of a channel come in the order of their publication and none   *)
(* comes twice, also when the client lags or subscribes again              *)
(* (db.rs:243-260; cmd/subscribe.rs:181-193).                              *)
(***************************************************************************)
InOrderWithoutDuplicates ==
    \A c \in Clients : \A m \in message[c] : m.position >= seen[c][m.channel]

(***************************************************************************)
(* A subscription skips a message only when the channel no longer holds    *)
(* it, or by a new SUBSCRIBE, which replaces the receiver and with it what *)
(* was waiting in it (db.rs:248-255; cmd/subscribe.rs:184-186, 193).       *)
(***************************************************************************)
SkipsOnlyWhatIsGone ==
    [][\A c \in Clients, ch \in Channels : \A n \in cursor[c][ch], m \in cursor'[c][ch] :
          \/ m \in {n, n + 1}
          \/ n + Capacity < tail[ch] /\ m = tail[ch] - Capacity + 1
          \/ session[c] = "registered" /\ fresh[c] = {m} /\ m >= n]_vars
=============================================================================

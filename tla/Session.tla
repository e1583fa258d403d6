------------------------------ MODULE Session ------------------------------
(***************************************************************************)
(* The client library (src/client.rs) and the handler that serves it, the  *)
(* subscribed loop of src/cmd/subscribe.rs above all, with the connection  *)
(* between them: two channels of whole frames, as FrameChannel promises.   *)
(*                                                                         *)
(* A Client gets, sets and publishes until subscribe turns it into a       *)
(* Subscriber.  The handler works on a command without looking at its      *)
(* streams, so that the replies to a command are contiguous; messages of   *)
(* other publishers come before and after.                                 *)
(*                                                                         *)
(* A call may fail, and its future may be dropped: the application can go  *)
(* on with the Client or Subscriber, unless Client::subscribe had consumed *)
(* it.  BlockingClient makes the same calls and drops no future.           *)
(***************************************************************************)
EXTENDS Integers, SequencesExt

CONSTANTS
    Channels,     \* channel names
    MaxList,      \* bound on the channels of one call
    MaxCalls,     \* bound on the calls that send a command, a dropped one counts twice
    MaxMessages,  \* bound on the messages delivered
    MaxDrops      \* bound on the calls whose future is dropped

ASSUME SessionAssumption ==
    {MaxList, MaxCalls, MaxMessages, MaxDrops} \subseteq Nat

VARIABLES
    \* the client
    mode,                  \* "client", "subscriber", or "dropped"
    subscribed_channels,   \* Subscriber::subscribed_channels
    call,                  \* the call that is waiting, or "none"
    channels,              \* the channels it named
    awaited,               \* how many confirmations it is still waiting for
    calls,                 \* how many calls sent a command
    drops,                 \* how many futures were dropped
    \* the connection
    requests, replies,
    \* the handler
    subscriptions,         \* the keys of its StreamMap
    handler,               \* "open", or "closed" after an error or a shutdown
    messages,              \* how many messages it has delivered
    \* history
    failure,               \* the last call that failed, "dropped", or "none"
    careful                \* all calls named new channels, or some of its own

client == <<mode, subscribed_channels, call, channels, awaited, calls, drops, failure>>

server == <<subscriptions, handler, messages>>

vars == <<client, requests, replies, server, careful>>

Lists == BoundedSeq(Channels, MaxList)

ClientCalls == {"get", "set", "publish"}

\* A SET is answered with the text OK, a PUBLISH with a number.
Answer(command) ==
    [kind |-> CASE command = "get" -> "value"
                [] command = "set" -> "ok"
                [] command = "publish" -> "integer"]

\* The frames a call takes for its answer; get takes any text.
Accepted(command) ==
    CASE command = "get" -> {"value", "ok"}
      [] command = "set" -> {"ok"}
      [] command = "publish" -> {"integer"}

Reply(kind, channel) == [kind |-> kind, channel |-> channel]

Requests == [command : ClientCalls \cup {"subscribe", "unsubscribe"}, channels : Lists]

Replies ==
    [kind : {"value", "ok", "integer"}]
        \cup [kind : {"subscribe", "unsubscribe", "message"}, channel : Channels]

Init ==
    /\ mode = "client"
    /\ subscribed_channels = <<>>
    /\ call = "none"
    /\ channels = <<>>
    /\ awaited = 0
    /\ calls = 0
    /\ drops = 0
    /\ failure = "none"
    /\ requests = <<>>
    /\ replies = <<>>
    /\ subscriptions = {}
    /\ handler = "open"
    /\ messages = 0
    /\ careful = TRUE

-----------------------------------------------------------------------------
(***************************************************************************)
(* Calls of a Client (get, set, set_expires, publish, subscribe) and of a  *)
(* Subscriber (subscribe, unsubscribe, next_message).                      *)
(***************************************************************************)

Idle == call = "none" /\ mode # "dropped"

\* The frame of the command is written, and count replies are awaited; the
\* call returns at once when there are none to wait for.
Send(command, list, count) ==
    /\ Idle
    /\ calls + drops < MaxCalls
    /\ calls' = calls + 1
    /\ requests' = Append(requests, [command |-> command, channels |-> list])
    /\ channels' = list
    /\ awaited' = count
    /\ call' = IF count = 0 THEN "none" ELSE command
    /\ UNCHANGED <<subscribed_channels, drops, failure, replies, server>>

\* get, set and set_expires, publish: one request, one answer.
CallClient(command) ==
    /\ mode = "client"
    /\ Send(command, <<>>, 1)
    /\ UNCHANGED <<mode, careful>>

\* "a list of new channels"
New(list) ==
    /\ list # <<>>
    /\ IsInjective(list)
    /\ Range(list) \cap Range(subscribed_channels) = {}

\* Client::subscribe without a channel is a Subscriber at once.
CallSubscribe(list) ==
    /\ careful' = (careful /\ New(list))
    /\ Send("subscribe", list, Len(list))
    /\ mode' = IF list = <<>> THEN "subscriber" ELSE mode

Own(list) == IsInjective(list) /\ Range(list) \subseteq Range(subscribed_channels)

\* Mutant: without channels nothing is awaited.
CallUnsubscribeAtOnce(list) ==
    /\ mode = "subscriber"
    /\ careful' = (careful /\ Own(list))
    /\ Send("unsubscribe", list, Len(list))
    /\ UNCHANGED mode

\* Without channels it expects as many confirmations as it holds channels.
CallUnsubscribe(list) ==
    /\ mode = "subscriber"
    /\ careful' = (careful /\ Own(list))
    /\ Send("unsubscribe", list,
            IF list = <<>> THEN Len(subscribed_channels) ELSE Len(list))
    /\ UNCHANGED mode

\* The call is over without a result: Client::subscribe has consumed the
\* Client and drops it, the other calls have borrowed theirs.
GivesUp ==
    /\ call' = "none"
    /\ mode' = IF mode = "client" /\ call = "subscribe" THEN "dropped" ELSE mode

\* The future of a call is dropped, by a timeout or a select!.  Its request
\* is with the connection; a next_message that is dropped has read nothing.
Abandon ==
    /\ call # "none"
    /\ drops < MaxDrops
    /\ drops' = drops + 1
    /\ failure' = "dropped"
    /\ GivesUp
    /\ UNCHANGED <<subscribed_channels, channels, awaited, calls, requests, replies, server, careful>>

-----------------------------------------------------------------------------
(***************************************************************************)
(* What a call reads.                                                      *)
(***************************************************************************)

\* The next frame has been read by a call, which found what it expected.
Confirmed ==
    /\ awaited' = awaited - 1
    /\ call' = IF awaited = 1 THEN "none" ELSE call
    /\ UNCHANGED failure

Fails ==
    /\ failure' = call
    /\ GivesUp
    /\ UNCHANGED awaited

Response ==
    /\ replies # <<>>
    /\ replies' = Tail(replies)
    /\ UNCHANGED <<channels, calls, drops, requests, server, careful>>

\* get, set_cmd and publish.
ReadAnswer ==
    /\ call \in ClientCalls
    /\ Response
    /\ IF Head(replies).kind \in Accepted(call)
       THEN Confirmed /\ UNCHANGED mode
       ELSE Fails
    /\ UNCHANGED subscribed_channels

\* subscribe_cmd: the frames must confirm the channels in order; after the
\* last one the Subscriber adds them all to its list.
ReadSubscribed ==
    /\ call = "subscribe"
    /\ Response
    /\ LET next == channels[Len(channels) - awaited + 1]
       IN  IF Head(replies) = Reply("subscribe", next)
           THEN /\ Confirmed
                /\ subscribed_channels' =
                     IF awaited = 1 THEN subscribed_channels \o channels
                     ELSE subscribed_channels
                /\ mode' = IF awaited = 1 THEN "subscriber" ELSE mode
           ELSE Fails /\ UNCHANGED subscribed_channels

\* Mutant: only the first entry of the channel is removed.
WithoutFirst(list, channel) == ReplaceFirstSubSeq(<<>>, <<channel>>, list)

\* retain: the k-th entry of what is left is the k-th that names another channel.
Without(list, channel) ==
    LET Kept == {i \in DOMAIN list : list[i] # channel}
        Rank(i) == Cardinality({j \in Kept : j <= i})
    IN  [k \in 1..Cardinality(Kept) |-> list[CHOOSE i \in Kept : Rank(i) = k]]

\* unsubscribe: any channel may be confirmed, as long as that takes exactly
\* one entry off the list.  The list keeps what retain made of it.
ReadUnsubscribed ==
    /\ call = "unsubscribe"
    /\ Response
    /\ IF Head(replies).kind = "unsubscribe"
       THEN LET left == Without(subscribed_channels, Head(replies).channel)
            IN  /\ subscribed_channels' = left
                /\ IF Len(left) = Len(subscribed_channels) - 1
                   THEN Confirmed /\ UNCHANGED mode
                   ELSE Fails
       ELSE Fails /\ UNCHANGED subscribed_channels

\* read_response: the server has closed the connection.  A write_frame that
\* fails for the same reason returns its error here, too.
ReadEnd ==
    /\ call # "none"
    /\ replies = <<>>
    /\ handler = "closed"
    /\ Fails
    /\ UNCHANGED <<subscribed_channels, channels, calls, drops, requests, replies, server, careful>>

Read == ReadAnswer \/ ReadSubscribed \/ ReadUnsubscribed \/ ReadEnd

\* next_message: anything but a message is an error.
NextMessage ==
    /\ Idle
    /\ mode = "subscriber"
    /\ Response
    /\ failure' = IF Head(replies).kind = "message" THEN failure ELSE "next_message"
    /\ UNCHANGED <<mode, subscribed_channels, call, awaited>>

-----------------------------------------------------------------------------
(***************************************************************************)
(* The handler: apply of a command, Subscribe::apply above all.            *)
(***************************************************************************)

Confirmations(kind, list) == [i \in DOMAIN list |-> Reply(kind, list[i])]

\* Mutant: the channels are confirmed in the opposite order.
ServeSubscribeReversed(list) ==
    /\ list # <<>>
    /\ subscriptions' = subscriptions \cup Range(list)
    /\ replies' = replies \o Confirmations("subscribe", Reverse(list))
    /\ UNCHANGED handler

\* subscribe_to_channel for each channel
ServeSubscribe(list) ==
    /\ list # <<>>
    /\ subscriptions' = subscriptions \cup Range(list)
    /\ replies' = replies \o Confirmations("subscribe", list)
    /\ UNCHANGED handler

\* A SUBSCRIBE without a channel does not parse: the handler ends.
RejectSubscribe(list) ==
    /\ list = <<>>
    /\ handler' = "closed"
    /\ UNCHANGED <<subscriptions, replies>>

\* Mutant: without channels none is unsubscribed.
ServeUnsubscribeNamed(list) ==
    /\ subscriptions' = subscriptions \ Range(list)
    /\ replies' = replies \o Confirmations("unsubscribe", list)
    /\ UNCHANGED handler

\* handle_command: without channels, all that are subscribed, in the order
\* the StreamMap happens to have.
ServeUnsubscribe(list) ==
    \E all \in SetToSeqs(subscriptions) :
        LET removed == IF list = <<>> THEN all ELSE list
        IN  /\ subscriptions' = subscriptions \ Range(removed)
            /\ replies' = replies \o Confirmations("unsubscribe", removed)
            /\ UNCHANGED handler

\* What GET, SET and PUBLISH do is in Db and PubSub.
ServeClient(command) ==
    /\ replies' = Append(replies, Answer(command))
    /\ UNCHANGED <<subscriptions, handler>>

Serve ==
    /\ handler = "open"
    /\ requests # <<>>
    /\ requests' = Tail(requests)
    /\ LET list == Head(requests).channels
           command == Head(requests).command
       IN  \/ command = "subscribe" /\ (ServeSubscribe(list) \/ RejectSubscribe(list))
           \/ command = "unsubscribe" /\ ServeUnsubscribe(list)
           \/ command \in ClientCalls /\ ServeClient(command)
    /\ UNCHANGED <<client, messages, careful>>

\* A message of a publisher.
Deliver(channel) ==
    /\ handler = "open"
    /\ channel \in subscriptions
    /\ messages < MaxMessages
    /\ messages' = messages + 1
    /\ replies' = Append(replies, Reply("message", channel))
    /\ UNCHANGED <<client, requests, subscriptions, handler, careful>>

Shutdown ==
    /\ handler = "open"
    /\ handler' = "closed"
    /\ UNCHANGED <<client, requests, replies, subscriptions, messages, careful>>

Next ==
    \/ \E command \in ClientCalls : CallClient(command)
    \/ \E list \in Lists : CallSubscribe(list) \/ CallUnsubscribe(list)
    \/ Abandon
    \/ Read
    \/ NextMessage
    \/ Serve
    \/ \E channel \in Channels : Deliver(channel)
    \/ Shutdown

\* The handler's task runs and its select! polls the connection; the calls
\* are awaited.
Fairness == WF_vars(Serve) /\ WF_vars(Read)

Spec == Init /\ [][Next]_vars

FairSpec == Spec /\ Fairness

-----------------------------------------------------------------------------
(***************************************************************************)
(* Properties.                                                             *)
(***************************************************************************)

\* The values the variables range over.
TypeOK ==
    /\ mode \in {"client", "subscriber", "dropped"}
    /\ subscribed_channels \in Seq(Channels)
    /\ call \in {"none", "subscribe", "unsubscribe"} \cup ClientCalls
    /\ channels \in Lists
    /\ awaited \in Nat
    /\ calls \in 0..MaxCalls
    /\ drops \in 0..MaxDrops
    /\ requests \in Seq(Requests)
    /\ replies \in Seq(Replies)
    /\ subscriptions \subseteq Channels
    /\ handler \in {"open", "closed"}
    /\ messages \in 0..MaxMessages
    /\ failure \in {"none", "subscribe", "unsubscribe", "next_message", "dropped"} \cup ClientCalls
    /\ careful \in BOOLEAN

\* No call has failed or was dropped so far.
Untroubled == failure = "none"

(***************************************************************************)
(* As long as no call has failed, whenever the client is between two calls *)
(* and the handler has served them all, get_subscribed names the channels  *)
(* the handler is subscribed to: neither side adds up or forgets what the  *)
(* other does not, whatever lists the application passes (client.rs:410-   *)
(* 472, cmd/subscribe.rs:207-248).                                         *)
(***************************************************************************)
InStep ==
    (Untroubled /\ Idle /\ requests = <<>> /\ handler = "open")
        => Range(subscribed_channels) = subscriptions

(***************************************************************************)
(* Between two calls no reply is left over for a later call to trip on: a  *)
(* Client finds nothing on its connection, so that the next answer is its  *)
(* own, and a Subscriber only messages of channels it holds, and none of a *)
(* channel after unsubscribe has returned (client.rs:110-130, 220-274,     *)
(* 370-388, 425-472).                                                      *)
(***************************************************************************)
OnlyOwnMessages ==
    (Untroubled /\ Idle) =>
        \A i \in DOMAIN replies :
            /\ replies[i].kind = "message"
            /\ replies[i].channel \in Range(subscribed_channels)

(***************************************************************************)
(* For an application that subscribes to new channels only and             *)
(* unsubscribes from its own, the first call that fails does so because    *)
(* the server has closed the connection or a message came where a          *)
(* confirmation was expected, and for no other reason.                     *)
(***************************************************************************)
FailsForCause ==
    [][careful /\ Untroubled /\ failure' \notin {"none", "dropped"} =>
          IF replies = <<>> THEN handler = "closed"
          ELSE Head(replies).kind = "message"]_vars

(***************************************************************************)
(* A call does not wait for a reply that never comes, after failed and     *)
(* dropped calls too, as long as it names its channels (client.rs:309,     *)
(* 443); an unsubscribe from everything counts on the list of the          *)
(* Subscriber, and returns as long as nothing has failed.                  *)
(***************************************************************************)
CallsReturn ==
    (call # "none" /\ (Untroubled \/ call # "unsubscribe" \/ channels # <<>>))
        ~> call = "none"

(***************************************************************************)
(* What a comment of subscribe_cmd says (client.rs:307-308): "For each     *)
(* channel being subscribed to, the server responds with a message         *)
(* confirming subscription": the frame that a subscribe reads is a         *)
(* confirmation.                                                           *)
(***************************************************************************)
ConfirmationComesNext ==
    (Untroubled /\ call = "subscribe" /\ replies # <<>>)
        => Head(replies).kind = "subscribe"

(***************************************************************************)
(* What a comment of unsubscribe says (client.rs:433-435): without         *)
(* channels the "server acknowledges as unsubscribing from all subscribed  *)
(* channels", as many as the client awaits: the call returns.              *)
(***************************************************************************)
AllAreAcknowledged ==
    (call = "unsubscribe" /\ channels = <<>>) ~> call = "none"
=============================================================================

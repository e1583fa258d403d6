--------------------------- MODULE CommandProofs ---------------------------
(***************************************************************************)
(* The client and the server agree on the encoding of commands, for every  *)
(* set of texts, every table of lower cases and numbers, and whatever      *)
(* other requests there are.                                               *)
(***************************************************************************)
EXTENDS Command, TLAPS

-----------------------------------------------------------------------------
(***************************************************************************)
(* One lemma for each kind of command: parse_frames undoes into_frame.     *)
(***************************************************************************)

\* The name at the head of a frame selects the command.
LEMMA NameRead ==
    ASSUME NEW name \in Names, NEW parts,
           parts # <<>>, parts[1] = BulkFrame(name)
    PROVE  /\ IsString(parts[1])
           /\ Lower[parts[1].value] = name
BY TextsAssumption DEF BulkFrame, IsString

\* GET key
LEMMA GetUnderstood ==
    ASSUME NEW key \in Texts
    PROVE  FromFrame(IntoFrame(Get(key))) = Get(key)
<1> DEFINE parts == <<BulkFrame("get"), BulkFrame(key)>>
<1>1. IntoFrame(Get(key)) = parts
  BY DEF IntoFrame, Get
<1>2. /\ Len(parts) = 2 /\ parts # <<>>
      /\ parts[1] = BulkFrame("get") /\ parts[2] = BulkFrame(key)
  OBVIOUS
<1>3. IsString(parts[1]) /\ Lower[parts[1].value] = "get"
  BY <1>2, NameRead DEF Names
<1>4. IsString(parts[2]) /\ parts[2].value = key
  BY <1>2 DEF IsString, BulkFrame
<1>5. ParseGet(parts) = Get(key)
  BY <1>2, <1>4 DEF ParseGet
<1> HIDE DEF parts
<1>6. FromFrame(parts) = ParseGet(parts)
  BY <1>2, <1>3 DEF FromFrame
<1> QED
  BY <1>1, <1>5, <1>6

\* PUBLISH channel message
LEMMA PublishUnderstood ==
    ASSUME NEW channel \in Texts, NEW message \in Contents
    PROVE  FromFrame(IntoFrame(Publish(channel, message))) = Publish(channel, message)
<1> DEFINE parts == <<BulkFrame("publish"), BulkFrame(channel), BulkFrame(message)>>
<1>1. IntoFrame(Publish(channel, message)) = parts
  BY DEF IntoFrame, Publish
<1>2. /\ Len(parts) = 3 /\ parts # <<>>
      /\ parts[1] = BulkFrame("publish") /\ parts[2] = BulkFrame(channel) /\ parts[3] = BulkFrame(message)
  OBVIOUS
<1>3. IsString(parts[1]) /\ Lower[parts[1].value] = "publish"
  BY <1>2, NameRead DEF Names
<1>4. /\ IsString(parts[2]) /\ parts[2].value = channel
      /\ IsBytes(parts[3]) /\ parts[3].value = message
  BY <1>2 DEF IsString, IsBytes, BulkFrame
<1>5. ParsePublish(parts) = Publish(channel, message)
  BY <1>2, <1>4 DEF ParsePublish
<1> HIDE DEF parts
<1>6. FromFrame(parts) = ParsePublish(parts)
  BY <1>2, <1>3 DEF FromFrame
<1> QED
  BY <1>1, <1>5, <1>6

\* SET key value, without an expiration
LEMMA SetUnderstood ==
    ASSUME NEW key \in Texts, NEW value \in Contents
    PROVE  FromFrame(IntoFrame(Set(key, value, {}))) = Set(key, value, {})
<1> DEFINE parts == <<BulkFrame("set"), BulkFrame(key), BulkFrame(value)>>
<1>1. IntoFrame(Set(key, value, {})) = parts
  BY DEF IntoFrame, SetEntries, Set
<1>2. /\ Len(parts) = 3 /\ parts # <<>>
      /\ parts[1] = BulkFrame("set") /\ parts[2] = BulkFrame(key) /\ parts[3] = BulkFrame(value)
  OBVIOUS
<1>3. IsString(parts[1]) /\ Lower[parts[1].value] = "set"
  BY <1>2, NameRead DEF Names
<1>4. /\ IsString(parts[2]) /\ parts[2].value = key
      /\ IsBytes(parts[3]) /\ parts[3].value = value
  BY <1>2 DEF IsString, IsBytes, BulkFrame
<1> HIDE DEF parts
<1>5. ParseSet(parts) = Set(key, value, {})
  BY <1>2, <1>4 DEF ParseSet
<1>6. FromFrame(parts) = ParseSet(parts)
  BY <1>2, <1>3 DEF FromFrame
<1> QED
  BY <1>1, <1>5, <1>6

\* A whole number of milliseconds below 2^64 survives as_millis() as u64.
LEMMA MillisExact ==
    ASSUME NEW duration \in Nat,
           duration % PerMilli = 0, duration \div PerMilli < MaxU64
    PROVE  Millis(duration) \in Nat /\ Millis(duration) * PerMilli = duration
<1> DEFINE ms == duration \div PerMilli
<1>1. ms \in Nat /\ duration = ms * PerMilli
  BY NumbersAssumption
<1>2. Millis(duration) = ms % MaxU64
  BY DEF Millis
<1>3. ms < MaxU64 /\ MaxU64 \in Nat \ {0}
  BY NumbersAssumption
<1> HIDE DEF ms
<1>4. ms % MaxU64 = ms
  BY <1>1, <1>3
<1> QED
  BY <1>1, <1>2, <1>4

\* SET key value PX milliseconds
LEMMA SetExpireUnderstood ==
    ASSUME NEW key \in Texts, NEW value \in Contents, NEW duration \in Nat,
           duration % PerMilli = 0, duration \div PerMilli < MaxU64
    PROVE  FromFrame(IntoFrame(Set(key, value, {duration}))) = Set(key, value, {duration})
<1> DEFINE ms == Millis(duration)
           parts == <<BulkFrame("set"), BulkFrame(key), BulkFrame(value), BulkFrame("px"), IntegerFrame(ms)>>
<1>1. (CHOOSE d \in {duration} : TRUE) = duration
  OBVIOUS
<1>2. IntoFrame(Set(key, value, {duration})) = parts
  BY <1>1 DEF IntoFrame, SetEntries, Set
<1>3. /\ Len(parts) = 5 /\ parts # <<>>
      /\ parts[1] = BulkFrame("set") /\ parts[2] = BulkFrame(key) /\ parts[3] = BulkFrame(value)
      /\ parts[4] = BulkFrame("px") /\ parts[5] = IntegerFrame(ms)
  OBVIOUS
<1>4. IsString(parts[1]) /\ Lower[parts[1].value] = "set"
  BY <1>3, NameRead DEF Names
<1>5. /\ IsString(parts[2]) /\ parts[2].value = key
      /\ IsBytes(parts[3]) /\ parts[3].value = value
  BY <1>3 DEF IsString, IsBytes, BulkFrame
<1>6. /\ IsString(parts[4]) /\ Lower[parts[4].value] = "px"
      /\ IsInt(parts[5]) /\ IntOf(parts[5]) = ms
  BY <1>3, TextsAssumption DEF Options, IsString, IsInt, IntOf, BulkFrame, IntegerFrame
<1>7. ms \in Nat /\ ms * PerMilli = duration
  BY MillisExact
<1> HIDE DEF parts, ms
<1>8. HasExpire(parts)
  BY <1>6 DEF HasExpire, Options
<1>9. Expire(parts) = duration
  BY <1>6, <1>7, NumbersAssumption DEF Expire
<1>10. ParseSet(parts) = Set(key, value, {duration})
  BY <1>3, <1>5, <1>8, <1>9 DEF ParseSet
<1>11. FromFrame(parts) = ParseSet(parts)
  BY <1>3, <1>4 DEF FromFrame
<1> QED
  BY <1>2, <1>10, <1>11

\* SUBSCRIBE and UNSUBSCRIBE: the entries after the name are the channels.
LEMMA ChannelsRead ==
    ASSUME NEW name \in Names, NEW channels \in Seq(Texts)
    PROVE  LET parts == ChannelEntries(name, channels)
           IN  /\ parts # <<>> /\ parts[1] = BulkFrame(name)
               /\ Len(parts) = Len(channels) + 1
               /\ StringsFrom(parts, 2)
               /\ ValuesFrom(parts, 2) = channels
<1> DEFINE parts == ChannelEntries(name, channels)
<1>1. Len(channels) \in Nat /\ channels = [i \in 1..Len(channels) |-> channels[i]]
      /\ \A i \in 1..Len(channels) : channels[i] \in Texts
  OBVIOUS
<1>2. /\ parts = [i \in 1..(Len(channels) + 1) |->
                    BulkFrame(IF i = 1 THEN name ELSE channels[i - 1])]
  BY DEF ChannelEntries
<1>3. /\ parts \in Seq({BulkFrame(text) : text \in Texts})
      /\ Len(parts) = Len(channels) + 1
  <2>1. name \in Texts
    BY TextsAssumption
  <2>2. \A i \in 1..(Len(channels) + 1) :
            (IF i = 1 THEN name ELSE channels[i - 1]) \in Texts
    BY <1>1, <2>1
  <2> QED
    BY <1>1, <1>2, <2>2
<1>4. parts[1] = BulkFrame(name) /\ parts # <<>>
  BY <1>1, <1>2, <1>3
<1>5. \A i \in 2..Len(parts) : parts[i] = BulkFrame(channels[i - 1]) /\ channels[i - 1] \in Texts
  BY <1>1, <1>2, <1>3
<1>6. StringsFrom(parts, 2)
  <2>1. \A text \in Texts : IsString(BulkFrame(text))
    BY DEF IsString, BulkFrame
  <2> HIDE DEF parts
  <2> QED
    BY <1>5, <2>1 DEF StringsFrom
<1>7. ValuesFrom(parts, 2) = channels
  <2>1. ValuesFrom(parts, 2) = [i \in 1..Len(channels) |-> parts[i + 1].value]
    BY <1>1, <1>3 DEF ValuesFrom
  <2>2. \A i \in 1..Len(channels) : parts[i + 1].value = channels[i]
    BY <1>1, <1>2 DEF BulkFrame
  <2> HIDE DEF parts
  <2> QED
    BY <1>1, <2>1, <2>2
<1> QED
  BY <1>3, <1>4, <1>6, <1>7

LEMMA SubscribeUnderstood ==
    ASSUME NEW channels \in Seq(Texts), channels # <<>>
    PROVE  FromFrame(IntoFrame(Subscribe(channels))) = Subscribe(channels)
<1> DEFINE parts == ChannelEntries("subscribe", channels)
<1>1. IntoFrame(Subscribe(channels)) = parts
  BY DEF IntoFrame, Subscribe
<1>2. /\ parts # <<>> /\ parts[1] = BulkFrame("subscribe")
      /\ Len(parts) = Len(channels) + 1
      /\ StringsFrom(parts, 2) /\ ValuesFrom(parts, 2) = channels
  BY ChannelsRead DEF Names
<1> HIDE DEF parts
<1>3. IsString(parts[1]) /\ Lower[parts[1].value] = "subscribe"
  BY <1>2, NameRead DEF Names
<1>4. Len(channels) \in Nat /\ Len(channels) >= 1
  OBVIOUS
<1>5. ParseSubscribe(parts) = Subscribe(channels)
  BY <1>2, <1>4 DEF ParseSubscribe
<1>6. FromFrame(parts) = ParseSubscribe(parts)
  BY <1>2, <1>3 DEF FromFrame
<1> QED
  BY <1>1, <1>5, <1>6

LEMMA UnsubscribeUnderstood ==
    ASSUME NEW channels \in Seq(Texts)
    PROVE  FromFrame(IntoFrame(Unsubscribe(channels))) = Unsubscribe(channels)
<1> DEFINE parts == ChannelEntries("unsubscribe", channels)
<1>1. IntoFrame(Unsubscribe(channels)) = parts
  BY DEF IntoFrame, Unsubscribe
<1>2. /\ parts # <<>> /\ parts[1] = BulkFrame("unsubscribe")
      /\ StringsFrom(parts, 2) /\ ValuesFrom(parts, 2) = channels
  BY ChannelsRead DEF Names
<1> HIDE DEF parts
<1>3. IsString(parts[1]) /\ Lower[parts[1].value] = "unsubscribe"
  BY <1>2, NameRead DEF Names
<1>4. ParseUnsubscribe(parts) = Unsubscribe(channels)
  BY <1>2 DEF ParseUnsubscribe
<1>5. FromFrame(parts) = ParseUnsubscribe(parts)
  BY <1>2, <1>3 DEF FromFrame
<1> QED
  BY <1>1, <1>4, <1>5

-----------------------------------------------------------------------------
(***************************************************************************)
(* from_frame undoes into_frame for every command that can be sent.        *)
(***************************************************************************)
THEOREM EncodingUnderstood ==
    ASSUME NEW command \in ClientCommands, Transmissible(command)
    PROVE  FromFrame(IntoFrame(command)) = command
<1>1. CASE command \in [command : {"get"}, key : Texts]
  <2>1. command = Get(command.key) /\ command.key \in Texts
    BY <1>1 DEF Get
  <2> QED
    BY <2>1, GetUnderstood
<1>2. CASE command \in [command : {"publish"}, channel : Texts, message : Contents]
  <2>1. /\ command = Publish(command.channel, command.message)
        /\ command.channel \in Texts /\ command.message \in Contents
    BY <1>2 DEF Publish
  <2> QED
    BY <2>1, PublishUnderstood
<1>3. CASE command \in [command : {"set"}, key : Texts, value : Contents, expire : Durations]
  <2>1. /\ command = Set(command.key, command.value, command.expire)
        /\ command.key \in Texts /\ command.value \in Contents
        /\ command.expire \in Durations
        /\ command.command = "set"
    BY <1>3 DEF Set
  <2>2. CASE command.expire = {}
    BY <2>1, <2>2, SetUnderstood
  <2>3. CASE command.expire # {}
    <3>1. PICK duration \in command.expire : TRUE
      BY <2>3
    <3>2. command.expire = {duration} /\ duration \in Nat
      BY <2>1, <3>1 DEF Durations
    <3>3. duration % PerMilli = 0 /\ duration \div PerMilli < MaxU64
      BY <2>1, <3>1 DEF Transmissible
    <3> QED
      BY <2>1, <3>2, <3>3, SetExpireUnderstood
  <2> QED
    BY <2>2, <2>3
<1>4. CASE command \in [command : {"subscribe", "unsubscribe"}, channels : Seq(Texts)]
  <2>1. command.channels \in Seq(Texts)
    BY <1>4
  <2>2. CASE command.command = "subscribe"
    <3>1. command = Subscribe(command.channels)
      BY <1>4, <2>2 DEF Subscribe
    <3>2. command.channels # <<>>
      BY <2>2 DEF Transmissible
    <3> QED
      BY <2>1, <3>1, <3>2, SubscribeUnderstood
  <2>3. CASE command.command = "unsubscribe"
    <3>1. command = Unsubscribe(command.channels)
      BY <1>4, <2>3 DEF Unsubscribe
    <3> QED
      BY <2>1, <3>1, UnsubscribeUnderstood
  <2> QED
    BY <1>4, <2>2, <2>3
<1> QED
  BY <1>1, <1>2, <1>3, <1>4 DEF ClientCommands

-----------------------------------------------------------------------------
\* The request is the frame of the command that was called.
Asked ==
    \/ asked = {}
    \/ \E command \in ClientCommands : asked = {command} /\ request = IntoFrame(command)

(***************************************************************************)
(* The server understands every call of a client as it was meant           *)
(* (cmd/*.rs, into_frame and parse_frames; cmd/mod.rs:40-79).              *)
(***************************************************************************)
THEOREM CallsUnderstood == Spec => []UnderstoodAsMeant
<1>1. Init => Asked
  BY DEF Init, Asked
<1>2. Asked /\ [Next]_vars => Asked'
  <2> SUFFICES ASSUME Asked, [Next]_vars PROVE Asked'
    OBVIOUS
  <2>1. ASSUME NEW command \in Calls, Call(command) PROVE Asked'
    BY <2>1, CallsAssumption DEF Call, Asked
  <2>2. ASSUME NEW entry \in Entries, Extend(entry) PROVE Asked'
    BY <2>2 DEF Extend, Asked
  <2>3. CASE UNCHANGED vars
    BY <2>3 DEF vars, Asked
  <2> QED
    BY <2>1, <2>2, <2>3 DEF Next
<1>3. Asked => UnderstoodAsMeant
  <2> SUFFICES ASSUME Asked, NEW command \in asked, Transmissible(command)
               PROVE  FromFrame(request) = command
    BY DEF UnderstoodAsMeant
  <2>1. PICK called \in ClientCommands : asked = {called} /\ request = IntoFrame(called)
    BY DEF Asked
  <2>2. command = called
    BY <2>1
  <2> QED
    BY <2>1, <2>2, EncodingUnderstood
<1> QED
  BY <1>1, <1>2, <1>3, PTL DEF Spec

-----------------------------------------------------------------------------
\* What from_frame returns says which parse_frames it comes from.
LEMMA CommandIs ==
    ASSUME NEW parts,
           FromFrame(parts).command \in {"get", "publish", "set"}
    PROVE  /\ parts # <<>> /\ IsString(parts[1])
           /\ FromFrame(parts).command = "get" =>
                Lower[parts[1].value] = "get" /\ Len(parts) = 2
           /\ FromFrame(parts).command = "publish" =>
                Lower[parts[1].value] = "publish" /\ Len(parts) = 3
           /\ FromFrame(parts).command = "set" => Lower[parts[1].value] = "set"
<1> DEFINE name == Lower[parts[1].value]
<1>1. /\ \A key : Get(key).command = "get"
      /\ \A channel, message : Publish(channel, message).command = "publish"
      /\ \A key, value, expire : Set(key, value, expire).command = "set"
      /\ \A channels : Subscribe(channels).command = "subscribe"
      /\ \A channels : Unsubscribe(channels).command = "unsubscribe"
      /\ \A text : Unknown(text).command = "unknown"
      /\ Failed.command = "failed"
  BY DEF Get, Publish, Set, Subscribe, Unsubscribe, Unknown, Failed
<1>2. ParseGet(parts).command \in {"get", "failed"}
      /\ (ParseGet(parts).command = "get" => Len(parts) = 2)
  BY <1>1 DEF ParseGet
<1>3. ParsePublish(parts).command \in {"publish", "failed"}
      /\ (ParsePublish(parts).command = "publish" => Len(parts) = 3)
  BY <1>1 DEF ParsePublish
<1>4. ParseSet(parts).command \in {"set", "failed"}
  BY <1>1 DEF ParseSet
<1>5. /\ ParseSubscribe(parts).command \in {"subscribe", "failed"}
      /\ ParseUnsubscribe(parts).command \in {"unsubscribe", "failed"}
  BY <1>1 DEF ParseSubscribe, ParseUnsubscribe
<1>6. parts # <<>> /\ IsString(parts[1])
  BY <1>1 DEF FromFrame
<1>7. FromFrame(parts) =
        CASE name = "get" -> ParseGet(parts)
          [] name = "publish" -> ParsePublish(parts)
          [] name = "set" -> ParseSet(parts)
          [] name = "subscribe" -> ParseSubscribe(parts)
          [] name = "unsubscribe" -> ParseUnsubscribe(parts)
          [] OTHER -> Unknown(name)
  BY <1>6 DEF FromFrame
<1> HIDE DEF name
<1>8. \/ name = "get" /\ FromFrame(parts) = ParseGet(parts)
      \/ name = "publish" /\ FromFrame(parts) = ParsePublish(parts)
      \/ name = "set" /\ FromFrame(parts) = ParseSet(parts)
  BY <1>1, <1>5, <1>7
<1>9. /\ FromFrame(parts).command = "get" => name = "get" /\ Len(parts) = 2
      /\ FromFrame(parts).command = "publish" => name = "publish" /\ Len(parts) = 3
      /\ FromFrame(parts).command = "set" => name = "set"
  BY <1>2, <1>3, <1>4, <1>8
<1> QED  BY <1>6, <1>9 DEF name

\* One entry more than the command takes.
LEMMA RefusedWhenFull ==
    ASSUME NEW parts \in Seq(Entries), NEW entry \in Entries,
           \/ FromFrame(parts).command \in {"get", "publish"}
           \/ FromFrame(parts).command = "set" /\ Len(parts) = 5
    PROVE  FromFrame(Append(parts, entry)) = Failed
<1> DEFINE more == Append(parts, entry)
<1>1. parts # <<>> /\ IsString(parts[1])
  BY CommandIs
<1>2. Len(parts) \in Nat \ {0}
  BY <1>1
<1>3. Len(more) = Len(parts) + 1 /\ more[1] = parts[1] /\ more # <<>>
  BY <1>2
<1> HIDE DEF more
<1>4. CASE FromFrame(parts).command = "get"
  <2>1. Lower[more[1].value] = "get" /\ Len(more) = 3
    <3>1. Lower[parts[1].value] = "get" /\ Len(parts) = 2
      BY <1>4, CommandIs
    <3> QED  BY <1>3, <3>1
  <2>2. FromFrame(more) = ParseGet(more)
    BY <1>1, <1>3, <2>1 DEF FromFrame
  <2> QED  BY <2>1, <2>2 DEF ParseGet, more
<1>5. CASE FromFrame(parts).command = "publish"
  <2>1. Lower[more[1].value] = "publish" /\ Len(more) = 4
    <3>1. Lower[parts[1].value] = "publish" /\ Len(parts) = 3
      BY <1>5, CommandIs
    <3> QED  BY <1>3, <3>1
  <2>2. FromFrame(more) = ParsePublish(more)
    BY <1>1, <1>3, <2>1 DEF FromFrame
  <2> QED  BY <2>1, <2>2 DEF ParsePublish, more
<1>6. CASE FromFrame(parts).command = "set" /\ Len(parts) = 5
  <2>1. Lower[more[1].value] = "set" /\ Len(more) = 6
    BY <1>3, <1>6, CommandIs
  <2>2. FromFrame(more) = ParseSet(more)
    BY <1>1, <1>3, <2>1 DEF FromFrame
  <2> QED  BY <2>1, <2>2 DEF ParseSet, more
<1> QED  BY <1>4, <1>5, <1>6

\* A request that no client has called is an array of the entries of a peer.
Built == asked = {} => request \in Seq(Entries)

(***************************************************************************)
(* A request with more entries than its command takes is refused, whatever *)
(* the entries are (cmd/mod.rs:71-77; parse.rs:122-128).                   *)
(***************************************************************************)
THEOREM ExcessRefused == Spec => NothingLeftOver
<1>1. Init => Built
  BY DEF Init, Built
<1>2. Built /\ [Next]_vars => Built' /\ [Full => FromFrame(request') = Failed]_vars
  <2> DEFINE Goal == Built' /\ [Full => FromFrame(request') = Failed]_vars
  <2> SUFFICES ASSUME Built, [Next]_vars PROVE Goal
    OBVIOUS
  <2>1. ASSUME NEW command \in Calls, Call(command) PROVE Goal
    <3>1. asked' # {} /\ request = <<>>
      BY <2>1 DEF Call
    <3>2. ~ Full
      BY <3>1 DEF Full, FromFrame, Failed
    <3> QED  BY <3>1, <3>2 DEF Built
  <2>2. ASSUME NEW entry \in Entries, Extend(entry) PROVE Goal
    <3>1. request \in Seq(Entries) /\ request' = Append(request, entry) /\ asked' = asked
      BY <2>2 DEF Built, Extend
    <3>2. request' \in Seq(Entries)
      BY <3>1
    <3>3. ASSUME Full PROVE FromFrame(request') = Failed
      BY <3>1, <3>3, RefusedWhenFull DEF Full
    <3> QED  BY <3>2, <3>3 DEF Built
  <2>3. CASE UNCHANGED vars
    BY <2>3 DEF vars, Built
  <2> QED
    BY <2>1, <2>2, <2>3 DEF Next
<1> QED
  BY <1>1, <1>2, PTL DEF Spec, NothingLeftOver
=============================================================================

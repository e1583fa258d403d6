------------------------------ MODULE Command ------------------------------
(***************************************************************************)
(* The commands of mini-redis and the frames that carry them (src/cmd/,    *)
(* src/parse.rs): into_frame on the side of the client, from_frame with    *)
(* its Parse cursor on the side of the server.                             *)
(*                                                                         *)
(* Every error of the parser closes the connection, so there is one Failed *)
(* for all of them.  A duration is a number of units, PerMilli of which    *)
(* make a millisecond.                                                     *)
(***************************************************************************)
EXTENDS Integers, Sequences

CONSTANTS
    Texts,       \* strings, with the names of the commands and options
    Binaries,    \* byte strings that are not UTF-8
    Lower,       \* Lower[text]: the text in lower case
    Number,      \* Number[text]: the number a text begins with, if any
    PerMilli,    \* units of time in a millisecond
    MaxU64,      \* one more than the largest u64
    MaxEntries   \* bound on the length of a request

Names == {"get", "publish", "set", "subscribe", "unsubscribe"}
Options == {"ex", "px"}
Contents == Texts \cup Binaries

ASSUME TextsAssumption ==
    /\ Names \cup Options \subseteq Texts
    /\ Texts \cap Binaries = {}
    /\ Lower \in [Texts -> Texts]
    /\ \A text \in Names \cup Options : Lower[text] = text

ASSUME NumbersAssumption ==
    /\ PerMilli \in Nat \ {0}
    /\ MaxU64 \in Nat \ {0}
    /\ Number \in [DOMAIN Number -> 0..(MaxU64 - 1)]

-----------------------------------------------------------------------------
(***************************************************************************)
(* Commands and the frames they are made of.                               *)
(***************************************************************************)

SimpleFrame(content) == [kind |-> "simple", value |-> content]
BulkFrame(content) == [kind |-> "bulk", value |-> content]
IntegerFrame(n) == [kind |-> "integer", value |-> n]

Get(key) == [command |-> "get", key |-> key]
Publish(channel, message) == [command |-> "publish", channel |-> channel, message |-> message]
Set(key, value, expire) ==
    [command |-> "set", key |-> key, value |-> value, expire |-> expire]
Subscribe(channels) == [command |-> "subscribe", channels |-> channels]
Unsubscribe(channels) == [command |-> "unsubscribe", channels |-> channels]
Unknown(name) == [command |-> "unknown", name |-> name]
Failed == [command |-> "failed"]

\* Option<Duration>: a set with the duration, if there is one.
Durations == {o \in SUBSET Nat : \A d, e \in o : d = e}

-----------------------------------------------------------------------------
(***************************************************************************)
(* Parse: what next_string, next_bytes and next_int accept.                *)
(***************************************************************************)

IsString(entry) ==
    entry.kind = "simple" \/ (entry.kind = "bulk" /\ entry.value \in Texts)
IsBytes(entry) == entry.kind \in {"simple", "bulk"}
IsInt(entry) == entry.kind = "integer" \/ (IsBytes(entry) /\ entry.value \in DOMAIN Number)
IntOf(entry) == IF entry.kind = "integer" THEN entry.value ELSE Number[entry.value]

\* The strings from entry n on, to the end of the request.
StringsFrom(parts, n) == \A i \in n..Len(parts) : IsString(parts[i])
ValuesFrom(parts, n) == [i \in 1..(Len(parts) - n + 1) |-> parts[i + n - 1].value]

\* Mutant: finish() is not called, what follows the key is not looked at.
ParseGetUnfinished(parts) ==
    IF Len(parts) >= 2 /\ IsString(parts[2]) THEN Get(parts[2].value) ELSE Failed

ParseGet(parts) ==
    IF Len(parts) = 2 /\ IsString(parts[2]) THEN Get(parts[2].value) ELSE Failed

ParsePublish(parts) ==
    IF Len(parts) = 3 /\ IsString(parts[2]) /\ IsBytes(parts[3])
    THEN Publish(parts[2].value, parts[3].value)
    ELSE Failed

\* EX counts seconds, PX milliseconds.
HasExpire(parts) ==
    IsString(parts[4]) /\ Lower[parts[4].value] \in Options /\ IsInt(parts[5])

Expire(parts) ==
    IntOf(parts[5]) * PerMilli * (IF Lower[parts[4].value] = "ex" THEN 1000 ELSE 1)

ParseSet(parts) ==
    IF Len(parts) < 3 \/ ~IsString(parts[2]) \/ ~IsBytes(parts[3]) THEN Failed
    ELSE IF Len(parts) = 3 THEN Set(parts[2].value, parts[3].value, {})
    ELSE IF Len(parts) = 5 /\ HasExpire(parts)
         THEN Set(parts[2].value, parts[3].value, {Expire(parts)})
    ELSE Failed

ParseSubscribe(parts) ==
    IF Len(parts) >= 2 /\ StringsFrom(parts, 2) THEN Subscribe(ValuesFrom(parts, 2)) ELSE Failed

ParseUnsubscribe(parts) ==
    IF StringsFrom(parts, 2) THEN Unsubscribe(ValuesFrom(parts, 2)) ELSE Failed

\* Command::from_frame on the entries of an array frame.
FromFrame(parts) ==
    IF parts = <<>> \/ ~IsString(parts[1]) THEN Failed
    ELSE LET name == Lower[parts[1].value]
         IN CASE name = "get" -> ParseGet(parts)
              [] name = "publish" -> ParsePublish(parts)
              [] name = "set" -> ParseSet(parts)
              [] name = "subscribe" -> ParseSubscribe(parts)
              [] name = "unsubscribe" -> ParseUnsubscribe(parts)
              [] OTHER -> Unknown(name)

-----------------------------------------------------------------------------
(***************************************************************************)
(* into_frame of each command: the entries of the array frame.             *)
(***************************************************************************)

\* as_millis() as u64
Millis(duration) == (duration \div PerMilli) % MaxU64

\* Mutant: the option that counts seconds is sent.
SetEntriesSeconds(command) ==
    IF command.expire = {} THEN <<BulkFrame("set"), BulkFrame(command.key), BulkFrame(command.value)>>
    ELSE <<BulkFrame("set"), BulkFrame(command.key), BulkFrame(command.value),
           BulkFrame("ex"), IntegerFrame(Millis(CHOOSE d \in command.expire : TRUE) \div 1000)>>

SetEntries(command) ==
    IF command.expire = {} THEN <<BulkFrame("set"), BulkFrame(command.key), BulkFrame(command.value)>>
    ELSE <<BulkFrame("set"), BulkFrame(command.key), BulkFrame(command.value),
           BulkFrame("px"), IntegerFrame(Millis(CHOOSE d \in command.expire : TRUE))>>

ChannelEntries(name, channels) ==
    [i \in 1..(Len(channels) + 1) |-> BulkFrame(IF i = 1 THEN name ELSE channels[i - 1])]

IntoFrame(command) ==
    CASE command.command = "get" -> <<BulkFrame("get"), BulkFrame(command.key)>>
      [] command.command = "publish" ->
           <<BulkFrame("publish"), BulkFrame(command.channel), BulkFrame(command.message)>>
      [] command.command = "set" -> SetEntries(command)
      [] OTHER -> ChannelEntries(command.command, command.channels)

\* What a client can send: Subscribe names a channel, and a time to live is
\* a whole number of milliseconds that fits into an integer frame.
Transmissible(command) ==
    \/ command.command \in {"get", "publish", "unsubscribe"}
    \/ command.command = "subscribe" /\ command.channels # <<>>
    \/ /\ command.command = "set"
       /\ \A d \in command.expire : d % PerMilli = 0 /\ d \div PerMilli < MaxU64

-----------------------------------------------------------------------------
(***************************************************************************)
(* Requests: the call of a client, or any array frame, entry by entry.     *)
(***************************************************************************)

CONSTANTS
    Entries,   \* entries of the frames a peer may send
    Calls      \* commands of the client library

\* The arguments of the client library are strings, bytes and durations.
ClientCommands ==
    [command : {"get"}, key : Texts]
    \cup [command : {"publish"}, channel : Texts, message : Contents]
    \cup [command : {"set"}, key : Texts, value : Contents, expire : Durations]
    \cup [command : {"subscribe", "unsubscribe"}, channels : Seq(Texts)]

ASSUME CallsAssumption == Calls \subseteq ClientCommands

VARIABLES
    asked,    \* {} or the command that was called
    request   \* the entries of the frame

vars == <<asked, request>>

Init == asked = {} /\ request = <<>>

Call(command) ==
    /\ asked = {} /\ request = <<>>
    /\ asked' = {command}
    /\ request' = IntoFrame(command)

Extend(entry) ==
    /\ asked = {}
    /\ Len(request) < MaxEntries
    /\ request' = Append(request, entry)
    /\ UNCHANGED asked

Next == (\E command \in Calls : Call(command)) \/ (\E entry \in Entries : Extend(entry))

Spec == Init /\ [][Next]_vars

-----------------------------------------------------------------------------
(***************************************************************************)
(* The server understands every call of a client as it was meant           *)
(* (cmd/*.rs, into_frame and parse_frames; cmd/mod.rs:40-80).              *)
(***************************************************************************)
UnderstoodAsMeant ==
    \A command \in asked : Transmissible(command) => FromFrame(request) = command

(***************************************************************************)
(* A request with more entries than its command takes is refused, and not  *)
(* executed in part (cmd/mod.rs:71-77; parse.rs:122-128).                  *)
(***************************************************************************)
Full ==
    \/ FromFrame(request).command \in {"get", "publish"}
    \/ FromFrame(request).command = "set" /\ Len(request) = 5

NothingLeftOver == [][Full => FromFrame(request') = Failed]_vars
=============================================================================

------------------------------- MODULE MCWire -------------------------------
(***************************************************************************)
(* What a peer may send to the two parsers of the server: any bytes to     *)
(* that of frames (FrameReader), any entries to that of commands           *)
(* (Command).  The two have nothing in common; a behaviour sends something *)
(* to one of them only.                                                    *)
(***************************************************************************)
EXTENDS Command, FrameReader

WireInit == Unread /\ Init

WireNext ==
    \/ request = <<>> /\ asked = {} /\ Receives /\ UNCHANGED vars
    \/ input = <<>> /\ Next /\ UNCHANGED input

WireSpec == WireInit /\ [][WireNext]_<<input, vars>>

-----------------------------------------------------------------------------
(* Texts with a number, bytes that are no text, and two spellings. *)
TestTexts == Names \cup Options \cup {"5", "GET", "PX"}
TestLower == ("GET" :> "get") @@ ("PX" :> "px") @@ [text \in TestTexts |-> text]
TestNumber == "5" :> 5

\* Commands that can have an entry too many, with an option and a number; any
\* of them is also a key, a value or a channel.
TestEntries ==
    {BulkFrame(content) : content \in {"set", "publish", "PX", "5"}} \cup {SimpleFrame("GET")}

TestCalls ==
    {Get("5"), Publish("5", "ff"), Publish("5", "get"),
     Subscribe(<<>>), Subscribe(<<"5">>), Subscribe(<<"5", "get">>),
     Unsubscribe(<<>>), Unsubscribe(<<"set", "5">>)}
    \cup {Set("px", "ff", expire) : expire \in {{}, {0}, {1}, {2}, {31}, {20000}, {20001}}}
=============================================================================

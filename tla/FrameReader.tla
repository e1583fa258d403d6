---------------------------- MODULE FrameReader ----------------------------
(***************************************************************************)
(* A read buffer that receives any bytes, one after another, and what      *)
(* Connection::parse_frame makes of it at each moment.                     *)
(***************************************************************************)
EXTENDS Frame

CONSTANTS
    Sent,      \* the bytes a peer sends
    MaxBytes   \* bound on their number

ASSUME SentAssumption == Sent \subseteq Bytes /\ MaxBytes \in Nat

VARIABLE input  \* Connection::buffer

Undecided(b) == ParseFrame(b).result = "none"

Unread == input = <<>>

Receive(byte) ==
    /\ Len(input) < MaxBytes
    /\ input' = Append(input, byte)

Receives == \E byte \in Sent : Receive(byte)

ReaderSpec == Unread /\ [][Receives]_input

-----------------------------------------------------------------------------
(***************************************************************************)
(* What parse_frame returns for a buffer does not depend on what else has  *)
(* arrived behind the frame: once it is decided, later bytes change        *)
(* nothing.  Reading in larger or smaller pieces therefore makes no        *)
(* difference (connection.rs:88-143; frame.rs:248-265).                    *)
(***************************************************************************)
DecisionIsFinal == [][Undecided(input) \/ ParseFrame(input') = ParseFrame(input)]_input

(***************************************************************************)
(* parse_frame discards as many bytes as check has counted; parse must     *)
(* have used exactly these (connection.rs:103-130; frame.rs:66-164).       *)
(***************************************************************************)
CheckMeasuresParse ==
    Check(input, 1).status = "ok" /\ Parse(input, 1).status = "ok" =>
        Check(input, 1).next = Parse(input, 1).next

(***************************************************************************)
(* check rejects every unknown type, so that parse never runs into its     *)
(* unimplemented!() (frame.rs:101, 167).                                   *)
(***************************************************************************)
NeverUnimplemented == ParseFrame(input).result # "panic"

(***************************************************************************)
(* A frame that was read can be written and read again: encoding and       *)
(* decoding agree on what a frame is, also where the peer wrote it in      *)
(* another way (frame.rs:106-169; connection.rs:157-237).                  *)
(***************************************************************************)
RoundTrip ==
    LET read == ParseFrame(input)
        again == ParseFrame(Encode(read.frame))
    IN read.result = "frame" /\ Encodable(read.frame) =>
         /\ again.result = "frame"
         /\ again.frame = read.frame
         /\ again.length = Len(Encode(read.frame))
=============================================================================

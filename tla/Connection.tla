----------------------------- MODULE Connection -----------------------------
(***************************************************************************)
(* One direction of a TCP connection between two Connections               *)
(* (src/connection.rs): write_frame on one side, read_frame with its read  *)
(* buffer on the other.  The bytes of a frame arrive in pieces, the peer   *)
(* may close or die at any byte, and the future of read_frame is dropped   *)
(* whenever another branch of a select! wins.                              *)
(***************************************************************************)
EXTENDS Frame

CONSTANTS
    Frames,     \* the frames a peer writes
    MaxFrames   \* bound on their number

ASSUME FramesAssumption == MaxFrames \in Nat /\ Frames \subseteq Writable /\ "?" \in Bytes

VARIABLES
    \* the peer
    writer,    \* "open", "closed" or "dead"
    stream,    \* bytes written and not yet read
    \* the reader
    buffer,    \* Connection::buffer
    call,      \* "idle", or a read_frame that is "parsing" or "waiting"
    end,       \* what it returned last: "open", or "none" or "error" for good
    \* history
    written,   \* the frames written
    received,  \* the frames returned by read_frame
    whole,     \* how many of written have reached the stream entirely
    cut        \* the stream ends within a frame

peer == <<writer, stream, written, whole, cut>>
reader == <<buffer, call, end, received>>
vars == <<peer, reader>>

Encoding(frames) == FlattenSeq([i \in DOMAIN frames |-> Encode(frames[i])])

Init ==
    /\ writer = "open"
    /\ stream = <<>>
    /\ buffer = <<>>
    /\ call = "idle"
    /\ end = "open"
    /\ written = <<>>
    /\ received = <<>>
    /\ whole = 0
    /\ cut = FALSE

-----------------------------------------------------------------------------
WriteFrame(frame) ==
    /\ writer = "open"
    /\ Len(written) < MaxFrames
    /\ stream' = stream \o Encode(frame)
    /\ written' = Append(written, frame)
    /\ whole' = whole + 1
    /\ UNCHANGED <<writer, cut, reader>>

PeerCloses ==
    /\ writer = "open"
    /\ writer' = "closed"
    /\ UNCHANGED <<stream, written, whole, cut, reader>>

\* How many frames of a sequence are whole within n bytes of its encoding.
WholeWithin(frames, n) ==
    Max({k \in 0..Len(frames) : Len(Encoding(SubSeq(frames, 1, k))) <= n})

\* The peer dies, and of what it wrote only the first n bytes get through.
PeerDies(n) ==
    LET unread == SubSeq(written, Len(received) + 1, Len(written))
        arrived == Len(buffer) + n
        frames == WholeWithin(unread, arrived)
    IN /\ writer = "open"
       /\ writer' = "dead"
       /\ stream' = SubSeq(stream, 1, n)
       /\ whole' = Len(received) + frames
       /\ cut' = (Len(Encoding(SubSeq(unread, 1, frames))) < arrived)
       /\ UNCHANGED <<written, reader>>

\* What begins with no known type is not a frame.
Malformed == <<"?">>

\* The peer sends something that is no frame, and nothing more.
PeerBreaks ==
    /\ writer = "open"
    /\ writer' = "dead"
    /\ stream' = stream \o Malformed
    /\ cut' = TRUE
    /\ UNCHANGED <<written, whole, reader>>

-----------------------------------------------------------------------------
ReadFrame ==
    /\ call = "idle"
    /\ end = "open"
    /\ call' = "parsing"
    /\ UNCHANGED <<peer, buffer, end, received>>

\* Mutant: the buffer is emptied instead of advanced by the length.
ReturnFrameClears ==
    /\ call = "parsing"
    /\ ParseFrame(buffer).result = "frame"
    /\ received' = Append(received, ParseFrame(buffer).frame)
    /\ buffer' = <<>>
    /\ call' = "idle"
    /\ UNCHANGED <<peer, end>>

ReturnFrame ==
    /\ call = "parsing"
    /\ ParseFrame(buffer).result = "frame"
    /\ received' = Append(received, ParseFrame(buffer).frame)
    /\ buffer' = SubSeq(buffer, ParseFrame(buffer).length + 1, Len(buffer))
    /\ call' = "idle"
    /\ UNCHANGED <<peer, end>>

ReturnError ==
    /\ call = "parsing"
    /\ ParseFrame(buffer).result = "error"
    /\ end' = "error"
    /\ call' = "idle"
    /\ UNCHANGED <<peer, buffer, received>>

\* There is no whole frame: read_frame waits for the socket.
Wait ==
    /\ call = "parsing"
    /\ ParseFrame(buffer).result = "none"
    /\ call' = "waiting"
    /\ UNCHANGED <<peer, buffer, end, received>>

\* read_buf appends some of the bytes that have arrived.
Fill ==
    /\ call = "waiting"
    /\ \E n \in 1..Len(stream) :
         /\ buffer' = buffer \o SubSeq(stream, 1, n)
         /\ stream' = SubSeq(stream, n + 1, Len(stream))
    /\ call' = "parsing"
    /\ UNCHANGED <<writer, written, whole, cut, end, received>>

\* Mutant: the end of the stream is clean whatever is in the buffer.
EndOfStreamClean ==
    /\ stream = <<>> /\ writer # "open"
    /\ call = "waiting"
    /\ end' = "none"
    /\ call' = "idle"
    /\ UNCHANGED <<peer, buffer, received>>

\* Mutant: the end of the stream counts only when the buffer is empty.
EndOfStreamWhenEmpty ==
    /\ stream = <<>> /\ writer # "open"
    /\ call = "waiting"
    /\ buffer = <<>>
    /\ end' = "none"
    /\ call' = "idle"
    /\ UNCHANGED <<peer, buffer, received>>

\* read_buf returns 0.
EndOfStream ==
    /\ stream = <<>> /\ writer # "open"
    /\ call = "waiting"
    /\ end' = IF buffer = <<>> THEN "none" ELSE "error"
    /\ call' = "idle"
    /\ UNCHANGED <<peer, buffer, received>>

\* read_buf fails, the connection was reset.
ReadFails ==
    /\ call = "waiting"
    /\ writer = "dead"
    /\ end' = "error"
    /\ call' = "idle"
    /\ UNCHANGED <<peer, buffer, received>>

\* Mutant: the partial frame lives in the future and is dropped with it.
CancelLosesBytes ==
    /\ call = "waiting"
    /\ call' = "idle"
    /\ buffer' = <<>>
    /\ UNCHANGED <<peer, end, received>>

\* A select! drops the future of read_frame where it waits.
Cancel ==
    /\ call = "waiting"
    /\ call' = "idle"
    /\ UNCHANGED <<peer, buffer, end, received>>

-----------------------------------------------------------------------------
Return == ReturnFrame \/ ReturnError

Read == ReadFrame \/ Return \/ Wait \/ Fill \/ EndOfStream

Next ==
    \/ \E frame \in Frames : WriteFrame(frame)
    \/ PeerCloses
    \/ \E n \in 0..Len(stream) : PeerDies(n)
    \/ PeerBreaks
    \/ Read
    \/ ReadFails
    \/ Cancel

Spec == Init /\ [][Next]_vars

\* The caller calls read_frame again and again, parse_frame is synchronous and
\* returns, and the runtime polls the socket: the caller may cancel each of
\* its calls, but not all before they read a byte.
Fairness ==
    /\ WF_vars(ReadFrame)
    /\ []<>(call # "parsing")
    /\ SF_vars(Fill \/ EndOfStream)

FairSpec == Spec /\ Fairness

-----------------------------------------------------------------------------
(***************************************************************************)
(* However the bytes are cut into pieces and however often read_frame is   *)
(* cancelled, the reader sees a channel of whole frames: in order, none    *)
(* lost, none invented, and the end only after the last one                *)
(* (connection.rs:46-82, 88-143, 145-182).                                 *)
(***************************************************************************)
Channel == INSTANCE FrameChannel WITH
    queue <- SubSeq(written, Len(received) + 1, whole)

ImplementsFrameChannel == Channel!Spec

(***************************************************************************)
(* The bytes of the frames that were not yet returned are in the read      *)
(* buffer and the stream, exactly (connection.rs:21-28, 121-130).          *)
(***************************************************************************)
BytesAccountedFor ==
    LET unread == SubSeq(written, Len(received) + 1, Len(written))
    IN IF writer = "dead" THEN IsPrefix(buffer \o stream, Encoding(unread) \o Malformed)
       ELSE buffer \o stream = Encoding(unread)

(***************************************************************************)
(* A stream that ends within a frame is never reported as a clean end, and *)
(* a clean end is never reported as an error (connection.rs:69-81).        *)
(***************************************************************************)
EndIsTruthful ==
    /\ end = "none" => received = SubSeq(written, 1, whole) /\ ~cut
    /\ end = "error" => writer = "dead"

(***************************************************************************)
(* A caller that keeps calling read_frame gets every frame that reached    *)
(* the stream, although its calls are cancelled, unless the connection     *)
(* fails (connection.rs:56-82; server.rs:338-341).                         *)
(***************************************************************************)
FramesArrive ==
    \A k \in 1..MaxFrames : whole >= k ~> Len(received) >= k \/ writer = "dead"

(***************************************************************************)
(* A reader learns of the end of the stream (connection.rs:69-81).         *)
(***************************************************************************)
EndIsReported == writer # "open" ~> end # "open"
=============================================================================

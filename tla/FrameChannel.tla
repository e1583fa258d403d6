---------------------------- MODULE FrameChannel ----------------------------
(***************************************************************************)
(* What a pair of Connections promises for one direction: a first-in       *)
(* first-out channel of whole frames, whose reader is told the truth about *)
(* its end (src/connection.rs).                                            *)
(***************************************************************************)
EXTENDS Integers, Sequences

CONSTANT Frames

VARIABLES
    queue,   \* the frames on their way
    writer,  \* "open", "closed" or "dead"
    cut,     \* the writer died within a frame
    end      \* what the reader was told: "open", "none" or "error"

vars == <<queue, writer, cut, end>>

Init == queue = <<>> /\ writer = "open" /\ ~cut /\ end = "open"

Send(frame) ==
    /\ writer = "open"
    /\ queue' = Append(queue, frame)
    /\ UNCHANGED <<writer, cut, end>>

Close ==
    /\ writer = "open"
    /\ writer' = "closed"
    /\ UNCHANGED <<queue, cut, end>>

\* What was not yet on its way is lost.
Die ==
    /\ writer = "open"
    /\ writer' = "dead"
    /\ \E n \in 0..Len(queue) : queue' = SubSeq(queue, 1, n)
    /\ cut' \in BOOLEAN
    /\ UNCHANGED end

Receive ==
    /\ end = "open"
    /\ queue # <<>>
    /\ queue' = Tail(queue)
    /\ UNCHANGED <<writer, cut, end>>

\* Only after the last frame, and only if it was whole.
Finish ==
    /\ end = "open"
    /\ queue = <<>> /\ writer # "open" /\ ~cut
    /\ end' = "none"
    /\ UNCHANGED <<queue, writer, cut>>

Fail ==
    /\ end = "open"
    /\ writer = "dead"
    /\ end' = "error"
    /\ UNCHANGED <<queue, writer, cut>>

Next == (\E frame \in Frames : Send(frame)) \/ Close \/ Die \/ Receive \/ Finish \/ Fail

Spec == Init /\ [][Next]_vars
=============================================================================

------------------------------- MODULE Buffer -------------------------------
(***************************************************************************)
(* A client that several callers share (src/buffer.rs): handles that push  *)
(* requests into a bounded channel, the task that owns the Client and      *)
(* works on one request at a time, and a oneshot per call for the answer.  *)
(* The future of a call can be dropped at either of its awaits, and a      *)
(* handle at any time.                                                     *)
(*                                                                         *)
(* The connection is the FIFO of whole frames that FrameChannel promises,  *)
(* until it breaks.  The task outlives every handle, so that a send into   *)
(* the channel cannot find it closed, nor an answer stay out: those two    *)
(* error paths of get and set are unreachable and left out.                *)
(***************************************************************************)
EXTENDS Integers, SequencesExt, Subsequence

CONSTANTS
    Callers,   \* who may hold a handle
    Keys,
    Values,
    OK,        \* the text that answers a SET
    Limit,     \* the message limit of the channel: 32
    MaxCalls   \* bound on the calls of one caller

ASSUME BufferAssumption ==
    /\ Limit \in Nat \ {0}
    /\ MaxCalls \in Nat
    /\ OK \notin Values

VARIABLES
    caller,    \* where each caller is; "none": it holds no handle
    asked,     \* {} or the Command of its last call
    number,    \* which call of its own that is: the identity of the oneshot
    answer,    \* {} or what the oneshot of its last call brought
    queue,     \* the mpsc channel
    task,      \* where run is
    current,   \* {} or the message it works on
    requests,  \* frames on their way to the server
    replies,   \* frames on their way back
    link,      \* "up", or "down" once the connection is broken or closed
    store      \* what the server holds: store[k] is {} or the value of k

calling == <<caller, asked, number, answer>>
running == <<task, current>>
connection == <<requests, replies, link>>
vars == <<calling, queue, running, connection, store>>

Opt(S) == {o \in SUBSET S : \A x, y \in o : x = y}

\* Command::Set(key, value); without a value, Command::Get(key).
Commands == [key : Keys, value : Opt(Values)]
IsGet(command) == command.value = {}

\* The command, and the oneshot::Sender.
Message == [command : Commands, caller : Callers, number : 1..MaxCalls]

\* The frames of the server: Null, Bulk(value), and Simple("OK").
Frames == Opt(Values \cup {OK})

Ok(value) == [ok |-> TRUE, value |-> value]
Err == [ok |-> FALSE, value |-> {}]

\* buffer() returns one handle.
Init ==
    /\ \E first \in Callers :
         caller = [c \in Callers |-> IF c = first THEN "idle" ELSE "none"]
    /\ asked = [c \in Callers |-> {}]
    /\ number = [c \in Callers |-> 0]
    /\ answer = [c \in Callers |-> {}]
    /\ queue = <<>>
    /\ task = "recv"
    /\ current = {}
    /\ requests = <<>>
    /\ replies = <<>>
    /\ link = "up"
    /\ store = [k \in Keys |-> {}]

-----------------------------------------------------------------------------
(***************************************************************************)
(* The callers.                                                            *)
(***************************************************************************)

Clone(c) ==
    /\ caller[c] = "none"
    /\ \E other \in Callers : caller[other] # "none"
    /\ caller' = [caller EXCEPT ![c] = "idle"]
    /\ UNCHANGED <<asked, number, answer, queue, running, connection, store>>

DropHandle(c) ==
    /\ caller[c] = "idle"
    /\ caller' = [caller EXCEPT ![c] = "none"]
    /\ UNCHANGED <<asked, number, answer, queue, running, connection, store>>

\* Buffer::get and set: a new oneshot.
Call(c, command) ==
    /\ caller[c] = "idle"
    /\ number[c] < MaxCalls
    /\ caller' = [caller EXCEPT ![c] = "sending"]
    /\ asked' = [asked EXCEPT ![c] = {command}]
    /\ number' = [number EXCEPT ![c] = @ + 1]
    /\ answer' = [answer EXCEPT ![c] = {}]
    /\ UNCHANGED <<queue, running, connection, store>>

\* self.tx.send(..).await waits for a free slot.
Send(c) ==
    /\ caller[c] = "sending"
    /\ Len(queue) < Limit
    /\ \E command \in asked[c] :
         queue' = Append(queue, [command |-> command, caller |-> c, number |-> number[c]])
    /\ caller' = [caller EXCEPT ![c] = "awaiting"]
    /\ UNCHANGED <<asked, number, answer, running, connection, store>>

\* rx.await has its answer.
Return(c) ==
    /\ caller[c] = "awaiting"
    /\ answer[c] # {}
    /\ caller' = [caller EXCEPT ![c] = "idle"]
    /\ UNCHANGED <<asked, number, answer, queue, running, connection, store>>

\* The future of the call is dropped; a request in the channel stays there.
Abandon(c) ==
    /\ caller[c] \in {"sending", "awaiting"}
    /\ caller' = [caller EXCEPT ![c] = "idle"]
    /\ answer' = [answer EXCEPT ![c] = {}]
    /\ UNCHANGED <<asked, number, queue, running, connection, store>>

-----------------------------------------------------------------------------
(***************************************************************************)
(* The task: run.                                                          *)
(***************************************************************************)

\* rx.recv() returns a message and the client writes its frame, before the
\* next await.  A broken connection swallows it or refuses it.
Recv ==
    /\ task = "recv"
    /\ queue # <<>>
    /\ queue' = Tail(queue)
    /\ current' = {Head(queue)}
    /\ task' = "read"
    /\ requests' = IF link = "up" THEN Append(requests, Head(queue)) ELSE requests
    /\ UNCHANGED <<calling, replies, link, store>>

\* Mutant: the answer goes to whatever call its caller awaits.
ForwardToCaller(m, response) ==
    /\ answer' = IF caller[m.caller] = "awaiting"
                 THEN [answer EXCEPT ![m.caller] = {response}] ELSE answer
    /\ task' = "recv"
    /\ current' = {}

\* tx.send(response): the oneshot has a receiver as long as its call is
\* awaited; otherwise the answer goes nowhere.
Forward(m, response) ==
    /\ answer' = IF caller[m.caller] = "awaiting" /\ number[m.caller] = m.number
                 THEN [answer EXCEPT ![m.caller] = {response}] ELSE answer
    /\ task' = "recv"
    /\ current' = {}

\* What Client::get and set_cmd make of a frame: a GET takes any of the three,
\* a SET the text OK only.
Response(command, frame) ==
    IF IsGet(command) THEN Ok(frame)
    ELSE IF frame = {OK} THEN Ok({}) ELSE Err

\* read_response returns a frame.
Read ==
    /\ task = "read"
    /\ replies # <<>>
    /\ replies' = Tail(replies)
    /\ \E m \in current : Forward(m, Response(m.command, Head(replies)))
    /\ UNCHANGED <<caller, asked, number, queue, requests, link, store>>

\* Mutant: the end of the stream is taken for a frame yet to come.
ReadFailsWaits ==
    /\ task = "read"
    /\ replies = <<>>
    /\ link = "down"
    /\ UNCHANGED vars

\* read_response, or write_frame before it, fails.
ReadFails ==
    /\ task = "read"
    /\ replies = <<>>
    /\ link = "down"
    /\ \E m \in current : Forward(m, Err)
    /\ UNCHANGED <<caller, asked, number, queue, connection, store>>

\* Mutant: the task keeps a handle of its own.
EndWithoutHandle ==
    /\ task = "recv"
    /\ queue = <<>>
    /\ {c \in Callers : caller[c] # "none"} \cup {"task"} = {}
    /\ task' = "done"
    /\ link' = "down"
    /\ UNCHANGED <<calling, queue, current, requests, replies, store>>

\* rx.recv() returns None: no handle is left, nor a message.  The task ends
\* and drops the client with its connection.
End ==
    /\ task = "recv"
    /\ queue = <<>>
    /\ \A c \in Callers : caller[c] = "none"
    /\ task' = "done"
    /\ link' = "down"
    /\ UNCHANGED <<calling, queue, current, requests, replies, store>>

-----------------------------------------------------------------------------
(***************************************************************************)
(* The server, as far as this client can tell: it executes the requests it *)
(* has received in turn, and answers while there is a connection.          *)
(***************************************************************************)

Execute ==
    /\ requests # <<>>
    /\ requests' = Tail(requests)
    /\ LET command == Head(requests).command
           reply == IF IsGet(command) THEN store[command.key] ELSE {OK}
       IN  /\ store' = IF IsGet(command) THEN store
                       ELSE [store EXCEPT ![command.key] = command.value]
           /\ replies' = IF link = "up" THEN Append(replies, reply) ELSE replies
    /\ UNCHANGED <<calling, queue, running, link>>

\* The connection breaks, or the server closes it: what was on its way may
\* arrive or not.
Break ==
    /\ link = "up"
    /\ link' = "down"
    /\ requests' \in {requests, <<>>}
    /\ replies' \in {replies, <<>>}
    /\ UNCHANGED <<calling, queue, running, store>>

-----------------------------------------------------------------------------
Run == Recv \/ Read \/ ReadFails \/ End

Next ==
    \/ \E c \in Callers :
         \/ Clone(c) \/ DropHandle(c)
         \/ \E command \in Commands : Call(c, command)
         \/ Send(c) \/ Return(c) \/ Abandon(c)
    \/ Run
    \/ Execute
    \/ Break

Spec == Init /\ [][Next]_vars

\* The task is spawned; calls are awaited, and the channel hands out its slots
\* in the order in which they were asked for.
TaskFairness ==
    /\ WF_vars(Run)
    /\ \A c \in Callers : SF_vars(Send(c)) /\ WF_vars(Return(c))

\* The server does not leave a request unanswered while it keeps the
\* connection: get and set have no timeout.
ServerAnswers == WF_vars(Execute)

FairSpec == Spec /\ TaskFairness /\ ServerAnswers

-----------------------------------------------------------------------------
(***************************************************************************)
(* Properties.                                                             *)
(***************************************************************************)

\* The values the variables range over.
TypeOK ==
    /\ caller \in [Callers -> {"none", "idle", "sending", "awaiting"}]
    /\ asked \in [Callers -> Opt(Commands)]
    /\ number \in [Callers -> 0..MaxCalls]
    /\ answer \in [Callers -> Opt([ok : BOOLEAN, value : Frames])]
    /\ queue \in Seq(Message) /\ Len(queue) <= Limit
    /\ task \in {"recv", "read", "done"}
    /\ current \in Opt(Message)
    /\ requests \in Seq(Message)
    /\ replies \in Seq(Frames)
    /\ link \in {"up", "down"}
    /\ store \in [Keys -> Opt(Values)]

\* The oneshot of the message still has its receiver, and is empty.
Awaited(m) ==
    /\ caller[m.caller] \in {"sending", "awaiting"}
    /\ number[m.caller] = m.number
    /\ answer[m.caller] = {}

\* The messages of c, and the one of its call that waits for a slot.
Own(c) == [command : Commands, caller : {c}, number : Nat]

Sending(c) ==
    IF caller[c] # "sending" THEN {}
    ELSE {[command |-> x, caller |-> c, number |-> number[c]] : x \in asked[c]}

\* The calls of c that have not taken effect: at the server, in the channel,
\* and the one that waits for a slot.
Pending(c) ==
    LET mine == Only(requests, Own(c)) \o Only(queue, Own(c)) \o SetToSeq(Sending(c))
    IN  [i \in DOMAIN mine |-> [command |-> mine[i].command, awaited |-> Awaited(mine[i])]]

\* The answer to the call of c: what the oneshot brought, or the reply to it
\* that is on its way.
Answer(c) ==
    answer[c] \cup {Response(m.command, Head(replies)) :
                       m \in {x \in current : x.caller = c /\ Awaited(x) /\ replies # <<>>}}

SS == INSTANCE SharedStore WITH
        todo <- [c \in Callers |-> Pending(c)],
        waiting <- [c \in Callers |-> caller[c] \in {"sending", "awaiting"}],
        answer <- [c \in Callers |-> Answer(c)],
        broken <- link = "down"

(***************************************************************************)
(* The buffer is the shared store: whoever goes away, and whenever, each   *)
(* of the other calls takes effect once, is answered with the reply to its *)
(* own request, and fails only when the connection is gone; a call that    *)
(* was abandoned takes effect once or not at all, and before later calls   *)
(* of its caller (buffer.rs:58-70, 83-119).                                *)
(***************************************************************************)
ImplementsSharedStore == SS!Spec

(***************************************************************************)
(* Every call returns or is abandoned, also when the channel is full and   *)
(* when the connection is gone: the task goes on after a failed request    *)
(* and after one whose caller has left (buffer.rs:58-70).                  *)
(***************************************************************************)
CallsReturn ==
    \A c \in Callers :
        caller[c] \in {"sending", "awaiting"} ~> caller[c] \in {"none", "idle"}

(***************************************************************************)
(* With the last handle the task ends, after the requests that were left   *)
(* in the channel, and the connection with it (buffer.rs:55-58).           *)
(***************************************************************************)
TaskEnds == (\A c \in Callers : caller[c] = "none") ~> task = "done" /\ queue = <<>>
=============================================================================

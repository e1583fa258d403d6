------------------------------- MODULE Server -------------------------------
(***************************************************************************)
(* The mini-redis server (src/server.rs, src/shutdown.rs): the listener    *)
(* with its connection permits and its accept back-off, one handler task   *)
(* per connection, and the graceful shutdown of run().                     *)
(*                                                                         *)
(* A step is what a task does between two awaits.  What a command does to  *)
(* the database is in Db and PubSub; here a command is executed, panics or *)
(* is rejected, and its reply is written to a peer that may not read it.   *)
(***************************************************************************)
EXTENDS Integers, FiniteSets

CONSTANTS
    Conns,           \* the connections peers may ever open
    MaxConnections,  \* MAX_CONNECTIONS, the permits of the semaphore
    MaxBackoff       \* accept gives up when its next pause would exceed this: 64

ASSUME ConnsAssumption == IsFiniteSet(Conns)
ASSUME LimitsAssumption == MaxConnections \in Nat \ {0} /\ MaxBackoff \in Nat

VARIABLES
    \* Listener
    listener,   \* where Listener::run is
    backoff,    \* the next pause of accept, in seconds
    failures,   \* history: consecutive failures of this accept
    permits,    \* available permits of limit_connections
    taken,      \* the listener took a permit it has passed to no handler
    \* the function run
    run,        \* where it is
    \* one connection: the handler task and its peer
    handler,    \* where the handler is
    subscribed, \* the handler is inside Subscribe::apply
    received,   \* Shutdown::shutdown: the signal was received
    owed,       \* history: a command was executed, its reply is not written
    outcome,    \* history: how Handler::run ended
    sent,       \* {} or the kind of the frame that is ready to be read
    closed      \* whether the peer closed its side, and how

listening == <<listener, backoff, failures>>
peer == <<sent, closed>>
conn == <<handler, subscribed, received, owed, outcome>>
vars == <<listening, permits, taken, run, conn, peer>>

\* A command that is answered, SUBSCRIBE, or what is no command where it is
\* read: a malformed frame, UNSUBSCRIBE outside of Subscribe::apply.
Kinds == {"request", "subscribe", "invalid"}

\* The fields of a Handler are dropped in the order of their declaration,
\* after Drop::drop: its permit goes first, then db and the connection, and
\* the sender of shutdown_complete last.
Running == {c \in Conns : handler[c] \in {"loop", "select", "reply"}}
HoldsPermit == Running \cup {c \in Conns : handler[c] = "drop_permit"}
HoldsDb == HoldsPermit \cup {c \in Conns : handler[c] = "drop_db"}

\* Mutant: _shutdown_complete is the first field of Handler.
HoldsCompleteFirstField == HoldsPermit

HoldsComplete == HoldsDb \cup {c \in Conns : handler[c] = "drop_complete"}

\* notify_shutdown was dropped: recv() of every Shutdown returns.
Signalled == run \in {"release", "wait", "returned"}

Init ==
    /\ listener = "acquire"
    /\ backoff = 1
    /\ failures = 0
    /\ permits = MaxConnections
    /\ taken = FALSE
    /\ run = "serving"
    /\ handler = [c \in Conns |-> "absent"]
    /\ subscribed = [c \in Conns |-> FALSE]
    /\ received = [c \in Conns |-> FALSE]
    /\ owed = [c \in Conns |-> FALSE]
    /\ outcome = [c \in Conns |-> "none"]
    /\ sent = [c \in Conns |-> {}]
    /\ closed = [c \in Conns |-> "no"]

-----------------------------------------------------------------------------
(***************************************************************************)
(* The peers.                                                              *)
(***************************************************************************)

\* The listening socket exists until run returns.
PeerConnects(c) ==
    /\ handler[c] = "absent"
    /\ run # "returned"
    /\ handler' = [handler EXCEPT ![c] = "backlog"]
    /\ UNCHANGED <<listening, permits, taken, run, subscribed, received, owed, outcome, peer>>

\* What a peer does before its connection is accepted is seen only then.
PeerSends(c, kind) ==
    /\ c \in Running
    /\ closed[c] = "no"
    /\ sent[c] = {}
    /\ sent' = [sent EXCEPT ![c] = {kind}]
    /\ UNCHANGED <<listening, permits, taken, run, conn, closed>>

\* Between two frames, or within one: then it leaves part of a frame behind.
PeerCloses(c) ==
    /\ c \in Running
    /\ closed[c] = "no"
    /\ \E how \in {"between", "within"} : closed' = [closed EXCEPT ![c] = how]
    /\ UNCHANGED <<listening, permits, taken, run, conn, sent>>

-----------------------------------------------------------------------------
(***************************************************************************)
(* Listener::run and Listener::accept.                                     *)
(***************************************************************************)

\* A permit is taken and forgotten, and accept is entered.
Acquire ==
    /\ listener = "acquire"
    /\ permits > 0
    /\ permits' = permits - 1
    /\ taken' = TRUE
    /\ listener' = "accept"
    /\ UNCHANGED <<backoff, failures, run, conn, peer>>

\* The next call of accept starts with a fresh back-off.
FreshBackoff == backoff' = 1 /\ failures' = 0

\* A socket is accepted and its handler spawned, before the next await.
Accept(c) ==
    /\ listener = "accept"
    /\ handler[c] = "backlog"
    /\ handler' = [handler EXCEPT ![c] = "loop"]
    /\ taken' = FALSE
    /\ listener' = "acquire"
    /\ FreshBackoff
    /\ UNCHANGED <<permits, run, subscribed, received, owed, outcome, peer>>

\* Mutant: the give-up comparison is off by one.
AcceptFailsEarly ==
    /\ listener = "accept"
    /\ failures' = failures + 1
    /\ IF backoff >= MaxBackoff
       THEN listener' = "failed" /\ run' = "signal"
       ELSE listener' = "backoff" /\ UNCHANGED run
    /\ UNCHANGED <<backoff, permits, taken, conn, peer>>

\* A failure: the listener gives up, or pauses before the next try.
AcceptFails ==
    /\ listener = "accept"
    /\ failures' = failures + 1
    /\ IF backoff > MaxBackoff
       THEN listener' = "failed" /\ run' = "signal"
       ELSE listener' = "backoff" /\ UNCHANGED run
    /\ UNCHANGED <<backoff, permits, taken, conn, peer>>

BackoffElapses ==
    /\ listener = "backoff"
    /\ backoff' = 2 * backoff
    /\ listener' = "accept"
    /\ UNCHANGED <<failures, permits, taken, run, conn, peer>>

-----------------------------------------------------------------------------
(***************************************************************************)
(* Handler::run, with the loop of Subscribe::apply inside it.              *)
(***************************************************************************)

\* Handler::run ends and the task drops the Handler.
Ends(c, how) ==
    /\ handler' = [handler EXCEPT ![c] = "drop_permit"]
    /\ outcome' = [outcome EXCEPT ![c] = how]

\* while !self.shutdown.is_shutdown()
Loop(c) ==
    /\ handler[c] = "loop"
    /\ IF received[c]
       THEN Ends(c, "ok")
       ELSE handler' = [handler EXCEPT ![c] = "select"] /\ UNCHANGED outcome
    /\ UNCHANGED <<listening, permits, taken, run, subscribed, received, owed, peer>>

\* read_frame delivers a command and it is executed; a first SUBSCRIBE enters
\* the subscribed loop.  Its reply is still to be written.
Execute(c) ==
    /\ handler[c] = "select"
    /\ sent[c] \in {{"request"}, {"subscribe"}}
    /\ sent' = [sent EXCEPT ![c] = {}]
    /\ subscribed' = [subscribed EXCEPT ![c] = @ \/ sent[c] = {"subscribe"}]
    /\ owed' = [owed EXCEPT ![c] = TRUE]
    /\ handler' = [handler EXCEPT ![c] = "reply"]
    /\ UNCHANGED <<listening, permits, taken, run, received, outcome, closed>>

\* The frame is malformed or no command here: ? returns the error.
Reject(c) ==
    /\ handler[c] = "select"
    /\ sent[c] = {"invalid"}
    /\ sent' = [sent EXCEPT ![c] = {}]
    /\ Ends(c, "error")
    /\ UNCHANGED <<listening, permits, taken, run, subscribed, received, owed, closed>>

\* Executing the command panics: Db::set overflows or the mutex is poisoned.
\* In the subscribed loop only SUBSCRIBE locks the database.
Panic(c) ==
    /\ handler[c] = "select"
    /\ \/ sent[c] = {"subscribe"}
       \/ sent[c] = {"request"} /\ ~subscribed[c]
    /\ sent' = [sent EXCEPT ![c] = {}]
    /\ Ends(c, "panic")
    /\ UNCHANGED <<listening, permits, taken, run, subscribed, received, owed, closed>>

\* Mutant: the end of the stream is not the end of the subscribed loop.
HangUpIgnored(c) ==
    /\ handler[c] = "select"
    /\ sent[c] = {}
    /\ closed[c] = "between"
    /\ ~subscribed[c]
    /\ Ends(c, "ok")
    /\ UNCHANGED <<listening, permits, taken, run, subscribed, received, owed, peer>>

\* read_frame meets the end of the stream: Subscribe::apply returns to the
\* handler's loop, and the handler's own read ends it.
HangUp(c) ==
    /\ handler[c] = "select"
    /\ sent[c] = {}
    /\ closed[c] = "between"
    /\ IF subscribed[c]
       THEN handler' = [handler EXCEPT ![c] = "loop"] /\ UNCHANGED outcome
       ELSE Ends(c, "ok")
    /\ subscribed' = [subscribed EXCEPT ![c] = FALSE]
    /\ UNCHANGED <<listening, permits, taken, run, received, owed, peer>>

\* The stream ends or breaks within a frame: read_frame returns an error.
Reset(c) ==
    /\ handler[c] = "select"
    /\ sent[c] = {}
    /\ closed[c] = "within"
    /\ Ends(c, "error")
    /\ UNCHANGED <<listening, permits, taken, run, subscribed, received, owed, peer>>

\* A message of a subscribed channel is to be written.
Message(c) ==
    /\ handler[c] = "select"
    /\ subscribed[c]
    /\ handler' = [handler EXCEPT ![c] = "reply"]
    /\ UNCHANGED <<listening, permits, taken, run, subscribed, received, owed, outcome, peer>>

\* Mutant: the loop of Subscribe::apply does not listen for the shutdown.
ReceiveShutdownUnlessSubscribed(c) ==
    /\ handler[c] = "select"
    /\ Signalled
    /\ ~subscribed[c]
    /\ received' = [received EXCEPT ![c] = TRUE]
    /\ Ends(c, "ok")
    /\ UNCHANGED <<listening, permits, taken, run, subscribed, owed, peer>>

\* Mutant: the select! covers the whole command, its reply included.
ReceiveShutdownAnywhere(c) ==
    /\ handler[c] \in {"select", "reply"}
    /\ Signalled
    /\ received' = [received EXCEPT ![c] = TRUE]
    /\ Ends(c, "ok")
    /\ UNCHANGED <<listening, permits, taken, run, subscribed, owed, peer>>

\* Shutdown::recv returns in a select!: Handler::run returns, Subscribe::apply
\* returns to the loop of Handler::run.
ReceiveShutdown(c) ==
    /\ handler[c] = "select"
    /\ Signalled
    /\ received' = [received EXCEPT ![c] = TRUE]
    /\ IF subscribed[c]
       THEN handler' = [handler EXCEPT ![c] = "loop"] /\ UNCHANGED outcome
       ELSE Ends(c, "ok")
    /\ subscribed' = [subscribed EXCEPT ![c] = FALSE]
    /\ UNCHANGED <<listening, permits, taken, run, owed, peer>>

\* write_frame completes once the peer has read enough of what was written.
WriteCompletes(c) ==
    /\ handler[c] = "reply"
    /\ owed' = [owed EXCEPT ![c] = FALSE]
    /\ handler' = [handler EXCEPT ![c] = IF subscribed[c] THEN "select" ELSE "loop"]
    /\ UNCHANGED <<listening, permits, taken, run, subscribed, received, outcome, peer>>

\* The peer is gone: write_frame fails and ? returns the error.
WriteFails(c) ==
    /\ handler[c] = "reply"
    /\ closed[c] # "no"
    /\ Ends(c, "error")
    /\ UNCHANGED <<listening, permits, taken, run, subscribed, received, owed, peer>>

\* Mutant: the permit is returned by run, not by Drop, so a panic keeps it.
DropPermitUnlessPanic(c) ==
    /\ handler[c] = "drop_permit"
    /\ permits' = IF outcome[c] = "panic" THEN permits ELSE permits + 1
    /\ handler' = [handler EXCEPT ![c] = "drop_db"]
    /\ UNCHANGED <<listening, taken, run, subscribed, received, owed, outcome, peer>>

\* Drop::drop of Handler.
DropPermit(c) ==
    /\ handler[c] = "drop_permit"
    /\ permits' = permits + 1
    /\ handler' = [handler EXCEPT ![c] = "drop_db"]
    /\ UNCHANGED <<listening, taken, run, subscribed, received, owed, outcome, peer>>

\* The fields db and connection: what the peer did is seen by nobody now.
DropDb(c) ==
    /\ handler[c] = "drop_db"
    /\ handler' = [handler EXCEPT ![c] = "drop_complete"]
    /\ sent' = [sent EXCEPT ![c] = {}]
    /\ closed' = [closed EXCEPT ![c] = "no"]
    /\ UNCHANGED <<listening, permits, taken, run, subscribed, received, owed, outcome>>

\* The field _shutdown_complete.
DropComplete(c) ==
    /\ handler[c] = "drop_complete"
    /\ handler' = [handler EXCEPT ![c] = "gone"]
    /\ UNCHANGED <<listening, permits, taken, run, subscribed, received, owed, outcome, peer>>

-----------------------------------------------------------------------------
(***************************************************************************)
(* The function run.                                                       *)
(***************************************************************************)

\* The shutdown future completes: select! drops the future of Listener::run
\* wherever it waits.
ShutdownFires ==
    /\ run = "serving"
    /\ run' = "signal"
    /\ listener' = "stopped"
    /\ FreshBackoff
    /\ UNCHANGED <<permits, taken, conn, peer>>

\* drop(notify_shutdown)
Signal ==
    /\ run = "signal"
    /\ run' = "release"
    /\ UNCHANGED <<listening, permits, taken, conn, peer>>

\* drop(shutdown_complete_tx)
Release ==
    /\ run = "release"
    /\ run' = "wait"
    /\ UNCHANGED <<listening, permits, taken, conn, peer>>

\* recv() returns None once no handler holds a sender; run returns and drops
\* what is left of the Listener, first the DbDropGuard.
Return ==
    /\ run = "wait"
    /\ HoldsComplete = {}
    /\ run' = "returned"
    /\ UNCHANGED <<listening, permits, taken, conn, peer>>

-----------------------------------------------------------------------------
Listen == Acquire \/ (\E c \in Conns : Accept(c)) \/ AcceptFails \/ BackoffElapses

Drop(c) == DropPermit(c) \/ DropDb(c) \/ DropComplete(c)

Read(c) == Execute(c) \/ Reject(c) \/ Panic(c) \/ HangUp(c) \/ Reset(c)

Write(c) == WriteCompletes(c) \/ WriteFails(c)

Handle(c) == Loop(c) \/ Read(c) \/ Message(c) \/ ReceiveShutdown(c) \/ Write(c) \/ Drop(c)

Peer(c) == PeerConnects(c) \/ (\E kind \in Kinds : PeerSends(c, kind)) \/ PeerCloses(c)

ShutDown == Signal \/ Release \/ Return

Next ==
    \/ Listen
    \/ \E c \in Conns : Handle(c) \/ Peer(c)
    \/ ShutdownFires
    \/ ShutDown

Spec == Init /\ [][Next]_vars

\* Spawned tasks run.  select! polls its branches in random order, so a branch
\* that is ready again and again is taken: strong fairness for each.
TaskFairness ==
    /\ WF_vars(ShutDown)
    /\ \A c \in Conns : /\ WF_vars(Loop(c) \/ Drop(c))
                        /\ SF_vars(Read(c))
                        /\ SF_vars(ReceiveShutdown(c))

\* Every peer reads what is written to it, or its connection breaks.
PeersRead == \A c \in Conns : WF_vars(Write(c))

FairSpec == Spec /\ TaskFairness /\ PeersRead

-----------------------------------------------------------------------------
TypeOK ==
    /\ listener \in {"acquire", "accept", "backoff", "failed", "stopped"}
    /\ backoff \in Nat \ {0}
    /\ failures \in Nat
    /\ permits \in 0..MaxConnections
    /\ taken \in BOOLEAN
    /\ run \in {"serving", "signal", "release", "wait", "returned"}
    /\ handler \in [Conns -> {"absent", "backlog", "loop", "select", "reply",
                              "drop_permit", "drop_db", "drop_complete", "gone"}]
    /\ subscribed \in [Conns -> BOOLEAN]
    /\ received \in [Conns -> BOOLEAN]
    /\ owed \in [Conns -> BOOLEAN]
    /\ outcome \in [Conns -> {"none", "ok", "error", "panic"}]
    /\ sent \in [Conns -> SUBSET Kinds]
    /\ closed \in [Conns -> {"no", "between", "within"}]

(***************************************************************************)
(* No permit is lost and none is made: each is available, in the hands of  *)
(* the listener, or held by a handler that has not been dropped, however   *)
(* the handler ends (server.rs:231-244, 385-398).                          *)
(***************************************************************************)
PermitsConserved ==
    permits + Cardinality(HoldsPermit) + (IF taken THEN 1 ELSE 0) = MaxConnections

(***************************************************************************)
(* At no time are more than MaxConnections connections being processed     *)
(* (server.rs:108-120).                                                    *)
(***************************************************************************)
AtMostMaxConnections == Cardinality(Running) <= MaxConnections

(***************************************************************************)
(* When run returns, and so drops the DbDropGuard that shuts the database  *)
(* down, no handler holds a Db any more.  The code gets this from the      *)
(* order in which the fields of Handler are declared (server.rs:69-105,    *)
(* 204-208; db.rs:333-336).                                                *)
(***************************************************************************)
NoHandlerOutlivesRun == run = "returned" => HoldsDb = {}

(***************************************************************************)
(* A handler that ends without an error owes its peer no reply: the        *)
(* shutdown interrupts the wait for a frame, never a command               *)
(* (server.rs:328-330, 332-344, 377-378).                                  *)
(***************************************************************************)
NoReplyOwedAtExit == \A c \in Conns : outcome[c] = "ok" => ~owed[c]

\* The pauses between the tries of one accept, in seconds.
Pauses == <<1, 2, 4, 8, 16, 32, 64>>

(***************************************************************************)
(* accept pauses for 1 second after a first failure, twice as long after   *)
(* each further one in a row, and gives up only after the pause of 64      *)
(* seconds, with nothing left over from earlier connections (server.rs:    *)
(* 286-314).  The try on which this happens is not the one of the          *)
(* documentation: see SixthFailureIsLast.                                  *)
(***************************************************************************)
BackoffSchedule ==
    /\ listener = "backoff" => failures \in DOMAIN Pauses /\ backoff = Pauses[failures]
    /\ listener = "failed" => failures - 1 \in DOMAIN Pauses /\ Pauses[failures - 1] = MaxBackoff

(***************************************************************************)
(* What the documentation of accept says (server.rs:286-290): "If          *)
(* accepting fails on the 6th try after waiting for 64 seconds, then this  *)
(* function returns with an error."  No schedule keeps all of it: with     *)
(* pauses that double from 1 second, 64 seconds come before the 8th try.   *)
(***************************************************************************)
SixthFailureIsLast == failures = 6 => listener = "failed"

\* The listener has a permit in hand from acquire to the spawn of a handler.
TakenWhileAccepting ==
    /\ listener = "acquire" => ~taken
    /\ listener \in {"accept", "backoff"} => taken

\* run leaves its select! only when Listener::run failed or was dropped.
ListenerStops == run # "serving" => listener \in {"failed", "stopped"}

(***************************************************************************)
(* A graceful shutdown completes, whether the shutdown future or the       *)
(* listener's failure began it, if peers read what they are sent           *)
(* (server.rs:188-208).                                                    *)
(***************************************************************************)
ShutdownCompletes == run # "serving" ~> run = "returned"

(***************************************************************************)
(* A peer that hangs up frees its permit, also in the subscribed loop      *)
(* (server.rs:346-352; cmd/subscribe.rs:137-142).                          *)
(***************************************************************************)
HangUpFreesPermit ==
    \A c \in Conns : c \in Running /\ closed[c] # "no" ~> c \notin HoldsPermit
=============================================================================

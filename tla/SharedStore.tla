---------------------------- MODULE SharedStore ----------------------------
(***************************************************************************)
(* What a client that several callers share promises: each call takes      *)
(* effect at most once, at one moment, in the order in which its caller    *)
(* made its calls; what it answers is what the store held at that moment.  *)
(* A call that was abandoned may still take effect.  Calls are lost, and   *)
(* fail, only once the connection is broken.                               *)
(***************************************************************************)
EXTENDS Integers, SequencesExt, Subsequence

CONSTANTS
    Callers,   \* who shares the client
    Keys,
    Values

VARIABLES
    store,     \* store[k] is {} or the one value stored under k
    todo,      \* todo[c]: the calls of c that have not taken effect
    waiting,   \* waiting[c]: c awaits its last call
    answer,    \* answer[c]: {} or the answer to the last call of c
    broken     \* the connection is broken

vars == <<store, todo, waiting, answer, broken>>

\* Rust's Option<T>: the empty set is None, a singleton is Some.
Opt(S) == {o \in SUBSET S : \A x, y \in o : x = y}

\* A SET of a value; without a value, a GET.
Commands == [key : Keys, value : Opt(Values)]

Ok(value) == [ok |-> TRUE, value |-> value]
Err == [ok |-> FALSE, value |-> {}]

Init ==
    /\ store = [k \in Keys |-> {}]
    /\ todo = [c \in Callers |-> <<>>]
    /\ waiting = [c \in Callers |-> FALSE]
    /\ answer = [c \in Callers |-> {}]
    /\ broken = FALSE

Call(c, command) ==
    /\ ~waiting[c]
    /\ waiting' = [waiting EXCEPT ![c] = TRUE]
    /\ answer' = [answer EXCEPT ![c] = {}]
    /\ todo' = [todo EXCEPT ![c] = Append(@, [command |-> command, awaited |-> TRUE])]
    /\ UNCHANGED <<store, broken>>

\* What a command answers: a GET the value, a SET nothing.
Answer(command) == Ok(IF command.value = {} THEN store[command.key] ELSE {})

Effect(c) ==
    /\ todo[c] # <<>>
    /\ LET call == Head(todo[c])
           command == call.command
       IN  /\ store' = IF command.value = {} THEN store
                       ELSE [store EXCEPT ![command.key] = command.value]
           /\ answer' \in IF call.awaited
                          THEN {[answer EXCEPT ![c] = {Answer(command)}]}
                                  \cup {a \in {answer} : broken}
                          ELSE {answer}
    /\ todo' = [todo EXCEPT ![c] = Tail(@)]
    /\ UNCHANGED <<waiting, broken>>

Return(c) ==
    /\ waiting[c]
    /\ answer[c] # {}
    /\ waiting' = [waiting EXCEPT ![c] = FALSE]
    /\ UNCHANGED <<store, todo, answer, broken>>

\* The calls of c with none awaited any more; the last may have been withdrawn.
Unawaited(c) == [i \in DOMAIN todo[c] |-> [todo[c][i] EXCEPT !.awaited = FALSE]]

Withdrawn(c) == Only(todo[c], [command : Commands, awaited : {FALSE}])

Abandon(c) ==
    /\ waiting[c]
    /\ waiting' = [waiting EXCEPT ![c] = FALSE]
    /\ answer' = [answer EXCEPT ![c] = {}]
    /\ \E left \in {Unawaited(c), Withdrawn(c)} : todo' = [todo EXCEPT ![c] = left]
    /\ UNCHANGED <<store, broken>>

Fail(c) ==
    /\ broken
    /\ waiting[c]
    /\ answer[c] = {}
    /\ answer' = [answer EXCEPT ![c] = {Err}]
    /\ \E left \in {Unawaited(c), Withdrawn(c)} : todo' = [todo EXCEPT ![c] = left]
    /\ UNCHANGED <<store, waiting, broken>>

\* The connection breaks, or is broken: a call or an answer is lost.
Lose(c) ==
    /\ broken' = TRUE
    /\ \/ /\ \E i \in DOMAIN todo[c] : todo' = [todo EXCEPT ![c] = RemoveAt(@, i)]
          /\ UNCHANGED answer
       \/ /\ waiting[c]
          /\ answer' = [answer EXCEPT ![c] = {}]
          /\ UNCHANGED todo
    /\ UNCHANGED <<store, waiting>>

Break ==
    /\ broken' = TRUE
    /\ UNCHANGED <<store, todo, waiting, answer>>

Next ==
    \/ \E c \in Callers :
         \/ \E command \in Commands : Call(c, command)
         \/ Effect(c) \/ Return(c) \/ Abandon(c) \/ Fail(c) \/ Lose(c)
    \/ Break

Spec == Init /\ [][Next]_vars
=============================================================================

------------------------------ MODULE AtomicUnit ------------------------------
(***************************************************************************)
(* What the debug API promises to its threads: the modules of the debug    *)
(* unit are memories, and a call accesses the words of its module at one   *)
(* moment between its begin and its end.                                   *)
(***************************************************************************)
EXTENDS Integers

CONSTANTS Thread, Value, MaxLen, Calls, Module

VARIABLES
    stage,   \* "idle", "called" or "done"
    call,    \* the function called, and the value it writes
    read,    \* what it has read
    words    \* what the modules hold

vars == <<stage, call, read, words>>

Init ==
    /\ stage = [t \in Thread |-> "idle"]
    /\ call \in [Thread -> [fun : Calls, value : Value]]
    /\ read = [t \in Thread |-> <<>>]
    /\ words \in [Module -> [1 .. MaxLen -> Value]]

Reading == {"read", "read_ctrl", "transact"}
Writing == {"write", "write_ctrl", "transact"}

Begin(t) ==
    /\ stage[t] = "idle"
    /\ stage' = [stage EXCEPT ![t] = "called"]
    /\ \E f \in Calls, v \in Value :
           call' = [call EXCEPT ![t] = [fun |-> f, value |-> v]]
    /\ read' = [read EXCEPT ![t] = <<>>]
    /\ words' = words

Access(t) ==
    LET fun == call[t].fun IN
    /\ stage[t] = "called"
    /\ stage' = [stage EXCEPT ![t] = "done"]
    /\ read' = IF fun.does \in Reading
               THEN [read EXCEPT ![t] =
                       [a \in 1 .. fun.len |-> words[fun.unit][a]]]
               ELSE read
    /\ words' = IF fun.does \in Writing
                THEN [words EXCEPT ![fun.unit] =
                        [a \in 1 .. MaxLen |-> IF a <= fun.len THEN call[t].value
                                               ELSE @[a]]]
                ELSE words
    /\ call' = call

End(t) ==
    /\ stage[t] = "done"
    /\ stage' = [stage EXCEPT ![t] = "idle"]
    /\ UNCHANGED <<call, read, words>>

Next == \E t \in Thread : Begin(t) \/ Access(t) \/ End(t)

Spec == Init /\ [][Next]_vars
=============================================================================

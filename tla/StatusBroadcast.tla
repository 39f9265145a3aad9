--------------------------- MODULE StatusBroadcast ---------------------------
(***************************************************************************)
(* What hardware_monitor.h promises the servers, without threads, locks or *)
(* descriptors.  There is one target, running or stopped.  A server that   *)
(* has joined may ask for a stop or a start; a request is served in one    *)
(* step, which also puts "H" or "R" in the inbox of every server then      *)
(* joined.  The target may be found stopped, which puts "H" in every       *)
(* inbox.  A server reads its own inbox in order and misses nothing        *)
(* between joining and leaving, so any two servers see the same events in  *)
(* the same order while both are joined.                                   *)
(***************************************************************************)
EXTENDS Sequences

CONSTANTS Servers, Listeners

VARIABLES running, joined, requests, inbox

vars == <<running, joined, requests, inbox>>

Init ==
    /\ running = TRUE
    /\ joined = Listeners
    /\ requests = [s \in Servers |-> << >>]
    /\ inbox = [s \in Servers |-> << >>]

\* Every joined server is told in the same step.
Tell(status) ==
    inbox' = [s \in Servers |->
                 IF s \in joined THEN Append(inbox[s], status) ELSE inbox[s]]

Join(s) ==
    /\ s \in Servers \ joined
    /\ joined' = joined \union {s}
    /\ UNCHANGED <<running, requests, inbox>>

\* A server that leaves takes its unserved requests and unread news along.
Leave(s) ==
    /\ s \in joined
    /\ joined' = joined \ {s}
    /\ requests' = [requests EXCEPT ![s] = << >>]
    /\ inbox' = [inbox EXCEPT ![s] = << >>]
    /\ UNCHANGED running

Request(s, c) ==
    /\ s \in joined
    /\ requests' = [requests EXCEPT ![s] = Append(@, c)]
    /\ UNCHANGED <<running, joined, inbox>>

ServeStop(s) ==
    /\ s \in joined
    /\ requests[s] # << >>
    /\ Head(requests[s]) = "S"
    /\ requests' = [requests EXCEPT ![s] = Tail(@)]
    /\ running' = FALSE
    /\ Tell("H")
    /\ UNCHANGED joined

ServeStart(s) ==
    /\ s \in joined
    /\ requests[s] # << >>
    /\ Head(requests[s]) = "U"
    /\ requests' = [requests EXCEPT ![s] = Tail(@)]
    /\ running' = TRUE
    /\ Tell("R")
    /\ UNCHANGED joined

FoundStopped ==
    /\ running
    /\ running' = FALSE
    /\ Tell("H")
    /\ UNCHANGED <<joined, requests>>

Read(s) ==
    /\ inbox[s] # << >>
    /\ inbox' = [inbox EXCEPT ![s] = Tail(@)]
    /\ UNCHANGED <<running, joined, requests>>

Next ==
    \/ FoundStopped
    \/ \E s \in Servers :
           \/ Join(s) \/ Leave(s)
           \/ \E c \in {"S", "U"} : Request(s, c)
           \/ ServeStop(s) \/ ServeStart(s)
           \/ Read(s)

Spec == Init /\ [][Next]_vars
=============================================================================

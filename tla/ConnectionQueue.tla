-------------------------- MODULE ConnectionQueue ---------------------------
(***************************************************************************)
(* What the web server promises: connections are taken up in the order in  *)
(* which they were accepted, each by one worker, and finished once.        *)
(***************************************************************************)
EXTENDS Naturals, Sequences, FiniteSets

CONSTANTS Client,    \* a connection stands for its client
          Workers    \* how many connections are handled at a time

VARIABLES waiting,   \* accepted and not yet taken up, oldest first
          handled    \* taken up and not yet finished

vars == <<waiting, handled>>

Init == waiting = <<>> /\ handled = {}

Accept == /\ \E c \in Client :
               /\ c \notin handled
               /\ \A i \in DOMAIN waiting : waiting[i] # c
               /\ waiting' = Append(waiting, c)
          /\ UNCHANGED handled

Take == /\ waiting # <<>>
        /\ Cardinality(handled) < Workers
        /\ handled' = handled \cup {Head(waiting)}
        /\ waiting' = Tail(waiting)

Finish == /\ \E c \in handled : handled' = handled \ {c}
          /\ UNCHANGED waiting

Next == Accept \/ Take \/ Finish

Spec == Init /\ [][Next]_vars

=============================================================================

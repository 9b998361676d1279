------------------------------ MODULE Dispatch ------------------------------
(***************************************************************************)
(* What the investigation pool promises, whatever the queue and the event  *)
(* loop look like: triggers get consecutive tickets; a ticket is taken at  *)
(* most once, by one taker, who settles it before taking another; an       *)
(* orderly close leaves no ticket behind; a closed pool hands out nothing. *)
(***************************************************************************)
EXTENDS Integers

CONSTANT Takers

VARIABLES
    next,      \* the next ticket
    waiting,   \* tickets nobody has taken
    held,      \* taker |-> the ticket it works on, or Nothing
    settled,   \* tickets whose work came to an end of its own
    dropped,   \* tickets whose work was cut off
    status     \* "open", "drained" or "aborted"

vars == <<next, waiting, held, settled, dropped, status>>

Nothing == -1

Init ==
    /\ next = 0
    /\ waiting = {} /\ settled = {} /\ dropped = {}
    /\ held = [k \in Takers |-> Nothing]
    /\ status = "open"

Submit ==
    /\ status = "open"
    /\ waiting' = waiting \cup {next}
    /\ next' = next + 1
    /\ UNCHANGED <<held, settled, dropped, status>>

\* A taker settles the ticket it holds, if any, and takes the next or rests.
Advance(k) ==
    /\ status = "open"
    /\ settled' = settled \cup ({held[k]} \ {Nothing})
    /\ \/ /\ held' = [held EXCEPT ![k] = Nothing]
          /\ UNCHANGED waiting
       \/ \E t \in waiting :
             /\ waiting' = waiting \ {t}
             /\ held' = [held EXCEPT ![k] = t]
    /\ UNCHANGED <<next, dropped, status>>

Drain ==
    /\ status = "open"
    /\ waiting = {} /\ \A k \in Takers : held[k] = Nothing
    /\ status' = "drained"
    /\ UNCHANGED <<next, waiting, held, settled, dropped>>

Abort ==
    /\ status' = "aborted"
    /\ UNCHANGED <<next, waiting, held, settled, dropped>>

\* Only an aborted pool cuts work off.
Drop(k) ==
    /\ status = "aborted" /\ held[k] # Nothing
    /\ dropped' = dropped \cup {held[k]}
    /\ held' = [held EXCEPT ![k] = Nothing]
    /\ UNCHANGED <<next, waiting, settled, status>>

Next ==
    \/ Submit \/ Drain \/ Abort
    \/ \E k \in Takers : Advance(k) \/ Drop(k)

Spec == Init /\ [][Next]_vars
=============================================================================

------------------------------- MODULE Recording -------------------------------
(***************************************************************************)
(* What the recorder promises while one process runs, without pools, files *)
(* or an index: segments are taken in the order in which they are handed   *)
(* over, each is kept or refused, and what is given up to make room is the *)
(* oldest that is kept ("the oldest is overwritten", src/src/config.rs).   *)
(***************************************************************************)
EXTENDS Naturals, Sequences

VARIABLES
    last,     \* the number of the segment handed over last
    waiting,  \* segments handed over and not yet decided, oldest first
    kept      \* segments that can be listed, played and exported

vars == <<last, waiting, kept>>

Init == last = 0 /\ waiting = <<>> /\ kept = {}

HandOver ==
    /\ last' = last + 1
    /\ waiting' = Append(waiting, last + 1)
    /\ UNCHANGED kept

Keep ==
    /\ waiting # <<>>
    /\ kept' = kept \cup {Head(waiting)}
    /\ waiting' = Tail(waiting)
    /\ UNCHANGED last

Refuse ==
    /\ waiting # <<>>
    /\ waiting' = Tail(waiting)
    /\ UNCHANGED <<last, kept>>

\* Room is made: everything older than some kept segment goes; the newest stays.
\* (A ring of three pools or more does so, whatever appends fail.)
GiveUpOldest ==
    /\ \E n \in kept : kept' = {m \in kept : m >= n}
    /\ UNCHANGED <<last, waiting>>

Next == HandOver \/ Keep \/ Refuse \/ GiveUpOldest

Spec == Init /\ [][Next]_vars

==============================================================================

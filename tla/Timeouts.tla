------------------------------ MODULE Timeouts ------------------------------
(***************************************************************************)
(* What the timeout ticker promises to the consensus state machine, and    *)
(* what ConsensusState takes for granted: a tick counts if it is later     *)
(* than all before it, any tick that counted may fire, at any time and     *)
(* again, and no other one fires.  A tick is the number of its place, the  *)
(* order of height, round and step.                                        *)
(***************************************************************************)
EXTENDS Integers

CONSTANT Ticks

VARIABLES
    ticks,      \* the ticks that count
    taken       \* those that have fired, at least once

Init == ticks = {} /\ taken = {}

Newest(t) == t \in ticks /\ \A u \in ticks : u <= t

ScheduleTimeout(t) ==
    /\ \A u \in ticks : u < t
    /\ ticks' = ticks \cup {t}
    /\ UNCHANGED taken

Fire(t) ==
    /\ t \in ticks
    /\ taken' = taken \cup {t}
    /\ UNCHANGED ticks

Next == \E t \in Ticks : ScheduleTimeout(t) \/ Fire(t)

Spec == Init /\ [][Next]_<<ticks, taken>>
=============================================================================

-------------------------- MODULE ConsensusLiveness -------------------------
(***************************************************************************)
(* Consensus once the network is synchronous: what a correct node has      *)
(* broadcast reaches every node (pubsub relays it, and ConsensusSync asks  *)
(* for it again).  Before PatientRound a timeout may fire at any moment;   *)
(* ConsensusConfig makes the timeouts longer from round to round, and from *)
(* PatientRound on they outlast the delivery of what is under way.         *)
(***************************************************************************)
EXTENDS Consensus

CONSTANT PatientRound

ASSUME PatientAssumption == PatientRound \in Nat

(* Nothing that was broadcast is still to be taken.                         *)
Quiet ==
    \A n \in Correct : /\ cs[n].internalMsgQueue = <<>>
                       /\ \A m \in net : ~MessageApplies(cs[n], m)

(* The timeout node n waits for: only its newest tick is sure to fire, it   *)
(* has stopped the timer of the others.                                     *)
Waits(n, ti) ==
    /\ ~cs[n].halted
    /\ ti \in cs[n].ticks
    /\ \A t \in cs[n].ticks \ {ti} : Later(ti, t)
    /\ TockApplies(cs[n], ti)

(* From PatientRound on it fires when the network is quiet, and after the   *)
(* timeouts of earlier steps that other nodes wait for.                     *)
Due(n, ti) ==
    /\ Waits(n, ti)
    /\ \/ ti.round < PatientRound
       \/ /\ Quiet
          /\ \A m \in Correct : \A t \in cs[m].ticks : Waits(m, t) => ~Later(ti, t)

PatientTock(n) == \E ti \in cs[n].ticks : Due(n, ti) /\ HandleTock(n, ti)

Delivery(n) == \E m \in net : HandlePeerMsg(n, m)

FaultyDelivery(n) == \E m \in FaultyMsgs : HandlePeerMsg(n, m)

SynchronousNext ==
    \E n \in Correct :
        \/ Delivery(n) \/ FaultyDelivery(n) \/ HandleInternalMsg(n) \/ PatientTock(n)
        \/ HandleSyncTimer(n)

(* ENABLED Delivery(n), and so on, as state predicates: TLC evaluates them  *)
(* once, and an ENABLED of these cascades again and again.                  *)
CanDeliver(n) ==
    /\ ~cs[n].halted
    /\ \E m \in net : /\ MessageApplies(cs[n], m)
                      /\ InBounds(HandleMsg(n, cs[n], m))

CanHandleInternal(n) ==
    LET s == [cs[n] EXCEPT !.internalMsgQueue = Tail(@)]
    IN  /\ ~cs[n].halted
        /\ cs[n].internalMsgQueue # <<>>
        /\ InBounds(HandleMsg(n, s, Head(cs[n].internalMsgQueue)))

CanTock(n) ==
    \E ti \in cs[n].ticks :
        Due(n, ti) /\ InBounds(HandleTimeout(n, cs[n], ti))

(* Weak fairness of each of the three, written out: the select of           *)
(* receiveRoutine serves every channel that stays ready.  A faulty          *)
(* validator owes nobody anything.                                          *)
Fairness ==
    \A n \in Correct :
        /\ []<>~CanDeliver(n) \/ []<><<Delivery(n)>>_vars
        /\ []<>~CanHandleInternal(n) \/ []<><<HandleInternalMsg(n)>>_vars
        /\ []<>~CanTock(n) \/ []<><<PatientTock(n)>>_vars

SynchronousSpec == Init /\ [][SynchronousNext]_vars /\ Fairness

(* Every correct node learns the decision of every height for good, though  *)
(* later votes may take it out of the Commit step again, whatever the first *)
(* timeouts and the faulty validator do to the locks: no combination of     *)
(* missed proposals, hidden polkas, round skips and superseded timers       *)
(* leaves the correct validators waiting for each other. A node that waits  *)
(* in the Commit step knows the decision; whether it gets the block is      *)
(* CommitGetsItsBlock of ConsensusSync. A node that createSyncRequest has   *)
(* stopped excuses the others: the quorum may be gone.                      *)
Termination ==
    \/ <>(\E n \in Correct : cs[n].halted)
    \/ <>[](\A n \in Correct : cs[n].height > MaxHeight \/ cs[n].step = RoundStepCommit)
=============================================================================

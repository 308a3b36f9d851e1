------------------------------ MODULE Consensus -----------------------------
(***************************************************************************)
(* The validators of one chain, their gossip and block sync: the node of   *)
(* ConsensusState composed with the network.                               *)
(*                                                                         *)
(* A node broadcasts a message, its own or a peer's, when its handler has  *)
(* taken it (the added result of handleMsg).  net is the set of all        *)
(* messages broadcast so far: the pubsub and sync streams may lose, delay, *)
(* duplicate and reorder them, so a node may take any of them at any time  *)
(* and any number of times, or never.                                      *)
(*                                                                         *)
(* A faulty validator has no state.  FaultyMsgs are the messages it may    *)
(* sign; it may send any of them to any node at any time.                  *)
(***************************************************************************)
EXTENDS ConsensusState

CONSTANTS
    FaultyMsgs,     \* what the faulty validators may say
    MaxHeight,      \* bound: the height of the last block decided
    MaxRound        \* bound: the last round of a height

ASSUME FaultyAssumption ==
    /\ FaultyMsgs \subseteq Messages
    /\ \A m \in FaultyMsgs : /\ m.val \in Validators \ Correct
                             /\ m.type = "proposal" => m.block # Nil

ASSUME BoundAssumption == MaxHeight \in Nat \ {0} /\ MaxRound \in Nat

VARIABLES
    cs,     \* cs[n]: the ConsensusState of correct node n
    net     \* every message broadcast by a correct node so far

vars == <<cs, net>>

TypeOK ==
    /\ cs \in [Correct -> ConsensusStates]
    /\ net \subseteq Messages

Init ==
    /\ cs = [n \in Correct |-> NewConsensusState]
    /\ net = {}

-----------------------------------------------------------------------------

(* Node n ends a handler in state s.  The bounds cut what goes beyond them: *)
(* at height MaxHeight + 1 a node only takes late precommits.               *)
InBounds(s) ==
    /\ s.round <= MaxRound
    /\ s.height <= MaxHeight \/ s.step = RoundStepNewHeight

Becomes(n, s) == InBounds(s) /\ cs' = [cs EXCEPT ![n] = s]

(* handleMsg on a message, and the broadcast if it was added; a panic       *)
(* comes before the broadcast.                                              *)
TakeMsg(n, s, m) ==
    /\ Becomes(n, HandleMsg(n, s, m))
    /\ net' = IF MessageApplies(s, m) /\ ~cs'[n].halted
              THEN net \cup {m} ELSE net

(* receiveRoutine takes a message from peerInMsgQueue; one that does not    *)
(* apply changes nothing.                                                   *)
HandlePeerMsg(n, m) ==
    /\ ~cs[n].halted
    /\ MessageApplies(cs[n], m)
    /\ TakeMsg(n, cs[n], m)

(* It takes its own next message from internalMsgQueue.                     *)
HandleInternalMsg(n) ==
    /\ ~cs[n].halted
    /\ cs[n].internalMsgQueue # <<>>
    /\ TakeMsg(n, [cs[n] EXCEPT !.internalMsgQueue = Tail(@)],
               Head(cs[n].internalMsgQueue))

(* A timer of the ticker fires.                                             *)
HandleTock(n, ti) ==
    /\ ~cs[n].halted
    /\ TockApplies(cs[n], ti)
    /\ Becomes(n, HandleTimeout(n, cs[n], ti))
    /\ UNCHANGED net

(* The blocks with a commit that a node can be sent for height h: what a    *)
(* correct peer has stored, and what a faulty one can put together from     *)
(* the precommits on the network.                                           *)
Stored(h) ==
    {cs[m].blockStore[h] : m \in {k \in Correct : Len(cs[k].blockStore) >= h}}

Justified(h) ==
    LET precommits == {v \in net \cup FaultyMsgs : v.type = "precommit" /\ v.height = h}
    IN  {fb \in {[block |-> v.block,
                  commit |-> {w \in precommits : /\ w.round = v.round
                                                 /\ w.block = v.block
                                                 /\ w.val \in Q}] :
                    v \in precommits, Q \in Quorums} :
            VerifyCommit(fb)}

(* A block that a peer has committed arrives on committedBlockChan.         *)
HandleCommittedBlock(n, fb) ==
    /\ ~cs[n].halted
    /\ Becomes(n, ProcessCommittedBlock(n, cs[n], fb))
    /\ UNCHANGED net

(* The sync timer of receiveRoutine fires.  A request changes nothing, and  *)
(* what it may bring comes with the actions above (ConsensusSync has the    *)
(* answers).  For round -1 createSyncRequest reads the bitmap of a vote set *)
(* that does not exist: it panics, unless the fork makes one up.            *)
HandleSyncTimer(n) ==
    /\ ~cs[n].halted
    /\ SyncRound(cs[n]) = -1
    /\ Becomes(n, Panic(cs[n]))
    /\ UNCHANGED net

Next ==
    \E n \in Correct :
        \/ \E m \in net \cup FaultyMsgs : HandlePeerMsg(n, m)
        \/ HandleInternalMsg(n)
        \/ \E ti \in cs[n].ticks : HandleTock(n, ti)
        \/ \E fb \in Stored(cs[n].height) \cup Justified(cs[n].height) :
                HandleCommittedBlock(n, fb)
        \/ HandleSyncTimer(n)

Spec == Init /\ [][Next]_vars

-----------------------------------------------------------------------------
(* Safety.                                                                  *)

(* Two correct nodes never commit different blocks at one height: every     *)
(* commit path (enterCommit, the late proposal of setProposal, the fast     *)
(* path of processCommitedBlock) ends in the same chain.                    *)
Agreement ==
    \A n, m \in Correct : \A h \in 1..Len(cs[n].lastBlock) :
        h <= Len(cs[m].lastBlock) => cs[n].lastBlock[h] = cs[m].lastBlock[h]

(* A correct validator signs at most one vote of a type in a round: the     *)
(* step guards of enterPrevote and enterPrecommit hold whatever timeouts,   *)
(* round skips and commits interleave.                                      *)
NoEquivocation ==
    \A n \in Correct : \A v, w \in cs[n].signed :
        (v.type = w.type /\ v.height = w.height /\ v.round = w.round) => v = w

(* Where the code follows a nil vote set: LastCommit at the initial height, *)
(* when there is a precommit for the height before, and the bitmap of round *)
(* -1 in createSyncRequest.                                                 *)
MeetsNil(s) ==
    \/ /\ s.step = RoundStepNewHeight /\ s.lastCommit = {}
       /\ \E m \in FaultyMsgs : m.type = "precommit" /\ m.height + 1 = s.height
    \/ SyncRound(s) = -1

(* receiveRoutine dies at a nil vote set or not at all.  No panic that the  *)
(* code itself raises is reachable, none of the enter functions on missing  *)
(* votes or an invalid block, of finalizeCommit and of updateToState,       *)
(* whatever messages, timeouts and committed blocks interleave.             *)
PanicsAtNilOnly == \A n \in Correct : cs[n].halted => MeetsNil(cs[n])

(* After a precommit for a block the node stays locked on it, in that round *)
(* or a later one, unless it has seen a polka of a later round, not beyond  *)
(* its own, for something else: the lock rules of enterPrecommit, addVote   *)
(* and updateToState never drop a lock that may already be a decision.      *)
LockHeld ==
    \A n \in Correct : \A v \in cs[n].signed :
        (v.type = "precommit" /\ v.block # Nil /\ v.height = cs[n].height) =>
            \/ cs[n].lockedBlock = v.block /\ cs[n].lockedRound >= v.round
            \/ \E r \in v.round + 1 .. cs[n].round :
                   TwoThirdsMajority(Prevotes(cs[n], r)) \ {v.block} # {}

(* A lock, a valid block and a precommit for a block rest on a polka the    *)
(* node has itself collected, in the round they name.                       *)
JustifiedByPolka ==
    \A n \in Correct :
        LET Polka(r) == TwoThirdsMajority(Prevotes(cs[n], r))
        IN  /\ cs[n].lockedBlock # Nil => cs[n].lockedBlock \in Polka(cs[n].lockedRound)
            /\ cs[n].validBlock # Nil => cs[n].validBlock \in Polka(cs[n].validRound)
            /\ \A v \in cs[n].signed :
                   (v.type = "precommit" /\ v.height = cs[n].height /\ v.block # Nil)
                       => v.block \in Polka(v.round)

(* The block store holds the blocks of the chain state, each with a commit  *)
(* that VerifyCommit accepts for it, and LastCommit justifies the last      *)
(* block, so that the node can propose: consensus state, chain state and    *)
(* store move together on both commit paths, and late precommits do not     *)
(* spoil LastCommit.                                                        *)
StoreMatchesChain ==
    \A n \in Correct :
        LET s == cs[n]
            k == Len(s.lastBlock)
        IN  /\ Len(s.blockStore) = k /\ s.height = k + 1
            /\ \A h \in 1..k : /\ s.blockStore[h].block = SubSeq(s.lastBlock, 1, h)
                               /\ s.blockStore[h].block
                                      \in TwoThirdsMajority(s.blockStore[h].commit)
            /\ k > 0 => s.lastBlock \in TwoThirdsMajority(s.lastCommit)

(* Height, round and step of a node never go back: no stale timeout, no     *)
(* late vote of an earlier round and no repeated block takes a node to      *)
(* where it has been.                                                       *)
StepsForward ==
    [][\A n \in Correct :
           \/ cs'[n].height > cs[n].height
           \/ /\ cs'[n].height = cs[n].height
              /\ \/ cs'[n].round > cs[n].round
                 \/ cs'[n].round = cs[n].round /\ cs'[n].step >= cs[n].step]_vars

(* The committed blocks of the nodes are a replicated chain.                *)
Chain == INSTANCE ReplicatedChain WITH
             Nodes <- Correct, Contents <- ValidContents,
             chain <- [n \in Correct |-> cs[n].lastBlock]

ImplementsChain == Chain!Spec
=============================================================================

--------------------------- MODULE ConsensusSafety ---------------------------
(***************************************************************************)
(* The inductive invariant behind the safety of Consensus: why two quorums *)
(* never commit different blocks.                                          *)
(*                                                                         *)
(* Agreement says nothing of the votes under way, so it is not inductive.  *)
(* SafetyInv speaks of all votes ever cast, delivered or not.  What a node *)
(* knows and what it has signed rests on them (Grounded); a node that has  *)
(* precommitted a block prevotes against it only after a later polka for   *)
(* another (Kept); and while a block may still be committed in a round, no *)
(* later round has a polka for anything else (NoRival).  The argument is   *)
(* that of NoRival: the correct node that is in both quorums has kept its  *)
(* precommit, unless a polka between the two rounds released it, and that  *)
(* one would have been a rival already.                                    *)
(***************************************************************************)
EXTENDS Consensus

(* All votes that were ever signed by correct nodes, and all a faulty       *)
(* validator may sign.                                                      *)
Cast == {m \in FaultyMsgs \cup UNION {cs[n].signed : n \in Correct} :
             m.type # "proposal"}

(* The validators behind a block (or nil) in a set K of votes.              *)
Backers(K, type, h, r, b) ==
    {v.val : v \in {w \in K : /\ w.type = type /\ w.height = h
                              /\ w.round = r /\ w.block = b}}

(* The votes of K prevote, or commit, block b in a round.                   *)
PolkaIn(K, h, r, b)  == Backers(K, "prevote", h, r, b) \in Quorums
CommitIn(K, h, r, b) == Backers(K, "precommit", h, r, b) \in Quorums

(* A chain that the votes of K have decided up to its last block.           *)
Tip(K, chain) ==
    chain = Nil \/ \E v \in K : CommitIn(K, Len(chain), v.round, chain)

(* Block b is a valid child of the last block of chain.                     *)
Follows(chain, b) == \E c \in ValidContents : b = Append(chain, c)

(* The blocks with a polka of round r in the votes of one height.           *)
Polka(votes, r) ==
    TwoThirdsMajority({v \in votes : v.type = "prevote" /\ v.round = r})

-----------------------------------------------------------------------------
(* One node in state s, when K are the votes cast.                          *)

(* It counts votes of its height that were cast.                            *)
VotesOK(K, votes, h) == \A v \in votes : v \in K /\ v.height = h

(* A lock or a valid block has a polka among them.                          *)
Backed(votes, r, b) == b # Nil => b \in Polka(votes, r)

(* The block that m is for is a valid child of a decided one.               *)
OnTip(K, m) ==
    \E chain \in {Nil} \cup {v.block : v \in K} :
        Tip(K, chain) /\ Len(chain) + 1 = m.height /\ Follows(chain, m.block)

(* The node signs in its own name, prevotes for children of decided blocks  *)
(* and precommits what has a polka.                                         *)
SignedOK(n, K, signed) ==
    \A m \in signed :
        /\ m.val = n
        /\ m.type # "proposal" => m.height > 0
        /\ m.type = "prevote" /\ m.block # Nil => OnTip(K, m)
        /\ m.type = "precommit" /\ m.block # Nil
               => PolkaIn(K, m.height, m.round, m.block)

(* Its precommits of this height hold the lock, up to a later polka that    *)
(* the node has seen.                                                       *)
Held(signed, votes, h, round, lockedRound, lockedBlock) ==
    \A v \in signed :
        (v.type = "precommit" /\ v.block # Nil /\ v.height = h) =>
            /\ v.block \in Polka(votes, v.round)
            /\ \/ lockedBlock = v.block /\ lockedRound >= v.round
               \/ \E r \in v.round + 1 .. round : Polka(votes, r) \ {v.block} # {}

(* After a precommit it prevotes for something else only when a later polka *)
(* for something else was cast.                                             *)
Kept(K, signed) ==
    \A v, w \in signed :
        (/\ v.type = "precommit" /\ v.block # Nil
         /\ w.type = "prevote" /\ w.height = v.height
         /\ w.round > v.round /\ w.block # v.block)
        => \E u \in K : /\ u.round > v.round /\ u.block # v.block
                        /\ PolkaIn(K, v.height, u.round, u.block)

(* The own queue holds proposals and votes it has signed.                   *)
QueueOK(queue, signed) ==
    \A i \in 1..Len(queue) : queue[i].type # "proposal" => queue[i] \in signed

(* The store holds the chain, with commits made of votes cast.              *)
StoreOK(K, lastBlock, blockStore) ==
    /\ Len(blockStore) = Len(lastBlock)
    /\ \A h \in 1..Len(lastBlock) :
           /\ blockStore[h].block = SubSeq(lastBlock, 1, h)
           /\ blockStore[h].commit \subseteq K
           /\ VerifyCommit(blockStore[h])

(* LastCommit commits the last block.                                       *)
LastCommitOK(lastBlock, lastCommit) ==
    lastBlock # Nil => lastBlock \in TwoThirdsMajority(lastCommit)

(* Only timers that handleTimeout knows are scheduled.                      *)
TimersOK(ticks) ==
    \A ti \in ticks : ti.step \in {RoundStepNewHeight, RoundStepPropose,
                                   RoundStepPrevoteWait, RoundStepPrecommitWait}

(* What is asked of one node, also of one that has panicked.                *)
Grounded(n, K, s) ==
    /\ VotesOK(K, s.votes, s.height)
    /\ Backed(s.votes, s.lockedRound, s.lockedBlock)
    /\ Backed(s.votes, s.validRound, s.validBlock)
    /\ SignedOK(n, K, s.signed)
    /\ Held(s.signed, s.votes, s.height, s.round, s.lockedRound, s.lockedBlock)
    /\ Kept(K, s.signed)
    /\ QueueOK(s.internalMsgQueue, s.signed)
    /\ StoreOK(K, s.lastBlock, s.blockStore)
    /\ LastCommitOK(s.lastBlock, s.lastCommit)
    /\ TimersOK(s.ticks)

(* What is asked of one that runs, and of any.                              *)
Safe(n, K, s)      == ~s.halted /\ Grounded(n, K, s)
Accounted(n, K, s) == (s.halted => MeetsNil(s)) /\ Grounded(n, K, s)

-----------------------------------------------------------------------------
(* All nodes.                                                               *)

(* A node in state s signs no more precommit for a round.                   *)
Past(s, h, r) ==
    \/ s.height > h
    \/ /\ s.height = h
       /\ s.round > r \/ (s.round = r /\ s.step >= RoundStepPrecommit)

(* It has signed one for block b.                                           *)
HasPrecommitted(s, h, r, b) ==
    \E v \in s.signed : /\ v.type = "precommit" /\ v.height = h
                        /\ v.round = r /\ v.block = b

(* Block b is, or may yet be, committed in round r of height h.             *)
Choosable(h, r, b) ==
    \E Q \in Quorums : \A m \in Q \cap Correct :
        ~Past(cs[m], h, r) \/ HasPrecommitted(cs[m], h, r, b)

(* A polka in a later round (that of w) for another block or for nil rules  *)
(* out that a block that was voted for (by v) is committed.                 *)
NoRival ==
    \A w \in Cast : PolkaIn(Cast, w.height, w.round, w.block) =>
        \A v \in Cast : \A r \in 0 .. w.round - 1 :
            (v.block # Nil /\ v.block # w.block)
                => ~Choosable(w.height, r, v.block)

SafetyInv ==
    /\ \A n \in Correct : Accounted(n, Cast, cs[n])
    /\ \A m \in net : m.type # "proposal" => m \in Cast
    /\ NoRival
=============================================================================

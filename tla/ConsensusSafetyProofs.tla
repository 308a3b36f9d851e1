----------------------- MODULE ConsensusSafetyProofs -----------------------
(***************************************************************************)
(* The safety of Consensus for every validator set, quorum system, height, *)
(* round and behaviour of the faulty validators: agreement, the lock       *)
(* rules, no panic but at a nil vote set, store and chain state in step,   *)
(* and the refinement of ReplicatedChain.                                  *)
(*                                                                         *)
(* They rest on SafetyInv of ConsensusSafety and Inv of ConsensusProofs.   *)
(* As there, each operator of ConsensusState has a lemma, that a safe node *)
(* stays safe, for any set K of votes that is Sound; most operators touch  *)
(* few fields, and SameCore, SameLocks and SameWords name those they leave *)
(* alone.  A cascade chains these lemmas.  Then K is Cast: the votes cast  *)
(* before a step are enough to judge all the states of its cascade, and    *)
(* more votes spoil nothing (AccountedGrows).  NoRivalStep is the argument *)
(* of the protocol, TipsAgree what it gives: one decided chain of a        *)
(* length.                                                                 *)
(***************************************************************************)
EXTENDS ConsensusProofs, ConsensusSafety, SequenceTheorems

(* What a set K of votes owes a node that acts on it: it decides nothing    *)
(* that was not prevoted, what it prevotes follows what it has decided, and *)
(* a vote for height 0 is a faulty one.                                     *)
Sound(K) ==
    /\ K \subseteq Votes
    /\ \A chain, b \in Blocks : \A r \in Nat :
           (Tip(K, chain) /\ b # Nil /\ PolkaIn(K, Len(chain) + 1, r, b))
               => Follows(chain, b)
    /\ \A h, r \in Nat : \A b \in Blocks :
           (b # Nil /\ CommitIn(K, h, r, b)) => PolkaIn(K, h, r, b)
    /\ \A v \in K : v.height = 0 => v \in FaultyMsgs

-----------------------------------------------------------------------------
(* More voters still are a quorum.                                          *)
LEMMA QuorumGrows ==
    ASSUME NEW U \in SUBSET Validators, NEW W \in SUBSET Validators,
           U \subseteq W, U \in Quorums
    PROVE  W \in Quorums
  BY QuorumAssumption

(* A quorum has a correct validator, and any two have one in common.        *)
LEMMA QuorumsMeet ==
    ASSUME NEW Q1 \in Quorums, NEW Q2 \in Quorums
    PROVE  \E m \in Correct : m \in Q1 /\ m \in Q2
  BY QuorumAssumption

(* A majority stays one when votes are added.                               *)
LEMMA MajorityGrows ==
    ASSUME NEW U \in SUBSET Votes, NEW W \in SUBSET Votes, U \subseteq W
    PROVE  TwoThirdsMajority(U) \subseteq TwoThirdsMajority(W)
<1> SUFFICES ASSUME NEW b \in TwoThirdsMajority(U)
             PROVE  b \in TwoThirdsMajority(W)
  OBVIOUS
<1> DEFINE A == Signers({v \in U : v.block = b})
           B == Signers({v \in W : v.block = b})
<1>1. A \in SUBSET Validators /\ B \in SUBSET Validators /\ A \subseteq B
  BY DEF Signers, Votes
<1>2. A \in Quorums
  BY DEF TwoThirdsMajority
<1>3. B \in Quorums
  BY <1>1, <1>2, QuorumGrows
<1>4. b \in {v.block : v \in W}
  BY DEF TwoThirdsMajority
<1>. QED
  BY <1>3, <1>4 DEF TwoThirdsMajority

(* A polka the node has collected stays one when it takes another vote.     *)
LEMMA PolkaGrows ==
    ASSUME NEW U \in SUBSET Votes, NEW W \in SUBSET Votes, U \subseteq W, NEW r
    PROVE  Polka(U, r) \subseteq Polka(W, r)
<1> DEFINE A == {v \in U : v.type = "prevote" /\ v.round = r}
           B == {v \in W : v.type = "prevote" /\ v.round = r}
<1>1. A \in SUBSET Votes /\ B \in SUBSET Votes /\ A \subseteq B
  OBVIOUS
<1> HIDE DEF A, B
<1>2. TwoThirdsMajority(A) \subseteq TwoThirdsMajority(B)
  BY <1>1, MajorityGrows
<1>. QED
  BY <1>2 DEF Polka, A, B

(* The majority of a set of votes is a majority of those who voted.         *)
LEMMA MajorityIsTwoThirdsAny ==
    ASSUME NEW U \in SUBSET Votes, TwoThirdsMajority(U) # {}
    PROVE  HasTwoThirdsAny(U)
<1>1. PICK b : b \in TwoThirdsMajority(U)
  OBVIOUS
<1> DEFINE A == Signers({v \in U : v.block = b})
           B == Signers(U)
<1>2. A \in SUBSET Validators /\ B \in SUBSET Validators /\ A \subseteq B
  BY DEF Signers, Votes
<1>3. A \in Quorums
  BY <1>1 DEF TwoThirdsMajority
<1>4. B \in Quorums
  BY <1>2, <1>3, QuorumGrows
<1>. QED
  BY <1>4 DEF HasTwoThirdsAny

(* The backers of a block are validators, and more votes have more backers. *)
LEMMA BackersGrow ==
    ASSUME NEW K \in SUBSET Votes, NEW L \in SUBSET Votes, K \subseteq L,
           NEW type, NEW h, NEW r, NEW b,
           Backers(K, type, h, r, b) \in Quorums
    PROVE  Backers(L, type, h, r, b) \in Quorums
<1> DEFINE A == Backers(K, type, h, r, b)
           B == Backers(L, type, h, r, b)
<1>1. A \in SUBSET Validators /\ B \in SUBSET Validators /\ A \subseteq B
  BY DEF Backers, Votes
<1>. QED
  BY <1>1, QuorumGrows

(* What some votes have decided, more votes have decided.                   *)
LEMMA TipGrows ==
    ASSUME NEW K \in SUBSET Votes, NEW L \in SUBSET Votes, K \subseteq L,
           NEW chain, Tip(K, chain)
    PROVE  Tip(L, chain)
  BY BackersGrow DEF Tip, CommitIn

(* A polka a node has collected is one among the votes cast.                *)
LEMMA PolkaIsCast ==
    ASSUME NEW K \in SUBSET Votes, NEW votes \in SUBSET Votes, NEW h, NEW r,
           VotesOK(K, votes, h), NEW b \in Polka(votes, r)
    PROVE  PolkaIn(K, h, r, b)
<1> DEFINE U == {v \in votes : v.type = "prevote" /\ v.round = r}
           A == Signers({v \in U : v.block = b})
           B == Backers(K, "prevote", h, r, b)
<1>1. A \in SUBSET Validators /\ B \in SUBSET Validators
  BY DEF Signers, Backers, Votes
<1>2. A \subseteq B
  BY DEF Signers, Backers, VotesOK
<1>3. A \in Quorums
  BY DEF Polka, TwoThirdsMajority
<1>4. B \in Quorums
  BY <1>1, <1>2, <1>3, QuorumGrows
<1>. QED
  BY <1>4 DEF PolkaIn

(* So is a majority of precommits.                                          *)
LEMMA CommitIsCast ==
    ASSUME NEW K \in SUBSET Votes, NEW s \in ConsensusStates, NEW r,
           VotesOK(K, s.votes, s.height),
           NEW b \in TwoThirdsMajority(Precommits(s, r))
    PROVE  CommitIn(K, s.height, r, b)
<1> DEFINE U == Precommits(s, r)
           A == Signers({v \in U : v.block = b})
           B == Backers(K, "precommit", s.height, r, b)
<1>0. s.votes \subseteq Votes
  BY FieldTypes
<1>1. A \in SUBSET Validators /\ B \in SUBSET Validators
  BY <1>0 DEF Signers, Backers, Votes, Precommits
<1>2. A \subseteq B
  BY DEF Signers, Backers, VotesOK, Precommits
<1>3. A \in Quorums
  BY DEF TwoThirdsMajority
<1>4. B \in Quorums
  BY <1>1, <1>2, <1>3, QuorumGrows
<1>. QED
  BY <1>4 DEF CommitIn

(* A block with a verified commit is a tip of any votes that include it.    *)
LEMMA VerifiedIsTip ==
    ASSUME NEW K \in SUBSET Votes, NEW fb, fb.commit \subseteq K, VerifyCommit(fb)
    PROVE  Tip(K, fb.block)
<1> DEFINE A == Signers({v \in fb.commit : v.block = fb.block})
<1>1. A \in Quorums
  BY DEF VerifyCommit, TwoThirdsMajority
<1>2. PICK u \in fb.commit : u.block = fb.block
  BY DEF VerifyCommit, TwoThirdsMajority
<1> DEFINE B == Backers(K, "precommit", Len(fb.block), u.round, fb.block)
<1>3. A \in SUBSET Validators /\ B \in SUBSET Validators
  BY DEF Signers, Backers, Votes
<1>4. A \subseteq B
  <2>1. \A v \in fb.commit : /\ v \in K /\ v.type = "precommit"
                             /\ v.round = u.round /\ v.height = Len(fb.block)
    BY DEF VerifyCommit
  <2>. QED
    BY <2>1 DEF Signers, Backers
<1>5. B \in Quorums
  BY <1>1, <1>3, <1>4, QuorumGrows
<1>. QED
  BY <1>2, <1>5 DEF Tip, CommitIn

(* Prevotes of HeightVoteSet and Polka are two ways to say the same.        *)
LEMMA PolkaOfState ==
    ASSUME NEW s, NEW r
    PROVE  TwoThirdsMajority(Prevotes(s, r)) = Polka(s.votes, r)
  BY DEF Prevotes, Polka

-----------------------------------------------------------------------------
(* What the operators before a commit leave alone.                          *)
SameCore(s, t) ==
    /\ t.height = s.height /\ t.votes = s.votes /\ t.halted = s.halted
    /\ t.lastBlock = s.lastBlock /\ t.blockStore = s.blockStore
    /\ t.lastCommit = s.lastCommit

(* Neither a lock nor the valid block changes.                              *)
SameLocks(s, t) ==
    /\ t.lockedRound = s.lockedRound /\ t.lockedBlock = s.lockedBlock
    /\ t.validRound = s.validRound /\ t.validBlock = s.validBlock

(* Nothing is signed, and nothing taken from the own queue.                 *)
SameWords(s, t) ==
    t.signed = s.signed /\ t.internalMsgQueue = s.internalMsgQueue

(* The precommits stay held in later rounds and when votes are added.       *)
LEMMA HeldLater ==
    ASSUME NEW signed \in SUBSET Messages,
           NEW U \in SUBSET Votes, NEW W \in SUBSET Votes, U \subseteq W, NEW h, NEW r1 \in Nat, NEW r2 \in Nat, r1 <= r2,
           NEW k, NEW b, Held(signed, U, h, r1, k, b)
    PROVE  Held(signed, W, h, r2, k, b)
<1> SUFFICES ASSUME NEW v \in signed,
                    v.type = "precommit" /\ v.block # Nil /\ v.height = h
             PROVE  /\ v.block \in Polka(W, v.round)
                    /\ \/ b = v.block /\ k >= v.round
                       \/ \E r \in v.round + 1 .. r2 : Polka(W, r) \ {v.block} # {}
  BY DEF Held
<1>1. /\ v.block \in Polka(U, v.round)
      /\ \/ b = v.block /\ k >= v.round
         \/ \E r \in v.round + 1 .. r1 : Polka(U, r) \ {v.block} # {}
  BY DEF Held
<1>2. \A r : Polka(U, r) \subseteq Polka(W, r)
  BY PolkaGrows
<1>3. v.round \in Nat
  BY MessageTypes
<1>4. ASSUME NEW r \in v.round + 1 .. r1, Polka(U, r) \ {v.block} # {}
      PROVE  \E i \in v.round + 1 .. r2 : Polka(W, i) \ {v.block} # {}
  <2>1. r \in v.round + 1 .. r2
    BY <1>3
  <2>2. Polka(W, r) \ {v.block} # {}
    BY <1>2, <1>4
  <2>. QED
    BY <2>1, <2>2
<1>. QED
  BY <1>1, <1>2, <1>4

(* Only height, votes, locks, signatures, chain and commits matter.         *)
LEMMA FrameSafe ==
    ASSUME NEW n, NEW K, NEW s \in ConsensusStates, NEW t \in ConsensusStates,
           Safe(n, K, s), SameCore(s, t), SameLocks(s, t), SameWords(s, t),
           s.round <= t.round, TimersOK(t.ticks)
    PROVE  Safe(n, K, t)
<1>1. /\ s.round \in Nat /\ t.round \in Nat /\ s.votes \in SUBSET Votes
      /\ s.signed \in SUBSET Messages
  BY FieldTypes
<1>2. Held(s.signed, s.votes, s.height, t.round, s.lockedRound, s.lockedBlock)
  BY <1>1, HeldLater DEF Safe, Grounded
<1>. QED
  BY <1>2 DEF Safe, Grounded, SameCore, SameLocks, SameWords

(* scheduleTimeout with one of the four steps the code uses.                *)
LEMMA ScheduleTimeoutFrame ==
    ASSUME NEW s \in ConsensusStates, NEW h \in Nat, NEW r \in Nat,
           NEW step \in {RoundStepNewHeight, RoundStepPropose,
                         RoundStepPrevoteWait, RoundStepPrecommitWait},
           TimersOK(s.ticks)
    PROVE  LET t == ScheduleTimeout(s, h, r, step)
           IN  /\ t \in ConsensusStates
               /\ SameCore(s, t) /\ SameLocks(s, t) /\ SameWords(s, t)
               /\ TimersOK(t.ticks)
               /\ t.round = s.round /\ t.step = s.step
               /\ t.proposal = s.proposal /\ t.proposalBlock = s.proposalBlock
               /\ t.commitRound = s.commitRound
<1> DEFINE ti == [height |-> h, round |-> r, step |-> step]
           T == s.ticks \cup {ti}
<1>0. step \in RoundStepType
  BY DEF RoundStepType, RoundStepNewHeight, RoundStepPropose,
         RoundStepPrevoteWait, RoundStepPrecommitWait
<1>1. T \in SUBSET Ticks
  BY <1>0, FieldTypes DEF Ticks
<1>2. ScheduleTimeout(s, h, r, step) \in {s, [s EXCEPT !.ticks = T]}
  BY DEF ScheduleTimeout
<1>3. TimersOK(T)
  <2>1. ti.step \in {RoundStepNewHeight, RoundStepPropose,
                     RoundStepPrevoteWait, RoundStepPrecommitWait}
    OBVIOUS
  <2> HIDE DEF ti
  <2>. QED
    BY <2>1 DEF TimersOK
<1> HIDE DEF T
<1>4. [s EXCEPT !.ticks = T] \in ConsensusStates
  BY <1>1, TicksUpdate
<1>5. LET t == [s EXCEPT !.ticks = T]
      IN  /\ SameCore(s, t) /\ SameLocks(s, t) /\ SameWords(s, t)
          /\ t.ticks = T
          /\ t.round = s.round /\ t.step = s.step
          /\ t.proposal = s.proposal /\ t.proposalBlock = s.proposalBlock
          /\ t.commitRound = s.commitRound
  BY DEF ConsensusStates, SameCore, SameLocks, SameWords
<1>6. SameCore(s, s) /\ SameLocks(s, s) /\ SameWords(s, s)
  BY DEF SameCore, SameLocks, SameWords
<1>. QED
  BY <1>2, <1>3, <1>4, <1>5, <1>6

(* sendInternalMessage adds m to what is signed and to the own queue.       *)
LEMMA SendInternalMessageFrame ==
    ASSUME NEW s \in ConsensusStates, NEW m \in Messages
    PROVE  LET t == SendInternalMessage(s, m)
           IN  /\ t \in ConsensusStates
               /\ SameCore(s, t) /\ SameLocks(s, t)
               /\ t.ticks = s.ticks /\ t.round = s.round /\ t.step = s.step
               /\ t.signed = s.signed \cup {m}
               /\ t.internalMsgQueue = Append(s.internalMsgQueue, m)
<1>1. SendInternalMessage(s, m) \in ConsensusStates
  BY SendInternalMessageStep
<1>. QED
  BY <1>1 DEF SendInternalMessage, ConsensusStates, SameCore, SameLocks

(* signAddVote signs a vote for the height and round the node is in.        *)
LEMMA SignAddVoteFrame ==
    ASSUME NEW s \in ConsensusStates, NEW n,
           NEW type \in {"prevote", "precommit"}, NEW b \in Blocks
    PROVE  LET t == SignAddVote(n, s, type, b)
               v == [type |-> type, height |-> s.height, round |-> s.round,
                     block |-> b, val |-> n]
           IN  /\ t \in ConsensusStates
               /\ SameCore(s, t) /\ SameLocks(s, t)
               /\ t.ticks = s.ticks /\ t.round = s.round /\ t.step = s.step
               /\ \/ SameWords(s, t)
                  \/ /\ v \in Messages
                     /\ t.signed = s.signed \cup {v}
                     /\ t.internalMsgQueue = Append(s.internalMsgQueue, v)
<1> DEFINE v == [type |-> type, height |-> s.height, round |-> s.round,
                 block |-> b, val |-> n]
<1>1. CASE n \notin Validators
  BY <1>1 DEF SignAddVote, SameCore, SameLocks, SameWords
<1>2. CASE n \in Validators
  <2>1. v \in Messages
    BY <1>2, FieldTypes DEF Messages, Votes
  <2>2. SignAddVote(n, s, type, b) = SendInternalMessage(s, v)
    BY <1>2 DEF SignAddVote
  <2>. HIDE DEF v
  <2>3. QED
    BY <2>1, <2>2, SendInternalMessageFrame DEF v
<1>. QED
  BY <1>1, <1>2

(* Signing m is safe when m keeps the rules for its kind.                   *)
LEMMA SignSafe ==
    ASSUME NEW n, NEW K \in SUBSET Votes, NEW s \in ConsensusStates, Safe(n, K, s),
           NEW t \in ConsensusStates, SameCore(s, t), SameLocks(s, t),
           t.ticks = s.ticks, t.round = s.round, NEW m \in Messages,
           t.signed = s.signed \cup {m},
           t.internalMsgQueue = Append(s.internalMsgQueue, m),
           SignedOK(n, K, {m}), Kept(K, s.signed \cup {m}),
           Held({m}, s.votes, s.height, s.round, s.lockedRound, s.lockedBlock)
    PROVE  Safe(n, K, t)
<1>1. SignedOK(n, K, t.signed)
  BY DEF SignedOK, Safe, Grounded
<1>2. Held(t.signed, t.votes, t.height, t.round, t.lockedRound, t.lockedBlock)
  BY DEF Held, Safe, Grounded, SameCore, SameLocks
<1>3. QueueOK(t.internalMsgQueue, t.signed)
  <2>1. s.internalMsgQueue \in Seq(Messages)
    BY FieldTypes
  <2>2. QueueOK(s.internalMsgQueue, s.signed)
    BY DEF Safe, Grounded
  <2>. QED
    BY <2>1, <2>2 DEF QueueOK
<1>. QED
  BY <1>1, <1>2, <1>3 DEF Safe, Grounded, SameCore, SameLocks

(* A proposal binds its signer to nothing.                                  *)
LEMMA SignProposalSafe ==
    ASSUME NEW n, NEW K \in SUBSET Votes, NEW s \in ConsensusStates, Safe(n, K, s),
           NEW m \in Messages, m.type = "proposal", m.val = n
    PROVE  Safe(n, K, SendInternalMessage(s, m))
<1>1. SignedOK(n, K, {m})
  BY DEF SignedOK
<1>2. Kept(K, s.signed \cup {m})
  BY DEF Kept, Safe, Grounded
<1>3. Held({m}, s.votes, s.height, s.round, s.lockedRound, s.lockedBlock)
  BY DEF Held
<1> DEFINE t == SendInternalMessage(s, m)
<1>4. /\ t \in ConsensusStates
      /\ SameCore(s, t) /\ SameLocks(s, t)
      /\ t.ticks = s.ticks /\ t.round = s.round
      /\ t.signed = s.signed \cup {m}
      /\ t.internalMsgQueue = Append(s.internalMsgQueue, m)
  BY SendInternalMessageFrame
<1> HIDE DEF t
<1>5. Safe(n, K, t)
  BY <1>1, <1>2, <1>3, <1>4, SignSafe
<1>. QED
  BY <1>5 DEF t

(* The node's last block is decided by the votes its store holds.           *)
LEMMA LastBlockIsTip ==
    ASSUME NEW n, NEW K \in SUBSET Votes, NEW s \in ConsensusStates, Safe(n, K, s)
    PROVE  Tip(K, s.lastBlock)
<1> DEFINE k == Len(s.lastBlock)
<1>1. s.lastBlock \in Blocks
  BY FieldTypes
<1>2. CASE s.lastBlock = Nil
  BY <1>2 DEF Tip
<1>3. CASE s.lastBlock # Nil
  <2>1. k \in Nat /\ k > 0
    BY <1>1, <1>3 DEF Blocks, Nil
  <2>2. k \in 1..k
    BY <2>1
  <2>3. /\ s.blockStore[k].block = SubSeq(s.lastBlock, 1, k)
        /\ s.blockStore[k].commit \subseteq K
        /\ VerifyCommit(s.blockStore[k])
    BY <2>2 DEF Safe, Grounded, StoreOK
  <2>4. SubSeq(s.lastBlock, 1, k) = s.lastBlock
    BY <1>1, SubSeqFull DEF Blocks
  <2>5. Tip(K, s.blockStore[k].block)
    BY <2>3, VerifiedIsTip
  <2>. QED
    BY <2>3, <2>4, <2>5
<1>. QED
  BY <1>2, <1>3

(* A decided chain has votes.                                               *)
LEMMA TipHasVote ==
    ASSUME NEW K \in SUBSET Votes, NEW chain, Tip(K, chain)
    PROVE  chain \in {Nil} \cup {v.block : v \in K}
<1> SUFFICES ASSUME chain # Nil
             PROVE  \E v \in K : v.block = chain
  OBVIOUS
<1>1. PICK u \in K : CommitIn(K, Len(chain), u.round, chain)
  BY DEF Tip
<1>2. Backers(K, "precommit", Len(chain), u.round, chain) # {}
  BY <1>1, QuorumsMeet DEF CommitIn
<1>. QED
  BY <1>2 DEF Backers

(* A block with a polka at the node's height is a child of its last block.  *)
LEMMA PolkaFollows ==
    ASSUME NEW n, NEW K, Sound(K), NEW s, NodeOK(s), Safe(n, K, s), NEW r \in Nat,
           NEW b \in Polka(s.votes, r), b # Nil
    PROVE  Follows(s.lastBlock, b)
<1>1. s \in ConsensusStates /\ K \in SUBSET Votes /\ s.height = Len(s.lastBlock) + 1
  BY DEF NodeOK, Sound
<1>2. s.votes \in SUBSET Votes /\ s.lastBlock \in Blocks
  BY <1>1, FieldTypes
<1>3. b \in Blocks
  BY <1>2 DEF Polka, TwoThirdsMajority, Votes
<1>4. PolkaIn(K, Len(s.lastBlock) + 1, r, b)
  BY <1>1, <1>2, PolkaIsCast DEF Safe, Grounded
<1>5. Tip(K, s.lastBlock)
  BY <1>1, LastBlockIsTip
<1>. QED
  BY <1>2, <1>3, <1>4, <1>5 DEF Sound

(* A lock is for a round a node can be in.                                  *)
LEMMA LockFollows ==
    ASSUME NEW n, NEW K, Sound(K), NEW s, NodeOK(s), Safe(n, K, s),
           s.lockedBlock # Nil
    PROVE  Follows(s.lastBlock, s.lockedBlock)
<1>1. s.lockedBlock \in Polka(s.votes, s.lockedRound)
  BY DEF Safe, Grounded, Backed
<1>2. s.votes \in SUBSET Votes /\ s \in ConsensusStates
  BY FieldTypes DEF NodeOK
<1>3. s.lockedRound \in Nat
  BY <1>1, <1>2 DEF Polka, TwoThirdsMajority, Votes
<1>. QED
  BY <1>1, <1>3, PolkaFollows

(* Some vote of a polka has its round and its block.                        *)
LEMMA PolkaHasVote ==
    ASSUME NEW K \in SUBSET Votes, NEW h, NEW r, NEW b, PolkaIn(K, h, r, b)
    PROVE  \E u \in K : u.type = "prevote" /\ u.height = h /\ u.round = r /\ u.block = b
<1>1. Backers(K, "prevote", h, r, b) # {}
  BY QuorumsMeet DEF PolkaIn
<1>. QED
  BY <1>1 DEF Backers

(* Consensus is about heights after those of the chain.                     *)
LEMMA HeightPositive ==
    ASSUME NEW s, NodeOK(s)
    PROVE  s.height > 0
<1>1. s.lastBlock \in Blocks /\ s.height = Len(s.lastBlock) + 1
  BY FieldTypes DEF NodeOK
<1>. QED
  BY <1>1 DEF Blocks

(* A prevote for the locked block, or without a lock for a child of the     *)
(* last block or nil, keeps every earlier precommit of the height: if the   *)
(* lock is gone, a later polka has taken it.                                *)
LEMMA SignPrevoteSafe ==
    ASSUME NEW n, NEW K \in SUBSET Votes, NEW s, NodeOK(s), Safe(n, K, s),
           NEW b \in Blocks, b # Nil => Follows(s.lastBlock, b),
           s.lockedBlock # Nil => b = s.lockedBlock
    PROVE  LET t == SignAddVote(n, s, "prevote", b)
           IN  /\ Safe(n, K, t) /\ t \in ConsensusStates
               /\ SameCore(s, t) /\ t.round = s.round
<1> DEFINE m == [type |-> "prevote", height |-> s.height, round |-> s.round,
                 block |-> b, val |-> n]
           t == SignAddVote(n, s, "prevote", b)
<1>s. s \in ConsensusStates
  BY DEF NodeOK
<1>0. /\ s.round \in Nat /\ s.height \in Nat /\ s.votes \in SUBSET Votes
      /\ s.signed \in SUBSET Messages /\ s.lastBlock \in Blocks
  BY <1>s, FieldTypes
<1>1. /\ m.type = "prevote" /\ m.height = s.height /\ m.round = s.round
      /\ m.block = b /\ m.val = n
  OBVIOUS
<1>2. /\ t \in ConsensusStates
      /\ SameCore(s, t) /\ SameLocks(s, t)
      /\ t.ticks = s.ticks /\ t.round = s.round
      /\ \/ SameWords(s, t)
         \/ /\ m \in Messages
            /\ t.signed = s.signed \cup {m}
            /\ t.internalMsgQueue = Append(s.internalMsgQueue, m)
  BY <1>s, SignAddVoteFrame
<1> HIDE DEF m, t
<1>3. SignedOK(n, K, {m})
  <2>0. m.height > 0
    BY <1>s, <1>1, HeightPositive
  <2>1. Tip(K, s.lastBlock)
    BY <1>s, LastBlockIsTip
  <2>2. s.lastBlock \in {Nil} \cup {v.block : v \in K}
    BY <2>1, TipHasVote
  <2>3. b # Nil => OnTip(K, m)
    BY <1>1, <2>1, <2>2 DEF OnTip, NodeOK
  <2>. QED
    BY <1>1, <2>0, <2>3 DEF SignedOK
<1>4. Held({m}, s.votes, s.height, s.round, s.lockedRound, s.lockedBlock)
  BY <1>1 DEF Held
<1>5. Kept(K, s.signed \cup {m})
  <2> SUFFICES ASSUME NEW v \in s.signed, v.type = "precommit", v.block # Nil,
                      m.height = v.height, m.round > v.round, m.block # v.block
               PROVE  \E u \in K : /\ u.round > v.round /\ u.block # v.block
                                   /\ PolkaIn(K, v.height, u.round, u.block)
    BY <1>1 DEF Kept, Safe, Grounded
  <2>1. \/ s.lockedBlock = v.block
        \/ \E r \in v.round + 1 .. s.round : Polka(s.votes, r) \ {v.block} # {}
    BY <1>1 DEF Safe, Grounded, Held
  <2>2. s.lockedBlock # v.block
    BY <1>1
  <2>3. PICK r \in v.round + 1 .. s.round : Polka(s.votes, r) \ {v.block} # {}
    BY <2>1, <2>2
  <2>4. PICK c \in Polka(s.votes, r) : c # v.block
    BY <2>3
  <2>5. PolkaIn(K, v.height, r, c)
    BY <1>0, <1>1, PolkaIsCast DEF Safe, Grounded
  <2>6. PICK u \in K : u.round = r /\ u.block = c
    BY <2>5, PolkaHasVote
  <2>7. r > v.round
    BY <1>0, <2>3, MessageTypes
  <2>. QED
    BY <2>4, <2>5, <2>6, <2>7
<1>6. CASE SameWords(s, t)
  <2>1. TimersOK(t.ticks) /\ s.round <= t.round
    BY <1>0, <1>2 DEF Safe, Grounded
  <2>2. Safe(n, K, t)
    BY <1>s, <1>2, <1>6, <2>1, FrameSafe
  <2>. QED
    BY <1>2, <2>2 DEF t
<1>7. CASE /\ m \in Messages /\ t.signed = s.signed \cup {m}
           /\ t.internalMsgQueue = Append(s.internalMsgQueue, m)
  <2>1. Safe(n, K, t)
    BY <1>s, <1>2, <1>3, <1>4, <1>5, <1>7, SignSafe
  <2>. QED
    BY <1>2, <2>1 DEF t
<1>. QED
  BY <1>2, <1>6, <1>7

(* A precommit for the block just locked, or for nil, is the first of its   *)
(* round and comes before every prevote of a later one.                     *)
LEMMA SignPrecommitSafe ==
    ASSUME NEW n, NEW K \in SUBSET Votes, NEW s, NodeOK(s), Safe(n, K, s),
           NEW b \in Blocks,
           b # Nil => s.lockedBlock = b /\ s.lockedRound = s.round
    PROVE  LET t == SignAddVote(n, s, "precommit", b)
           IN  /\ Safe(n, K, t) /\ t \in ConsensusStates
               /\ SameCore(s, t) /\ t.round = s.round
<1> DEFINE m == [type |-> "precommit", height |-> s.height, round |-> s.round,
                 block |-> b, val |-> n]
           t == SignAddVote(n, s, "precommit", b)
<1>s. s \in ConsensusStates
  BY DEF NodeOK
<1>0. /\ s.round \in Nat /\ s.height \in Nat /\ s.votes \in SUBSET Votes
      /\ s.signed \in SUBSET Messages
  BY <1>s, FieldTypes
<1>1. /\ m.type = "precommit" /\ m.height = s.height /\ m.round = s.round
      /\ m.block = b /\ m.val = n
  OBVIOUS
<1> HIDE DEF m
<1>2. /\ t \in ConsensusStates
      /\ SameCore(s, t) /\ SameLocks(s, t)
      /\ t.ticks = s.ticks /\ t.round = s.round
      /\ \/ SameWords(s, t)
         \/ /\ m \in Messages
            /\ t.signed = s.signed \cup {m}
            /\ t.internalMsgQueue = Append(s.internalMsgQueue, m)
  <2>1. "precommit" \in {"prevote", "precommit"}
    OBVIOUS
  <2>2. LET v == [type |-> "precommit", height |-> s.height, round |-> s.round,
                  block |-> b, val |-> n]
        IN  /\ t \in ConsensusStates
            /\ SameCore(s, t) /\ SameLocks(s, t)
            /\ t.ticks = s.ticks /\ t.round = s.round /\ t.step = s.step
            /\ \/ SameWords(s, t)
               \/ /\ v \in Messages
                  /\ t.signed = s.signed \cup {v}
                  /\ t.internalMsgQueue = Append(s.internalMsgQueue, v)
    BY <1>s, <2>1, SignAddVoteFrame, ZenonT(60)
  <2>. QED
    BY <2>2, Zenon DEF m
<1> HIDE DEF t
<1>3. b # Nil => b \in Polka(s.votes, s.round)
  BY DEF Safe, Grounded, Backed
<1>4. SignedOK(n, K, {m})
  <2>1. b # Nil => PolkaIn(K, s.height, s.round, b)
    BY <1>0, <1>3, PolkaIsCast DEF Safe, Grounded
  <2>2. m.height > 0
    BY <1>s, <1>1, HeightPositive
  <2>. QED
    BY <1>1, <2>1, <2>2 DEF SignedOK
<1>5. Held({m}, s.votes, s.height, s.round, s.lockedRound, s.lockedBlock)
  BY <1>0, <1>1, <1>3 DEF Held
<1>6. Kept(K, s.signed \cup {m})
  <2>1. ASSUME NEW w \in s.signed, w.height = s.height
        PROVE  ~(w.round > s.round)
    <3>1. SignedAt(w, s) /\ w \in Messages
      BY <1>0 DEF NodeOK
    <3>. QED
      BY <1>0, <2>1, <3>1, MessageTypes DEF SignedAt
  <2>. QED
    BY <1>1, <2>1 DEF Kept, Safe, Grounded
<1>7. CASE SameWords(s, t)
  <2>1. TimersOK(t.ticks) /\ s.round <= t.round
    BY <1>0, <1>2 DEF Safe, Grounded
  <2>2. Safe(n, K, t)
    BY <1>s, <1>2, <1>7, <2>1, FrameSafe
  <2>. QED
    BY <1>2, <2>2 DEF t
<1>8. CASE /\ m \in Messages /\ t.signed = s.signed \cup {m}
           /\ t.internalMsgQueue = Append(s.internalMsgQueue, m)
  <2>1. Safe(n, K, t)
    BY <1>s, <1>2, <1>4, <1>5, <1>6, <1>8, SignSafe
  <2>. QED
    BY <1>2, <2>1 DEF t
<1>. QED
  BY <1>2, <1>7, <1>8

(* Moving to a round and a step changes nothing else.                       *)
LEMMA MoveFrame ==
    ASSUME NEW u \in ConsensusStates, NEW r \in Nat, NEW x \in RoundStepType
    PROVE  LET t == [u EXCEPT !.round = r, !.step = x]
           IN  /\ t \in ConsensusStates
               /\ SameCore(u, t) /\ SameLocks(u, t) /\ SameWords(u, t)
               /\ t.ticks = u.ticks /\ t.round = r /\ t.step = x
               /\ t.proposal = u.proposal /\ t.proposalBlock = u.proposalBlock
               /\ t.commitRound = u.commitRound
<1> DEFINE s1 == [u EXCEPT !.round = r]
           t == [s1 EXCEPT !.step = x]
<1>1. [u EXCEPT !.round = r, !.step = x] = t
  OBVIOUS
<1>2. s1 \in ConsensusStates
  BY RoundUpdate
<1>3. t \in ConsensusStates
  BY <1>2, StepUpdate
<1>. QED
  BY <1>1, <1>3 DEF ConsensusStates, SameCore, SameLocks, SameWords

(* What two parts of a cascade leave alone, both leave alone.               *)
LEMMA SameCoreChain ==
    ASSUME NEW s, NEW t, NEW u, SameCore(s, t), SameCore(t, u)
    PROVE  SameCore(s, u)
  BY DEF SameCore

(* Doing nothing changes none of what they name.                            *)
LEMMA SameReflexive ==
    ASSUME NEW s
    PROVE  SameCore(s, s) /\ SameLocks(s, s) /\ SameWords(s, s)
  BY DEF SameCore, SameLocks, SameWords

(* enterPrevote votes for the lock, for a child of the last block or for    *)
(* nil.                                                                     *)
LEMMA EnterPrevoteSafe ==
    ASSUME NEW n, NEW K, Sound(K), NEW s, NodeOK(s), Safe(n, K, s),
           NEW h \in Nat, NEW r \in Nat, Reached(s, h, r)
    PROVE  LET t == EnterPrevote(n, s, h, r)
           IN  Safe(n, K, t) /\ SameCore(s, t)
<1> DEFINE t == EnterPrevote(n, s, h, r)
           b == PrevoteValue(s)
           u == SignAddVote(n, s, "prevote", b)
<1>s. s \in ConsensusStates /\ K \in SUBSET Votes
  BY DEF NodeOK, Sound
<1>0. s.round \in Nat /\ s.height \in Nat /\ s.step \in RoundStepType
  BY <1>s, FieldTypes
<1>1. CASE Stale(s, h, r, RoundStepPrevote)
  BY <1>1, SameReflexive DEF EnterPrevote
<1>2. CASE ~Stale(s, h, r, RoundStepPrevote)
  <2>1. s.round = r
    BY <1>0, <1>2 DEF Stale, Reached, RoundStepPrevote, RoundStepType
  <2>2. t = [u EXCEPT !.round = r, !.step = RoundStepPrevote]
    BY <1>2 DEF EnterPrevote
  <2>3. b \in Blocks
    BY <1>s, PrevoteValueType
  <2>4. b # Nil => Follows(s.lastBlock, b)
    <3>1. CASE s.lockedBlock # Nil
      BY <3>1, LockFollows DEF PrevoteValue
    <3>2. CASE s.lockedBlock = Nil
      BY <3>2 DEF PrevoteValue, ValidateBlock, Follows
    <3>. QED
      BY <3>1, <3>2
  <2>5. s.lockedBlock # Nil => b = s.lockedBlock
    BY DEF PrevoteValue
  <2>6. RoundStepPrevote \in RoundStepType
    BY DEF RoundStepPrevote, RoundStepType
  <2> HIDE DEF b, t
  <2>7. /\ Safe(n, K, u) /\ u \in ConsensusStates
        /\ SameCore(s, u) /\ u.round = s.round
    BY <1>s, <2>3, <2>4, <2>5, SignPrevoteSafe
  <2> HIDE DEF u
  <2>8. /\ t \in ConsensusStates
        /\ SameCore(u, t) /\ SameLocks(u, t) /\ SameWords(u, t)
        /\ t.ticks = u.ticks /\ t.round = r
    BY <2>2, <2>6, <2>7, MoveFrame
  <2>9. TimersOK(t.ticks) /\ u.round <= t.round
    BY <1>0, <2>1, <2>7, <2>8 DEF Safe, Grounded
  <2>10. Safe(n, K, t)
    BY <2>7, <2>8, <2>9, FrameSafe
  <2>11. SameCore(s, t)
    BY <2>7, <2>8, SameCoreChain
  <2>. QED
    BY <2>10, <2>11 DEF t
<1>. QED
  BY <1>1, <1>2

(* enterPrevoteWait does not panic with 2/3 of the prevotes at hand.        *)
LEMMA EnterPrevoteWaitSafe ==
    ASSUME NEW n, NEW K, NEW s, NodeOK(s), Safe(n, K, s),
           NEW h \in Nat, NEW r \in Nat, Reached(s, h, r),
           HasTwoThirdsAny(Prevotes(s, r))
    PROVE  LET t == EnterPrevoteWait(s, h, r)
           IN  Safe(n, K, t) /\ SameCore(s, t)
<1> DEFINE t == EnterPrevoteWait(s, h, r)
           u == ScheduleTimeout(s, h, r, RoundStepPrevoteWait)
<1>s. s \in ConsensusStates
  BY DEF NodeOK
<1>0. s.round \in Nat /\ s.height \in Nat /\ s.step \in RoundStepType
  BY <1>s, FieldTypes
<1>1. CASE Stale(s, h, r, RoundStepPrevoteWait)
  BY <1>1, SameReflexive DEF EnterPrevoteWait
<1>2. CASE ~Stale(s, h, r, RoundStepPrevoteWait)
  <2>1. s.round = r
    BY <1>0, <1>2 DEF Stale, Reached, RoundStepPrevoteWait, RoundStepType
  <2>2. t = [u EXCEPT !.round = r, !.step = RoundStepPrevoteWait]
    BY <1>2 DEF EnterPrevoteWait
  <2>3. RoundStepPrevoteWait \in RoundStepType
    BY DEF RoundStepPrevoteWait, RoundStepType
  <2>4. /\ u \in ConsensusStates
        /\ SameCore(s, u) /\ SameLocks(s, u) /\ SameWords(s, u)
        /\ TimersOK(u.ticks) /\ u.round = s.round
    BY <1>s, ScheduleTimeoutFrame DEF Safe, Grounded
  <2> HIDE DEF u, t
  <2>5. /\ t \in ConsensusStates
        /\ SameCore(u, t) /\ SameLocks(u, t) /\ SameWords(u, t)
        /\ t.ticks = u.ticks /\ t.round = r
    BY <2>2, <2>3, <2>4, MoveFrame
  <2>6. /\ SameCore(s, t) /\ SameLocks(s, t) /\ SameWords(s, t)
        /\ TimersOK(t.ticks) /\ s.round <= t.round
    BY <1>0, <2>1, <2>4, <2>5 DEF SameCore, SameLocks, SameWords
  <2>7. Safe(n, K, t)
    BY <1>s, <2>5, <2>6, FrameSafe
  <2>. QED
    BY <2>6, <2>7 DEF t
<1>. QED
  BY <1>1, <1>2

(* Locking on a polka of this round drops an older lock only for another    *)
(* block or for nil, and what was precommitted in this height so far lies   *)
(* in earlier rounds.                                                       *)
LEMMA UpdateLockSafe ==
    ASSUME NEW n, NEW K, NEW s, NodeOK(s), Safe(n, K, s), s.step < RoundStepPrecommit
    PROVE  LET polka == Polka(s.votes, s.round)
               b == PrecommitValue(s, polka)
               t == UpdateLock(s, s.round, polka)
           IN  /\ Safe(n, K, t) /\ NodeOK(t) /\ SameCore(s, t)
               /\ t.round = s.round
               /\ b # Nil => t.lockedBlock = b /\ t.lockedRound = s.round
<1> DEFINE polka == Polka(s.votes, s.round)
           b == PrecommitValue(s, polka)
           k == IF b = Nil THEN -1 ELSE s.round
           s1 == [s EXCEPT !.lockedRound = k]
           t == UpdateLock(s, s.round, polka)
<1>s. s \in ConsensusStates
  BY DEF NodeOK
<1>0. /\ s.round \in Nat /\ s.height \in Nat /\ s.step \in RoundStepType
      /\ s.votes \in SUBSET Votes /\ s.signed \in SUBSET Messages
      /\ s.lockedRound \in Rounds
  BY <1>s, FieldTypes
<1>1. b \in Blocks /\ (b # Nil => b \in polka)
  BY <1>s, PrecommitValueType DEF PrecommitValue, HashTo
<1>2. b # s.lockedBlock /\ s.lockedBlock # Nil => s.lockedBlock \notin polka
  BY DEF PrecommitValue, HashTo
<1>3. CASE polka = {}
  <2>1. t = s
    BY <1>3 DEF UpdateLock
  <2>2. b = Nil
    BY <1>1, <1>3
  <2>. QED
    BY <2>1, <2>2, SameReflexive
<1>4. CASE polka # {}
  <2>1. t = [s1 EXCEPT !.lockedBlock = b]
    BY <1>4 DEF UpdateLock
  <2>2. k \in Rounds
    BY <1>0 DEF Rounds
  <2>3. b # Nil => k = s.round
    OBVIOUS
  <2> HIDE DEF k, b, polka, t
  <2>4. s1 \in ConsensusStates
    BY <1>s, <2>2, LockedRoundUpdate
  <2>5. t \in ConsensusStates
    BY <1>1, <2>1, <2>4, LockedBlockUpdate
  <2>6. /\ SameCore(s, t) /\ SameWords(s, t)
        /\ t.lockedBlock = b /\ t.lockedRound = k
        /\ t.validRound = s.validRound /\ t.validBlock = s.validBlock
        /\ t.round = s.round /\ t.step = s.step /\ t.ticks = s.ticks
    BY <1>s, <2>1 DEF ConsensusStates, SameCore, SameWords
  <2>7. NodeOK(t)
    BY <2>5, <2>6 DEF NodeOK, SameCore, SameWords, TickReached, SignedAt
  <2>8. Held(s.signed, s.votes, s.height, s.round, k, b)
    <3> SUFFICES ASSUME NEW v \in s.signed, v.type = "precommit",
                        v.block # Nil, v.height = s.height
                 PROVE  /\ v.block \in Polka(s.votes, v.round)
                        /\ \/ b = v.block /\ k >= v.round
                           \/ \E r \in v.round + 1 .. s.round :
                                  Polka(s.votes, r) \ {v.block} # {}
      BY DEF Held
    <3>1. /\ v.block \in Polka(s.votes, v.round)
          /\ \/ s.lockedBlock = v.block
             \/ \E r \in v.round + 1 .. s.round : Polka(s.votes, r) \ {v.block} # {}
      BY DEF Safe, Grounded, Held
    <3>2. v.round \in Nat /\ v.round < s.round
      <4>1. SignedAt(v, s) /\ StepOf(v) = 6 /\ v.round \in Nat
        BY <1>0, MessageTypes DEF NodeOK, StepOf, RoundStepPrecommit
      <4>. QED
        BY <1>0, <4>1 DEF SignedAt, RoundStepPrecommit, RoundStepType
    <3>3. CASE s.lockedBlock = v.block /\ b = v.block
      BY <1>0, <2>3, <3>1, <3>2, <3>3
    <3>4. CASE s.lockedBlock = v.block /\ b # v.block
      <4>1. polka \ {v.block} # {}
        BY <1>2, <1>4, <3>4
      <4>2. s.round \in v.round + 1 .. s.round
        BY <1>0, <3>2
      <4>. QED
        BY <3>1, <4>1, <4>2 DEF polka
    <3>. QED
      BY <3>1, <3>3, <3>4
  <2>9. Backed(s.votes, k, b)
    BY <1>1, <2>3 DEF Backed, polka
  <2>10. Safe(n, K, t)
    BY <2>6, <2>8, <2>9 DEF Safe, Grounded, SameCore, SameWords
  <2>. QED
    BY <2>3, <2>6, <2>7, <2>10 DEF t, b, polka
<1>. QED
  BY <1>3, <1>4

(* enterPrecommit does not panic, and it precommits what it has locked.     *)
LEMMA EnterPrecommitSafe ==
    ASSUME NEW n, NEW K, Sound(K), NEW s, NodeOK(s), Safe(n, K, s),
           NEW h \in Nat, NEW r \in Nat, Reached(s, h, r)
    PROVE  LET t == EnterPrecommit(n, s, h, r)
           IN  Safe(n, K, t) /\ SameCore(s, t)
<1> DEFINE t == EnterPrecommit(n, s, h, r)
           polka == Polka(s.votes, r)
           b == PrecommitValue(s, polka)
           w == UpdateLock(s, r, polka)
           u == SignAddVote(n, w, "precommit", b)
<1>s. s \in ConsensusStates /\ K \in SUBSET Votes
  BY DEF NodeOK, Sound
<1>0. s.round \in Nat /\ s.height \in Nat /\ s.step \in RoundStepType
  BY <1>s, FieldTypes
<1>1. CASE Stale(s, h, r, RoundStepPrecommit)
  BY <1>1, SameReflexive DEF EnterPrecommit
<1>2. CASE ~Stale(s, h, r, RoundStepPrecommit)
  <2>1. s.round = r /\ s.step < RoundStepPrecommit
    BY <1>0, <1>2 DEF Stale, Reached, RoundStepPrecommit, RoundStepType
  <2>2. b \in Blocks
    BY <1>s, PrecommitValueType
  <2>3. b # Nil => ValidateBlock(s, b)
    <3>1. b # Nil => b \in polka
      BY DEF PrecommitValue, HashTo
    <3>2. b # Nil => Follows(s.lastBlock, b)
      BY <3>1, PolkaFollows
    <3>. QED
      BY <3>2 DEF Follows, ValidateBlock
  <2>4. t = [u EXCEPT !.round = r, !.step = RoundStepPrecommit]
    BY <1>2, <2>3, PolkaOfState DEF EnterPrecommit
  <2>5. /\ Safe(n, K, w) /\ NodeOK(w) /\ SameCore(s, w) /\ w.round = s.round
        /\ b # Nil => w.lockedBlock = b /\ w.lockedRound = s.round
    BY <2>1, UpdateLockSafe
  <2>6. RoundStepPrecommit \in RoundStepType
    BY DEF RoundStepPrecommit, RoundStepType
  <2> HIDE DEF w, b, t
  <2>7. /\ Safe(n, K, u) /\ u \in ConsensusStates
        /\ SameCore(w, u) /\ u.round = w.round
    BY <1>s, <2>2, <2>5, SignPrecommitSafe
  <2> HIDE DEF u
  <2>8. /\ t \in ConsensusStates
        /\ SameCore(u, t) /\ SameLocks(u, t) /\ SameWords(u, t)
        /\ t.ticks = u.ticks /\ t.round = r
    BY <2>4, <2>6, <2>7, MoveFrame
  <2>9. TimersOK(t.ticks) /\ u.round <= t.round
    BY <1>0, <2>1, <2>5, <2>7, <2>8 DEF Safe, Grounded
  <2>10. Safe(n, K, t)
    BY <2>7, <2>8, <2>9, FrameSafe
  <2>11. SameCore(s, t)
    BY <2>5, <2>7, <2>8, SameCoreChain
  <2>. QED
    BY <2>10, <2>11 DEF t
<1>. QED
  BY <1>1, <1>2

(* enterPrecommitWait does not panic with 2/3 of the precommits at hand.    *)
LEMMA EnterPrecommitWaitSafe ==
    ASSUME NEW n, NEW K, NEW s, NodeOK(s), Safe(n, K, s),
           NEW h \in Nat, NEW r \in Nat,
           HasTwoThirdsAny(Precommits(s, r))
    PROVE  LET t == EnterPrecommitWait(s, h, r)
           IN  Safe(n, K, t) /\ SameCore(s, t)
<1> DEFINE t == EnterPrecommitWait(s, h, r)
           u == ScheduleTimeout(s, h, r, RoundStepPrecommitWait)
<1>s. s \in ConsensusStates
  BY DEF NodeOK
<1>0. s.round \in Nat
  BY <1>s, FieldTypes
<1>1. CASE t = s
  BY <1>1, SameReflexive
<1>2. CASE t = [u EXCEPT !.triggeredTimeoutPrecommit = TRUE]
  <2>1. /\ u \in ConsensusStates
        /\ SameCore(s, u) /\ SameLocks(s, u) /\ SameWords(s, u)
        /\ TimersOK(u.ticks) /\ u.round = s.round
    BY <1>s, ScheduleTimeoutFrame DEF Safe, Grounded
  <2> HIDE DEF u, t
  <2>2. \A x \in BOOLEAN :
            [u EXCEPT !.triggeredTimeoutPrecommit = x] \in ConsensusStates
    BY <2>1, TriggeredUpdate
  <2>3. t \in ConsensusStates
    BY <1>2, <2>2
  <2>4. /\ SameCore(u, t) /\ SameLocks(u, t) /\ SameWords(u, t)
        /\ t.ticks = u.ticks /\ t.round = u.round
    BY <1>2, <2>1 DEF ConsensusStates, SameCore, SameLocks, SameWords
  <2>5. /\ SameCore(s, t) /\ SameLocks(s, t) /\ SameWords(s, t)
        /\ TimersOK(t.ticks) /\ s.round <= t.round
    BY <1>0, <2>1, <2>4 DEF SameCore, SameLocks, SameWords
  <2>6. Safe(n, K, t)
    BY <1>s, <2>3, <2>5, FrameSafe
  <2>. QED
    BY <2>5, <2>6 DEF t
<1>. QED
  BY <1>1, <1>2 DEF EnterPrecommitWait

-----------------------------------------------------------------------------
(* defaultDecideProposal is safe.                                           *)
LEMMA DecideProposalSafe ==
    ASSUME NEW n \in Validators \cap Correct, NEW K \in SUBSET Votes,
           NEW s \in ConsensusStates, Safe(n, K, s), NEW h \in Nat, NEW r \in Nat
    PROVE  LET t == DecideProposal(n, s, h, r)
           IN  /\ Safe(n, K, t) /\ t \in ConsensusStates
               /\ SameCore(s, t) /\ t.round = s.round
<1> DEFINE b == IF s.validBlock # Nil THEN s.validBlock
                ELSE CreateProposalBlock(n, s)
           m == [type |-> "proposal", height |-> h, round |-> r,
                 polRound |-> s.validRound, block |-> b, val |-> n]
<1>1. b \in Blocks
  BY CreateProposalBlockType, FieldTypes
<1>2. CASE b = Nil
  <2>1. DecideProposal(n, s, h, r) = s
    BY <1>2 DEF DecideProposal
  <2>. QED
    BY <2>1, SameReflexive
<1>3. CASE b # Nil
  <2>1. DecideProposal(n, s, h, r) = SendInternalMessage(s, m)
    BY <1>3 DEF DecideProposal
  <2> HIDE DEF b
  <2>2. m \in Messages
    BY <1>1, FieldTypes DEF Messages, Proposals
  <2>3. m.type = "proposal" /\ m.val = n
    OBVIOUS
  <2> HIDE DEF m
  <2>. QED
    BY <2>1, <2>2, <2>3, SendInternalMessageFrame, SignProposalSafe
<1>. QED
  BY <1>2, <1>3

(* enterPropose is safe, also when it prevotes at once.                     *)
LEMMA EnterProposeSafe ==
    ASSUME NEW n \in Correct, NEW K, Sound(K), NEW s, NodeOK(s), Safe(n, K, s),
           NEW h \in Nat, NEW r \in Nat
    PROVE  LET t == EnterPropose(n, s, h, r)
           IN  Safe(n, K, t) /\ SameCore(s, t)
<1> DEFINE t == EnterPropose(n, s, h, r)
           s1 == ScheduleTimeout(s, h, r, RoundStepPropose)
           s2 == IF n \in Validators /\ Proposer(h, r) = n
                 THEN DecideProposal(n, s1, h, r) ELSE s1
           u == AtPropose(n, s, h, r)
<1>s. s \in ConsensusStates /\ K \in SUBSET Votes
  BY DEF NodeOK, Sound
<1>0. s.round \in Nat /\ s.height \in Nat /\ s.step \in RoundStepType
  BY <1>s, FieldTypes
<1>1. CASE Stale(s, h, r, RoundStepPropose)
  BY <1>1, SameReflexive DEF EnterPropose
<1>2. CASE ~Stale(s, h, r, RoundStepPropose)
  <2>1. s.round <= r
    BY <1>0, <1>2 DEF Stale
  <2>2. t = IF IsProposalComplete(u) THEN EnterPrevote(n, u, h, r) ELSE u
    BY <1>2 DEF EnterPropose, AtPropose
  <2>3. NodeOK(u) /\ u.round = r
    BY <1>2, AtProposeStep DEF Advances
  <2>4. u = [s2 EXCEPT !.round = r, !.step = RoundStepPropose]
    BY DEF AtPropose
  <2>5. /\ s1 \in ConsensusStates
        /\ SameCore(s, s1) /\ SameLocks(s, s1) /\ SameWords(s, s1)
        /\ TimersOK(s1.ticks) /\ s1.round = s.round
    BY <1>s, ScheduleTimeoutFrame DEF Safe, Grounded
  <2> HIDE DEF s1, u, t
  <2>6. Safe(n, K, s1)
    BY <1>s, <1>0, <2>5, FrameSafe
  <2>7. /\ Safe(n, K, s2) /\ s2 \in ConsensusStates
        /\ SameCore(s1, s2) /\ s2.round = s1.round
    BY <1>s, <2>5, <2>6, DecideProposalSafe, SameReflexive
  <2> HIDE DEF s2
  <2>8. RoundStepPropose \in RoundStepType
    BY DEF RoundStepPropose, RoundStepType
  <2>9. /\ u \in ConsensusStates
        /\ SameCore(s2, u) /\ SameLocks(s2, u) /\ SameWords(s2, u)
        /\ u.ticks = s2.ticks
    BY <2>4, <2>7, <2>8, MoveFrame
  <2>10. TimersOK(u.ticks) /\ s2.round <= u.round
    BY <2>1, <2>3, <2>5, <2>7, <2>9 DEF Safe, Grounded
  <2>11. Safe(n, K, u)
    BY <2>7, <2>9, <2>10, FrameSafe
  <2>12. SameCore(s, u)
    BY <2>5, <2>7, <2>9, SameCoreChain
  <2>13. Reached(u, h, r)
    BY <2>3 DEF Reached
  <2>14. LET w == EnterPrevote(n, u, h, r)
         IN  Safe(n, K, w) /\ SameCore(u, w)
    BY <2>3, <2>11, <2>13, EnterPrevoteSafe
  <2>15. Safe(n, K, t) /\ SameCore(s, t)
    BY <2>2, <2>11, <2>12, <2>14, SameCoreChain
  <2>. QED
    BY <2>15 DEF t
<1>. QED
  BY <1>1, <1>2

(* What enterNewRound resets binds the node to nothing.                     *)
LEMMA SetupNewRoundFrame ==
    ASSUME NEW s \in ConsensusStates, NEW r \in Nat
    PROVE  LET t == SetupNewRound(s, r)
           IN  SameCore(s, t) /\ SameLocks(s, t) /\ SameWords(s, t)
  BY DEF SetupNewRound, ConsensusStates, SameCore, SameLocks, SameWords

(* enterNewRound is safe: locks outlive the round.                          *)
LEMMA EnterNewRoundSafe ==
    ASSUME NEW n \in Correct, NEW K, Sound(K), NEW s, NodeOK(s), Safe(n, K, s),
           NEW h \in Nat, NEW r \in Nat
    PROVE  LET t == EnterNewRound(n, s, h, r)
           IN  Safe(n, K, t) /\ SameCore(s, t)
<1> DEFINE t == EnterNewRound(n, s, h, r)
           u == SetupNewRound(s, r)
<1>s. s \in ConsensusStates
  BY DEF NodeOK
<1>0. s.round \in Nat /\ s.height \in Nat /\ s.step \in RoundStepType
  BY <1>s, FieldTypes
<1>1. CASE \/ s.halted \/ s.height # h \/ r < s.round
           \/ s.round = r /\ s.step # RoundStepNewHeight
  BY <1>1, SameReflexive DEF EnterNewRound
<1>2. CASE ~(\/ s.halted \/ s.height # h \/ r < s.round
             \/ s.round = r /\ s.step # RoundStepNewHeight)
  <2>1. t = EnterPropose(n, u, h, r)
    BY <1>2 DEF EnterNewRound
  <2>2. /\ u \in ConsensusStates
        /\ u.height = s.height /\ u.round = r /\ u.step = RoundStepNewRound
        /\ u.ticks = s.ticks /\ u.lastBlock = s.lastBlock
        /\ u.halted = s.halted /\ u.signed = s.signed
    BY <1>s, SetupNewRoundStep
  <2>3. SameCore(s, u) /\ SameLocks(s, u) /\ SameWords(s, u)
    BY <1>s, SetupNewRoundFrame
  <2> HIDE DEF u, t
  <2>4. Forward(s, u)
    BY <1>0, <1>2, <2>2
       DEF Forward, RoundStepNewHeight, RoundStepNewRound, RoundStepType
  <2>5. NodeOK(u)
    BY <2>2, <2>4, StepAdvances DEF NodeOK, Advances
  <2>6. TimersOK(u.ticks) /\ s.round <= u.round
    BY <1>0, <1>2, <2>2 DEF Safe, Grounded
  <2>7. Safe(n, K, u)
    BY <1>s, <2>2, <2>3, <2>6, FrameSafe
  <2>8. Safe(n, K, t) /\ SameCore(u, t)
    BY <2>1, <2>5, <2>7, EnterProposeSafe
  <2>. QED
    BY <2>3, <2>8, SameCoreChain DEF t
<1>. QED
  BY <1>1, <1>2

-----------------------------------------------------------------------------
(* The fields updateToState sets, and those it leaves.                      *)
LEMMA UpdateToStateFrame ==
    ASSUME NEW s \in ConsensusStates, NEW b, ~UpdateToStatePanics(s, b)
    PROVE  LET t == UpdateToState(s, b)
           IN  /\ t.height = Len(b) + 1 /\ t.round = 0
               /\ t.lastBlock = b /\ t.votes = {}
               /\ t.lockedBlock = Nil /\ t.validBlock = Nil
               /\ t.lastCommit = IF s.commitRound > -1
                                 THEN Precommits(s, s.commitRound) ELSE s.lastCommit
               /\ t.blockStore = s.blockStore /\ SameWords(s, t)
               /\ t.ticks = s.ticks /\ t.halted = s.halted
<1> DEFINE h == Len(b) + 1
           commit == IF s.commitRound > -1
                     THEN Precommits(s, s.commitRound) ELSE s.lastCommit
<1>1. UpdateToState(s, b) =
          [s EXCEPT
            !.lastCommit = commit,
            !.height = h, !.round = 0, !.step = RoundStepNewHeight,
            !.proposal = NoProposal, !.proposalBlock = Nil,
            !.lockedRound = -1, !.lockedBlock = Nil,
            !.validRound = -1, !.validBlock = Nil,
            !.votes = {}, !.commitRound = -1,
            !.triggeredTimeoutPrecommit = FALSE,
            !.lastBlock = b]
  BY DEF UpdateToState
<1> HIDE DEF h, commit
<1>2. LET t == UpdateToState(s, b)
      IN  /\ t.height = h /\ t.round = 0
          /\ t.lastBlock = b /\ t.votes = {}
          /\ t.lockedBlock = Nil /\ t.validBlock = Nil
          /\ t.lastCommit = commit
          /\ t.blockStore = s.blockStore /\ SameWords(s, t)
          /\ t.ticks = s.ticks /\ t.halted = s.halted
  BY <1>1 DEF ConsensusStates, SameWords
<1>. QED
  BY <1>2 DEF h, commit

(* The store grows by the block of the height with its commit.              *)
LEMMA StoreGrows ==
    ASSUME NEW K, NEW chain \in Blocks, NEW store \in Seq(FullBlocks),
           StoreOK(K, chain, store), NEW c, NEW fb,
           fb.block = Append(chain, c), Append(chain, c) \in Blocks,
           fb.commit \subseteq K, VerifyCommit(fb)
    PROVE  StoreOK(K, Append(chain, c), Append(store, fb))
<1> DEFINE longer == Append(chain, c)
           k == Len(chain)
<1>1. /\ k \in Nat /\ Len(store) = k /\ Len(longer) = k + 1
      /\ chain \in Seq(ValidContents \cup InvalidContents)
  BY DEF StoreOK, Blocks
<1>2. Len(Append(store, fb)) = k + 1
  BY <1>1
<1>3. ASSUME NEW h \in 1..k
      PROVE  /\ Append(store, fb)[h].block = SubSeq(longer, 1, h)
             /\ Append(store, fb)[h].commit \subseteq K
             /\ VerifyCommit(Append(store, fb)[h])
  <2>1. Append(store, fb)[h] = store[h]
    BY <1>1, <1>3
  <2>2. SubSeq(longer, 1, h) = SubSeq(chain, 1, h)
    <3>1. SubSeq(longer, 1, h) = [i \in 1..h |-> longer[i]]
      BY <1>1
    <3>2. SubSeq(chain, 1, h) = [i \in 1..h |-> chain[i]]
      BY <1>1
    <3>3. \A i \in 1..h : longer[i] = chain[i]
      BY <1>1, <1>3
    <3>. QED
      BY <3>1, <3>2, <3>3
  <2>. QED
    BY <1>3, <2>1, <2>2 DEF StoreOK
<1>4. /\ Append(store, fb)[k + 1] = fb
      /\ SubSeq(longer, 1, k + 1) = longer
  <2>1. Append(store, fb)[k + 1] = fb
    BY <1>1
  <2>2. longer \in Seq(ValidContents \cup InvalidContents)
    BY DEF Blocks
  <2>3. SubSeq(longer, 1, Len(longer)) = longer
    BY <2>2, SubSeqFull
  <2>. QED
    BY <1>1, <2>1, <2>3
<1> HIDE DEF longer, k
<1>5. \A h \in 1..Len(longer) : h \in 1..k \/ h = k + 1
  BY <1>1
<1>. QED
  BY <1>1, <1>2, <1>3, <1>4, <1>5 DEF StoreOK, longer

(* A node that takes a block with a verified commit starts the next height  *)
(* without locks, and all it has signed so far is about heights behind.     *)
LEMMA NextHeightSafe ==
    ASSUME NEW n, NEW K \in SUBSET Votes, NEW s, NodeOK(s), Safe(n, K, s),
           NEW c \in ValidContents, NEW b, b = Append(s.lastBlock, c), b \in Blocks,
           NEW commit \in SUBSET K, VerifyCommit([block |-> b, commit |-> commit]),
           NEW t, ~t.halted, t.height = Len(b) + 1, t.lastBlock = b, t.votes = {},
           t.lockedBlock = Nil, t.validBlock = Nil, b \in TwoThirdsMajority(t.lastCommit),
           t.blockStore = Append(s.blockStore, [block |-> b, commit |-> commit]),
           SameWords(s, t), TimersOK(t.ticks)
    PROVE  Safe(n, K, t)
<1>s. s \in ConsensusStates
  BY DEF NodeOK
<1>0. /\ s.height \in Nat /\ s.lastBlock \in Blocks /\ s.signed \in SUBSET Messages
      /\ s.blockStore \in Seq(FullBlocks)
  BY <1>s, FieldTypes
<1>1. t.height = s.height + 1
  BY <1>0 DEF NodeOK, Blocks
<1>2. \A v \in s.signed : v.height # t.height
  <2>1. \A v \in s.signed : SignedAt(v, s) /\ v.height \in Nat
    BY <1>0, MessageTypes DEF NodeOK
  <2>. QED
    BY <1>0, <1>1, <2>1 DEF SignedAt
<1>3. Held(t.signed, t.votes, t.height, t.round, t.lockedRound, t.lockedBlock)
  BY <1>2 DEF Held, SameWords
<1> DEFINE fb == [block |-> b, commit |-> commit]
<1>4. fb.block = b /\ fb.commit = commit
  OBVIOUS
<1> HIDE DEF fb
<1>5. StoreOK(K, b, Append(s.blockStore, fb))
  <2>1. StoreOK(K, s.lastBlock, s.blockStore)
    BY DEF Safe, Grounded
  <2>2. VerifyCommit(fb)
    BY DEF fb
  <2>. QED
    BY <1>0, <1>4, <2>1, <2>2, StoreGrows
<1>6. StoreOK(K, t.lastBlock, t.blockStore)
  BY <1>5 DEF fb
<1>7. LastCommitOK(t.lastBlock, t.lastCommit)
  BY DEF LastCommitOK
<1>8. VotesOK(K, t.votes, t.height)
  BY DEF VotesOK
<1>9. /\ Backed(t.votes, t.lockedRound, t.lockedBlock)
      /\ Backed(t.votes, t.validRound, t.validBlock)
  BY DEF Backed
<1>. QED
  BY <1>3, <1>6, <1>7, <1>8, <1>9 DEF Safe, Grounded, SameWords

(* scheduleRound0 is safe.                                                  *)
LEMMA ScheduleRound0Safe ==
    ASSUME NEW n, NEW K, NEW s \in ConsensusStates, Safe(n, K, s)
    PROVE  LET t == ScheduleRound0(s)
           IN  Safe(n, K, t) /\ SameCore(s, t)
<1> DEFINE h == s.height
           r == 0
           t == ScheduleTimeout(s, h, r, RoundStepNewHeight)
<1>1. ScheduleRound0(s) = t
  BY DEF ScheduleRound0, Safe, Grounded
<1>2. h \in Nat /\ r \in Nat /\ s.round \in Nat
  BY FieldTypes
<1> HIDE DEF h, r
<1>3. /\ t \in ConsensusStates
      /\ SameCore(s, t) /\ SameLocks(s, t) /\ SameWords(s, t)
      /\ TimersOK(t.ticks) /\ t.round = s.round
  BY <1>2, ScheduleTimeoutFrame DEF Safe, Grounded
<1> HIDE DEF t
<1>4. Safe(n, K, t)
  BY <1>2, <1>3, FrameSafe
<1>. QED
  BY <1>1, <1>3, <1>4

(* The chain of the node is the same, or it has one more valid block.       *)
Grows(s, t) == t.lastBlock = s.lastBlock \/ Follows(s.lastBlock, t.lastBlock)

(* A block with 2/3 of the precommits is a child of the last block.         *)
LEMMA CommitFollows ==
    ASSUME NEW n, NEW K, Sound(K), NEW s, NodeOK(s), Safe(n, K, s), NEW r,
           NEW b \in TwoThirdsMajority(Precommits(s, r)), b # Nil
    PROVE  Follows(s.lastBlock, b) /\ r \in Nat
<1>1. s \in ConsensusStates /\ K \in SUBSET Votes /\ s.height = Len(s.lastBlock) + 1
  BY DEF NodeOK, Sound
<1>2. s.votes \in SUBSET Votes /\ s.lastBlock \in Blocks /\ s.height \in Nat
  BY <1>1, FieldTypes
<1>3. b \in Blocks /\ r \in Nat
  BY <1>2 DEF Precommits, TwoThirdsMajority, Votes
<1>4. CommitIn(K, s.height, r, b)
  BY <1>1, CommitIsCast DEF Safe, Grounded
<1>5. PolkaIn(K, s.height, r, b)
  BY <1>2, <1>3, <1>4 DEF Sound
<1>6. Tip(K, s.lastBlock)
  BY <1>1, LastBlockIsTip
<1>. QED
  BY <1>1, <1>2, <1>3, <1>5, <1>6 DEF Sound

(* MakeCommit keeps the votes for the decided block.                        *)
LEMMA MakeCommitKeeps ==
    ASSUME NEW P \in SUBSET Votes, NEW b \in TwoThirdsMajority(P)
    PROVE  MakeCommit(P) \subseteq P /\ b \in TwoThirdsMajority(MakeCommit(P))
<1>1. {v \in MakeCommit(P) : v.block = b} = {v \in P : v.block = b}
  BY DEF MakeCommit
<1>2. b \in {v.block : v \in MakeCommit(P)}
  <2>1. PICK v \in P : v.block = b
    BY DEF TwoThirdsMajority
  <2>. QED
    BY <2>1 DEF MakeCommit
<1>3. Signers({v \in P : v.block = b}) \in Quorums
  BY DEF TwoThirdsMajority
<1>. QED
  BY <1>1, <1>2, <1>3 DEF TwoThirdsMajority, MakeCommit

(* The commit made of the precommits of one round passes VerifyCommit.      *)
LEMMA PrecommitsVerify ==
    ASSUME NEW K \in SUBSET Votes, NEW s \in ConsensusStates,
           VotesOK(K, s.votes, s.height), NEW r,
           NEW b \in TwoThirdsMajority(Precommits(s, r)), Len(b) = s.height
    PROVE  LET commit == MakeCommit(Precommits(s, r))
           IN  commit \in SUBSET K /\ VerifyCommit([block |-> b, commit |-> commit])
<1> DEFINE commit == MakeCommit(Precommits(s, r))
<1>1. Precommits(s, r) \in SUBSET K
  BY DEF Precommits, VotesOK
<1>2. commit \subseteq Precommits(s, r) /\ b \in TwoThirdsMajority(commit)
  BY <1>1, MakeCommitKeeps
<1> HIDE DEF commit
<1>3. /\ \A v, w \in commit : v.type = "precommit" /\ v.round = w.round
      /\ \A v \in commit : v.height = Len(b)
  BY <1>2 DEF Precommits, VotesOK
<1>. QED
  BY <1>1, <1>2, <1>3 DEF VerifyCommit, commit

(* finalizeCommit does not panic on a block with 2/3 of the precommits.     *)
LEMMA FinalizeCommitSafe ==
    ASSUME NEW n, NEW K, Sound(K), NEW s, NodeOK(s), Safe(n, K, s),
           s.proposalBlock # Nil,
           s.proposalBlock \in TwoThirdsMajority(Precommits(s, s.commitRound))
    PROVE  LET t == FinalizeCommit(s)
           IN  Safe(n, K, t) /\ Follows(s.lastBlock, t.lastBlock)
<1> DEFINE b == s.proposalBlock
           precommits == Precommits(s, s.commitRound)
           commit == MakeCommit(precommits)
           fb == [block |-> b, commit |-> commit]
           u == SaveBlock(s, b, commit)
           w == UpdateToState(u, b)
<1>s. s \in ConsensusStates /\ K \in SUBSET Votes
  BY DEF NodeOK, Sound
<1>0. /\ s.height \in Nat /\ s.lastBlock \in Blocks
      /\ precommits \in SUBSET Votes /\ commit \in SUBSET Votes
      /\ s.blockStore \in Seq(FullBlocks)
  BY <1>s, FieldTypes, VoteSetTypes, MakeCommitType
<1>1. Follows(s.lastBlock, b) /\ s.commitRound \in Nat
  BY CommitFollows
<1>2. ValidateBlock(s, b)
  BY <1>1 DEF Follows, ValidateBlock
<1>3. b \in Blocks /\ Len(b) = s.height
  BY <1>2, ValidBlockFollows
<1>4. commit \in SUBSET K /\ VerifyCommit([block |-> b, commit |-> commit])
  BY <1>s, <1>3, PrecommitsVerify DEF Safe, Grounded
<1>5. Advances(s, u)
  BY <1>0, <1>3, SaveBlockStep
<1>6. u = [s EXCEPT !.blockStore = Append(s.blockStore, fb)]
  <2>1. Len(s.blockStore) = Len(s.lastBlock) /\ Len(s.lastBlock) \in Nat
        /\ s.height = Len(s.lastBlock) + 1
    BY <1>0 DEF Safe, Grounded, StoreOK, NodeOK, Blocks
  <2>2. Len(s.blockStore) < Len(b)
    BY <1>3, <2>1
  <2>. QED
    BY <2>2 DEF SaveBlock
<1>7. FinalizeCommit(s) = ScheduleRound0(w)
  BY <1>2 DEF FinalizeCommit
<1>8. precommits \in SUBSET Votes /\ b \in TwoThirdsMajority(precommits)
  BY <1>0
<1> HIDE DEF u, b, fb
<1>9. /\ u.blockStore = Append(s.blockStore, fb)
      /\ u.votes = s.votes /\ u.commitRound = s.commitRound /\ u.height = s.height
      /\ u.lastBlock = s.lastBlock /\ SameWords(s, u) /\ u.ticks = s.ticks
      /\ u.halted = s.halted
  BY <1>s, <1>6 DEF ConsensusStates, SameWords
<1>10. Precommits(u, u.commitRound) = precommits
  BY <1>9 DEF Precommits
<1> HIDE DEF commit, precommits
<1>11. ~UpdateToStatePanics(u, b)
  BY <1>1, <1>3, <1>8, <1>9, <1>10 DEF UpdateToStatePanics, NodeOK
<1>12. u \in ConsensusStates
  BY <1>5 DEF Advances, NodeOK
<1>13. /\ w.height = Len(b) + 1 /\ w.round = 0
       /\ w.lastBlock = b /\ w.votes = {}
       /\ w.lockedBlock = Nil /\ w.validBlock = Nil
       /\ w.lastCommit = precommits
       /\ w.blockStore = u.blockStore /\ SameWords(u, w)
       /\ w.ticks = u.ticks /\ w.halted = u.halted
  <2>1. u.commitRound > -1
    BY <1>1, <1>9
  <2>. QED
    BY <1>10, <1>11, <1>12, <2>1, UpdateToStateFrame
<1>14. w \in ConsensusStates
  BY <1>3, <1>5, <1>9, UpdateToStateStep DEF Advances, NodeOK
<1> HIDE DEF w
<1>15. Safe(n, K, w)
  <2>1. PICK c \in ValidContents : b = Append(s.lastBlock, c)
    BY <1>1 DEF Follows
  <2>2. SameWords(s, w) /\ TimersOK(w.ticks) /\ ~w.halted
    BY <1>9, <1>13 DEF SameWords, Safe, Grounded
  <2>3. w.blockStore = Append(s.blockStore, [block |-> b, commit |-> commit])
    BY <1>9, <1>13 DEF fb
  <2>4. b \in TwoThirdsMajority(w.lastCommit)
    BY <1>8, <1>13
  <2>. QED
    BY <1>s, <1>3, <1>4, <1>13, <2>1, <2>2, <2>3, <2>4, NextHeightSafe
<1>16. LET t == ScheduleRound0(w)
       IN  Safe(n, K, t) /\ SameCore(w, t)
  BY <1>14, <1>15, ScheduleRound0Safe
<1>. QED
  BY <1>1, <1>7, <1>13, <1>16 DEF SameCore

(* tryFinalizeCommit is safe.                                               *)
LEMMA TryFinalizeCommitSafe ==
    ASSUME NEW n, NEW K, Sound(K), NEW s, NodeOK(s), Safe(n, K, s)
    PROVE  LET t == TryFinalizeCommit(s)
           IN  Safe(n, K, t) /\ Grows(s, t)
  BY FinalizeCommitSafe DEF TryFinalizeCommit, HashTo, Grows

(* enterCommit does not panic with 2/3 of the precommits for some block.    *)
LEMMA EnterCommitSafe ==
    ASSUME NEW n, NEW K, Sound(K), NEW s, NodeOK(s), Safe(n, K, s),
           NEW h \in Nat, NEW r \in Nat,
           TwoThirdsMajority(Precommits(s, r)) # {}
    PROVE  LET t == EnterCommit(s, h, r)
           IN  Safe(n, K, t) /\ Grows(s, t)
<1> DEFINE u == AtCommit(s, r)
<1>s. s \in ConsensusStates
  BY DEF NodeOK
<1>0. s.step \in RoundStepType /\ s.round \in Nat
  BY <1>s, FieldTypes
<1>1. CASE EnterCommit(s, h, r) = s
  BY <1>1 DEF Grows
<1>2. CASE s.step < RoundStepCommit /\ EnterCommit(s, h, r) = TryFinalizeCommit(u)
  <2>1. NodeOK(u)
    BY <1>2, AtCommitStep DEF Advances
  <2>2. /\ SameCore(s, u) /\ SameLocks(s, u) /\ SameWords(s, u)
        /\ u.ticks = s.ticks /\ u.round = s.round
    BY <1>s DEF AtCommit, ConsensusStates, SameCore, SameLocks, SameWords
  <2> HIDE DEF u
  <2>3. u \in ConsensusStates /\ TimersOK(u.ticks) /\ s.round <= u.round
    BY <1>0, <2>1, <2>2 DEF NodeOK, Safe, Grounded
  <2>4. Safe(n, K, u)
    BY <1>s, <2>2, <2>3, FrameSafe
  <2>5. LET t == TryFinalizeCommit(u)
        IN  Safe(n, K, t) /\ Grows(u, t)
    BY <2>1, <2>4, TryFinalizeCommitSafe
  <2>. QED
    BY <1>2, <2>2, <2>5 DEF SameCore, Grows
<1>. QED
  BY <1>0, <1>1, <1>2 DEF EnterCommit, AtCommit, RoundStepCommit, RoundStepType

-----------------------------------------------------------------------------
(* Taking a proposal is safe: its block becomes the valid one only on a     *)
(* polka of this round.                                                     *)
LEMMA WithProposalSafe ==
    ASSUME NEW n, NEW K, NEW s, NodeOK(s), Safe(n, K, s), NEW p \in Proposals
    PROVE  LET t == WithProposal(s, p)
           IN  Safe(n, K, t) /\ SameCore(s, t)
<1> DEFINE polka == Polka(s.votes, s.round)
           s1 == [s EXCEPT !.proposal = p, !.proposalBlock = p.block]
           s2 == [s1 EXCEPT !.validRound = s.round, !.validBlock = p.block]
<1>s. s \in ConsensusStates
  BY DEF NodeOK
<1>1. CASE WithProposal(s, p) = s1
  <2>1. /\ SameCore(s, s1) /\ SameLocks(s, s1) /\ SameWords(s, s1)
        /\ s1.ticks = s.ticks /\ s1.round = s.round
    BY <1>s DEF ConsensusStates, SameCore, SameLocks, SameWords
  <2> HIDE DEF s1
  <2>2. Safe(n, K, s1)
    BY <2>1 DEF Safe, Grounded, SameCore, SameLocks, SameWords
  <2>. QED
    BY <1>1, <2>1, <2>2
<1>2. CASE WithProposal(s, p) = s2 /\ HashTo(p.block, polka)
  <2>1. /\ SameCore(s, s2) /\ SameWords(s, s2)
        /\ s2.lockedRound = s.lockedRound /\ s2.lockedBlock = s.lockedBlock
        /\ s2.validRound = s.round /\ s2.validBlock = p.block
        /\ s2.ticks = s.ticks /\ s2.round = s.round
    BY <1>s DEF ConsensusStates, SameCore, SameWords
  <2>2. Backed(s.votes, s.round, p.block)
    BY <1>2 DEF Backed, HashTo
  <2> HIDE DEF s2
  <2>3. Safe(n, K, s2)
    BY <2>1, <2>2 DEF Safe, Grounded, SameCore, SameWords
  <2>. QED
    BY <1>2, <2>1, <2>3
<1>. QED
  BY <1>1, <1>2, PolkaOfState DEF WithProposal

(* defaultSetProposal is safe, whatever block is proposed.                  *)
LEMMA SetProposalSafe ==
    ASSUME NEW n \in Correct, NEW K, Sound(K), NEW s, NodeOK(s), Safe(n, K, s),
           NEW p \in Proposals
    PROVE  LET t == SetProposal(n, s, p)
           IN  Safe(n, K, t) /\ Grows(s, t)
<1> DEFINE u == WithProposal(s, p)
           s3 == EnterPrevote(n, u, s.height, s.round)
           s4 == EnterPrecommit(n, s3, s.height, s.round)
           s5 == TryFinalizeCommit(u)
<1>0. s.round \in Nat /\ s.height \in Nat
  BY FieldTypes DEF NodeOK
<1>1. SetProposal(n, s, p) \in {u, s3, s4, s5}
  BY DEF SetProposal, WithProposal
<1>2. /\ NodeOK(u) /\ Reached(u, s.height, s.round)
      /\ Safe(n, K, u) /\ SameCore(s, u)
  BY <1>0, WithProposalStep, WithProposalSafe DEF Reached, Advances
<1> HIDE DEF u
<1>3. /\ NodeOK(s3) /\ Reached(s3, s.height, s.round)
      /\ Safe(n, K, s3) /\ SameCore(u, s3)
  <2>1. /\ Advances(u, s3) /\ s3.height = u.height
        /\ s3.halted = u.halted /\ s3.round >= u.round
    BY <1>0, <1>2, EnterPrevoteStep
  <2>2. s3.round \in Nat /\ u.round \in Nat
    BY <1>2, <2>1, FieldTypes DEF Advances, NodeOK
  <2>3. Safe(n, K, s3) /\ SameCore(u, s3)
    BY <1>0, <1>2, EnterPrevoteSafe
  <2>. QED
    BY <1>0, <1>2, <2>1, <2>2, <2>3 DEF Reached, Advances
<1> HIDE DEF s3
<1>4. Safe(n, K, s4) /\ SameCore(s3, s4)
  BY <1>0, <1>3, EnterPrecommitSafe
<1> HIDE DEF s4
<1>5. Safe(n, K, s5) /\ Grows(u, s5)
  BY <1>2, TryFinalizeCommitSafe
<1> HIDE DEF s5
<1>. QED
  BY <1>1, <1>2, <1>3, <1>4, <1>5 DEF SameCore, Grows

(* A lock is dropped only for a later polka that is not for its block.      *)
LEMMA UnlockSafe ==
    ASSUME NEW n, NEW K, NEW s, NodeOK(s), Safe(n, K, s), NEW vote \in Votes,
           UnlockOnPOL(s, vote, Polka(s.votes, vote.round))
    PROVE  LET t == [s EXCEPT !.lockedRound = -1, !.lockedBlock = Nil]
           IN  Safe(n, K, t) /\ SameCore(s, t)
<1> DEFINE t == [s EXCEPT !.lockedRound = -1, !.lockedBlock = Nil]
           polka == Polka(s.votes, vote.round)
<1>s. s \in ConsensusStates
  BY DEF NodeOK
<1>0. /\ s.round \in Nat /\ s.lockedRound \in Rounds /\ s.signed \in SUBSET Messages
      /\ vote.round \in Nat
  BY <1>s, FieldTypes DEF Votes
<1>1. /\ SameCore(s, t) /\ SameWords(s, t)
      /\ t.lockedRound = -1 /\ t.lockedBlock = Nil
      /\ t.validRound = s.validRound /\ t.validBlock = s.validBlock
      /\ t.ticks = s.ticks /\ t.round = s.round
  BY <1>s DEF ConsensusStates, SameCore, SameWords
<1>2. /\ s.lockedRound < vote.round /\ vote.round <= s.round
      /\ polka # {} /\ s.lockedBlock \notin polka
  BY DEF UnlockOnPOL
<1>3. Held(s.signed, s.votes, s.height, s.round, -1, Nil)
  <2> SUFFICES ASSUME NEW v \in s.signed, v.type = "precommit",
                      v.block # Nil, v.height = s.height
               PROVE  /\ v.block \in Polka(s.votes, v.round)
                      /\ \E r \in v.round + 1 .. s.round :
                             Polka(s.votes, r) \ {v.block} # {}
    BY DEF Held
  <2>1. /\ v.block \in Polka(s.votes, v.round)
        /\ \/ s.lockedBlock = v.block /\ s.lockedRound >= v.round
           \/ \E r \in v.round + 1 .. s.round : Polka(s.votes, r) \ {v.block} # {}
    BY DEF Safe, Grounded, Held
  <2>2. CASE s.lockedBlock = v.block /\ s.lockedRound >= v.round
    <3>1. v.round \in Nat
      BY <1>0, MessageTypes
    <3>2. vote.round \in v.round + 1 .. s.round
      BY <1>0, <1>2, <2>2, <3>1 DEF Rounds
    <3>3. polka \ {v.block} # {}
      BY <1>2, <2>2
    <3>. QED
      BY <2>1, <3>2, <3>3
  <2>. QED
    BY <2>1, <2>2
<1>4. Backed(s.votes, -1, Nil)
  BY DEF Backed
<1> HIDE DEF t
<1>5. Safe(n, K, t)
  BY <1>1, <1>3, <1>4 DEF Safe, Grounded, SameCore, SameWords
<1>. QED
  BY <1>1, <1>5 DEF t

(* The valid block changes only on a polka for it.                          *)
LEMMA UpdateValidSafe ==
    ASSUME NEW n, NEW K, NEW s, NodeOK(s), Safe(n, K, s), NEW vote \in Votes
    PROVE  LET t == UpdateValid(s, vote, Polka(s.votes, vote.round))
           IN  Safe(n, K, t) /\ SameCore(s, t)
<1> DEFINE polka == Polka(s.votes, vote.round)
           b == s.proposalBlock
           s1 == [s EXCEPT !.validRound = vote.round, !.validBlock = b]
           s2 == [s EXCEPT !.proposalBlock = Nil]
           t == UpdateValid(s, vote, polka)
<1>s. s \in ConsensusStates
  BY DEF NodeOK
<1>1. CASE t = s
  BY <1>1, SameReflexive
<1>2. CASE t = s1 /\ HashTo(b, polka)
  <2>1. Backed(s.votes, vote.round, b)
    BY <1>2 DEF Backed, HashTo
  <2>2. /\ SameCore(s, s1) /\ SameWords(s, s1)
        /\ s1.lockedRound = s.lockedRound /\ s1.lockedBlock = s.lockedBlock
        /\ s1.validRound = vote.round /\ s1.validBlock = b
        /\ s1.ticks = s.ticks /\ s1.round = s.round
    BY <1>s DEF ConsensusStates, SameCore, SameWords
  <2> HIDE DEF s1
  <2>3. Safe(n, K, s1)
    BY <2>1, <2>2 DEF Safe, Grounded, SameCore, SameWords
  <2>. QED
    BY <1>2, <2>2, <2>3
<1>3. CASE t = s2
  <2>1. /\ SameCore(s, s2) /\ SameLocks(s, s2) /\ SameWords(s, s2)
        /\ s2.ticks = s.ticks /\ s2.round = s.round
    BY <1>s DEF ConsensusStates, SameCore, SameLocks, SameWords
  <2> HIDE DEF s2
  <2>2. Safe(n, K, s2)
    BY <2>1 DEF Safe, Grounded, SameCore, SameLocks, SameWords
  <2>. QED
    BY <1>3, <2>1, <2>2
<1>. QED
  BY <1>1, <1>2, <1>3 DEF UpdateValid

(* The prevote branch of addVote is safe.                                   *)
LEMMA AddedPrevoteSafe ==
    ASSUME NEW n \in Correct, NEW K, Sound(K), NEW s, NodeOK(s), Safe(n, K, s),
           NEW vote \in Votes
    PROVE  LET t == AddedPrevote(n, s, vote)
           IN  Safe(n, K, t) /\ SameCore(s, t)
<1> DEFINE prevotes == Prevotes(s, vote.round)
           polka == TwoThirdsMajority(prevotes)
           s1 == IF UnlockOnPOL(s, vote, polka)
                 THEN [s EXCEPT !.lockedRound = -1, !.lockedBlock = Nil] ELSE s
           s2 == UpdateValid(s1, vote, polka)
           t == AddedPrevote(n, s, vote)
<1>0. vote.round \in Nat
  BY DEF Votes
<1>p. polka = Polka(s.votes, vote.round)
  BY PolkaOfState
<1>1. NodeOK(s1) /\ Safe(n, K, s1) /\ SameCore(s, s1)
  BY <1>p, UnlockStep, UnlockSafe, SameReflexive DEF Advances
<1>2. \/ t = s2
      \/ t = EnterNewRound(n, s2, s2.height, vote.round)
      \/ s2.round = vote.round /\ t = EnterPrecommit(n, s2, s2.height, vote.round)
      \/ /\ s2.round = vote.round /\ HasTwoThirdsAny(prevotes)
         /\ t = EnterPrevoteWait(s2, s2.height, vote.round)
      \/ t = EnterPrevote(n, s2, s2.height, s2.round)
  BY DEF AddedPrevote
<1> HIDE DEF s1, t
<1>3. /\ NodeOK(s2) /\ Safe(n, K, s2) /\ SameCore(s, s2)
      /\ s2.round \in Nat /\ s2.height \in Nat
  <2>1. polka = Polka(s1.votes, vote.round)
    BY <1>1, <1>p DEF SameCore
  <2>2. NodeOK(s2)
    BY <1>1, UpdateValidStep DEF Advances
  <2>3. Safe(n, K, s2) /\ SameCore(s1, s2)
    BY <1>1, <2>1, UpdateValidSafe
  <2>. QED
    BY <1>1, <2>2, <2>3, SameCoreChain, FieldTypes DEF NodeOK
<1>4. Prevotes(s2, vote.round) = prevotes
  BY <1>3 DEF Prevotes, SameCore
<1> HIDE DEF s2, prevotes
<1>5. Reached(s2, s2.height, s2.round)
  BY <1>3 DEF Reached
<1>6. Safe(n, K, t) /\ SameCore(s2, t)
  <2>1. CASE t = s2
    BY <1>3, <2>1, SameReflexive
  <2>2. CASE t = EnterNewRound(n, s2, s2.height, vote.round)
    BY <1>0, <1>3, <2>2, EnterNewRoundSafe
  <2>3. CASE s2.round = vote.round /\ t = EnterPrecommit(n, s2, s2.height, vote.round)
    BY <1>3, <1>5, <2>3, EnterPrecommitSafe
  <2>4. CASE /\ s2.round = vote.round /\ HasTwoThirdsAny(prevotes)
             /\ t = EnterPrevoteWait(s2, s2.height, vote.round)
    BY <1>3, <1>4, <1>5, <2>4, EnterPrevoteWaitSafe
  <2>5. CASE t = EnterPrevote(n, s2, s2.height, s2.round)
    BY <1>3, <1>5, <2>5, EnterPrevoteSafe
  <2>. QED
    BY <1>2, <2>1, <2>2, <2>3, <2>4, <2>5
<1>. QED
  BY <1>3, <1>6, SameCoreChain DEF t

(* The precommit branch of addVote is safe: no vote moves from one          *)
(* operator of the cascade to the next, so enterCommit and                  *)
(* enterPrecommitWait find the majority that made addVote call them.        *)
LEMMA AddedPrecommitSafe ==
    ASSUME NEW n \in Correct, NEW K, Sound(K), NEW s, NodeOK(s), Safe(n, K, s),
           NEW vote \in Votes
    PROVE  LET t == AddedPrecommit(n, s, vote)
           IN  Safe(n, K, t) /\ Grows(s, t)
<1> DEFINE r == vote.round
           h == s.height
           precommits == Precommits(s, r)
           majority == TwoThirdsMajority(precommits)
           s1 == EnterNewRound(n, s, h, r)
           s2 == EnterPrecommit(n, s1, h, r)
           s3 == EnterCommit(s2, h, r)
           t == AddedPrecommit(n, s, vote)
<1>0. r \in Nat /\ h \in Nat /\ 0 \in Nat
  BY FieldTypes DEF Votes, NodeOK
<1>1. \/ t = s
      \/ majority # {} /\ t \in {s3, EnterNewRound(n, s3, s3.height, 0),
                                 EnterPrecommitWait(s2, h, r)}
      \/ HasTwoThirdsAny(precommits) /\ t = EnterPrecommitWait(s1, h, r)
  BY DEF AddedPrecommit
<1>p. precommits \in SUBSET Votes
  BY VoteSetTypes DEF NodeOK
<1>m. majority # {} => HasTwoThirdsAny(precommits)
  BY <1>p, MajorityIsTwoThirdsAny
<1> HIDE DEF r, h, t
<1>2. /\ NodeOK(s1) /\ Reached(s1, h, r)
      /\ Safe(n, K, s1) /\ SameCore(s, s1)
  BY <1>0, EnterNewRoundStep, EnterNewRoundSafe DEF Advances
<1> HIDE DEF s1
<1>3. /\ NodeOK(s2)
      /\ Safe(n, K, s2) /\ SameCore(s, s2)
  BY <1>0, <1>2, EnterPrecommitStep, EnterPrecommitSafe, SameCoreChain DEF Advances
<1> HIDE DEF s2
<1>4. Precommits(s1, r) = precommits /\ Precommits(s2, r) = precommits
  BY <1>2, <1>3 DEF SameCore, Precommits
<1> HIDE DEF precommits
<1>5. CASE t = s
  BY <1>5 DEF t, Grows
<1>6. CASE majority # {} /\ t \in {s3, EnterNewRound(n, s3, s3.height, 0)}
  <2>1. NodeOK(s3)
    BY <1>0, <1>3, EnterCommitStep DEF Advances
  <2>2. Safe(n, K, s3) /\ Grows(s2, s3)
    BY <1>0, <1>3, <1>4, <1>6, EnterCommitSafe
  <2> HIDE DEF s3
  <2>3. s3.height \in Nat
    BY <2>1, FieldTypes DEF NodeOK
  <2>4. LET u == EnterNewRound(n, s3, s3.height, 0)
        IN  Safe(n, K, u) /\ SameCore(s3, u)
    BY <1>0, <2>1, <2>2, <2>3, EnterNewRoundSafe
  <2>. QED
    BY <1>3, <1>6, <2>2, <2>4 DEF SameCore, Grows, t
<1>7. CASE majority # {} /\ t = EnterPrecommitWait(s2, h, r)
  <2>1. HasTwoThirdsAny(Precommits(s2, r))
    BY <1>4, <1>7, <1>m
  <2>2. Safe(n, K, t) /\ SameCore(s2, t)
    BY <1>0, <1>3, <1>7, <2>1, EnterPrecommitWaitSafe
  <2>. QED
    BY <1>3, <2>2 DEF SameCore, Grows, t
<1>8. CASE HasTwoThirdsAny(precommits) /\ t = EnterPrecommitWait(s1, h, r)
  <2>1. Safe(n, K, t) /\ SameCore(s1, t)
    BY <1>0, <1>2, <1>4, <1>8, EnterPrecommitWaitSafe
  <2>. QED
    BY <1>2, <2>1 DEF SameCore, Grows, t
<1>. QED
  BY <1>1, <1>5, <1>6, <1>7, <1>8

(* Another vote of the height, cast by its validator, is safe to count.     *)
LEMMA WithVoteSafe ==
    ASSUME NEW n, NEW K \in SUBSET Votes, NEW s, NodeOK(s), Safe(n, K, s),
           NEW vote \in K, vote.height = s.height
    PROVE  Safe(n, K, [s EXCEPT !.votes = s.votes \cup {vote}])
<1> DEFINE votes == s.votes \cup {vote}
           t == [s EXCEPT !.votes = votes]
<1>s. s \in ConsensusStates
  BY DEF NodeOK
<1>0. /\ s.votes \in SUBSET Votes /\ votes \in SUBSET Votes /\ s.votes \subseteq votes
      /\ s.signed \in SUBSET Messages /\ s.round \in Nat
  BY <1>s, FieldTypes
<1>1. VotesOK(K, votes, s.height)
  BY DEF VotesOK, Safe, Grounded
<1> HIDE DEF votes
<1>2. \A r : Polka(s.votes, r) \subseteq Polka(votes, r)
  BY <1>0, PolkaGrows
<1>3. /\ Backed(votes, s.lockedRound, s.lockedBlock)
      /\ Backed(votes, s.validRound, s.validBlock)
  BY <1>2 DEF Backed, Safe, Grounded
<1>4. Held(s.signed, votes, s.height, s.round, s.lockedRound, s.lockedBlock)
  <2>1. Held(s.signed, s.votes, s.height, s.round, s.lockedRound, s.lockedBlock)
    BY DEF Safe, Grounded
  <2>. QED
    BY <1>0, <2>1, HeldLater
<1>5. /\ t.votes = votes /\ SameLocks(s, t) /\ SameWords(s, t)
      /\ t.height = s.height /\ t.halted = s.halted /\ t.round = s.round
      /\ t.lastBlock = s.lastBlock /\ t.blockStore = s.blockStore
      /\ t.lastCommit = s.lastCommit /\ t.ticks = s.ticks
  BY <1>s DEF ConsensusStates, SameLocks, SameWords
<1> HIDE DEF t
<1>6. Safe(n, K, t)
  BY <1>1, <1>3, <1>4, <1>5 DEF Safe, Grounded, SameLocks, SameWords
<1>. QED
  BY <1>6 DEF t, votes

(* A late precommit leaves LastCommit a commit of the last block.           *)
LEMMA LateCommitSafe ==
    ASSUME NEW n, NEW K, NEW s, NodeOK(s), Safe(n, K, s), NEW vote \in Votes
    PROVE  Safe(n, K, [s EXCEPT !.lastCommit = s.lastCommit \cup {vote}])
<1> DEFINE commit == s.lastCommit \cup {vote}
           t == [s EXCEPT !.lastCommit = commit]
<1>s. s \in ConsensusStates
  BY DEF NodeOK
<1>0. /\ s.lastCommit \in SUBSET Votes /\ commit \in SUBSET Votes
      /\ s.lastCommit \subseteq commit
  BY <1>s, FieldTypes
<1> HIDE DEF commit
<1>1. LastCommitOK(s.lastBlock, commit)
  BY <1>0, MajorityGrows DEF LastCommitOK, Safe, Grounded
<1>2. /\ t.lastCommit = commit /\ SameLocks(s, t) /\ SameWords(s, t)
      /\ t.height = s.height /\ t.halted = s.halted /\ t.round = s.round
      /\ t.lastBlock = s.lastBlock /\ t.blockStore = s.blockStore
      /\ t.votes = s.votes /\ t.ticks = s.ticks
  BY <1>s DEF ConsensusStates, SameLocks, SameWords
<1> HIDE DEF t
<1>3. Safe(n, K, t)
  BY <1>1, <1>2 DEF Safe, Grounded, SameLocks, SameWords
<1>. QED
  BY <1>3 DEF t, commit

(* A safe node that panics at a nil vote set has stayed what it was.        *)
LEMMA PanicAccounted ==
    ASSUME NEW n, NEW K, NEW s, NodeOK(s), Safe(n, K, s), MeetsNil(s)
    PROVE  Accounted(n, K, Panic(s)) /\ Grows(s, Panic(s))
<1> DEFINE t == Panic(s)
<1>1. /\ SameCore(s, [t EXCEPT !.halted = s.halted])
      /\ SameLocks(s, t) /\ SameWords(s, t) /\ t.ticks = s.ticks
      /\ t.height = s.height /\ t.votes = s.votes /\ t.lastBlock = s.lastBlock
      /\ t.blockStore = s.blockStore /\ t.lastCommit = s.lastCommit
      /\ t.round = s.round /\ t.step = s.step /\ t.proposal = s.proposal
      /\ t.proposalBlock = s.proposalBlock
  BY DEF NodeOK, ConsensusStates, Panic, SameCore, SameLocks, SameWords
<1> HIDE DEF t
<1>2. Grounded(n, K, t)
  BY <1>1 DEF Safe, Grounded, SameLocks, SameWords
<1>3. SyncRound(t) = SyncRound(s)
  BY <1>1 DEF SyncRound, IsProposalComplete, Prevotes, SameLocks
<1>4. MeetsNil(t)
  BY <1>1, <1>3 DEF MeetsNil
<1>. QED
  BY <1>1, <1>2, <1>4 DEF Accounted, Grows, t

(* addVote at the nil LastCommit: only a faulty precommit for height 0,     *)
(* before the first block, gets there.                                      *)
LEMMA NilLastCommit ==
    ASSUME NEW n, NEW K, Sound(K), NEW s, NodeOK(s), Safe(n, K, s),
           NEW vote \in K, IsLateCommit(s, vote), s.lastCommit = {}
    PROVE  MeetsNil(s)
<1>0. vote \in Votes /\ s.lastBlock \in Blocks /\ s.height = Len(s.lastBlock) + 1
  BY FieldTypes DEF Sound, NodeOK
<1>1. s.lastBlock = Nil
  BY DEF Safe, Grounded, LastCommitOK, TwoThirdsMajority
<1>2. s.height = 1
  BY <1>0, <1>1 DEF Nil
<1>3. /\ vote.type = "precommit" /\ vote.height + 1 = s.height
      /\ s.step = RoundStepNewHeight
  BY DEF IsLateCommit
<1>4. vote.height = 0
  BY <1>0, <1>2, <1>3 DEF Votes
<1>5. vote \in FaultyMsgs
  BY <1>4 DEF Sound
<1>. QED
  BY <1>3, <1>5 DEF MeetsNil

(* addVote is safe for a vote its validator has cast, but for the panic at  *)
(* the nil LastCommit.                                                      *)
LEMMA AddVoteSafe ==
    ASSUME NEW n \in Correct, NEW K, Sound(K), NEW s, NodeOK(s), Safe(n, K, s),
           NEW vote \in K, VoteApplies(s, vote)
    PROVE  LET t == AddVote(n, s, vote)
           IN  Accounted(n, K, t) /\ Grows(s, t)
<1> DEFINE late == [s EXCEPT !.lastCommit = s.lastCommit \cup {vote}]
           s1 == [s EXCEPT !.votes = s.votes \cup {vote}]
           t == AddVote(n, s, vote)
<1>s. s \in ConsensusStates /\ K \in SUBSET Votes /\ vote \in Votes
  BY DEF NodeOK, Sound
<1>0. s.height \in Nat /\ 0 \in Nat
  BY <1>s, FieldTypes
<1>1. s.lastCommit \cup {vote} \in SUBSET Votes /\ s.votes \cup {vote} \in SUBSET Votes
  BY <1>s, FieldTypes
<1>2. \/ t = Panic(s) /\ IsLateCommit(s, vote) /\ s.lastCommit = {}
      \/ t \in {late, EnterNewRound(n, late, s.height, 0)}
      \/ /\ vote.height = s.height
         /\ t \in {AddedPrevote(n, s1, vote), AddedPrecommit(n, s1, vote)}
  BY DEF AddVote, VoteApplies
<1>3. NodeOK(late) /\ NodeOK(s1)
  BY <1>1, VotesStep DEF Advances
<1>4. late.lastBlock = s.lastBlock /\ s1.lastBlock = s.lastBlock
  BY <1>s DEF ConsensusStates
<1>5. Safe(n, K, late)
  BY <1>s, LateCommitSafe
<1>6. vote.height = s.height => Safe(n, K, s1)
  BY <1>s, WithVoteSafe
<1> HIDE DEF late, s1, t
<1>7. CASE t = Panic(s) /\ IsLateCommit(s, vote) /\ s.lastCommit = {}
  BY <1>7, NilLastCommit, PanicAccounted DEF t
<1>8. CASE t \in {late, EnterNewRound(n, late, s.height, 0)}
  <2>1. LET u == EnterNewRound(n, late, s.height, 0)
        IN  Safe(n, K, u) /\ SameCore(late, u)
    BY <1>0, <1>3, <1>5, EnterNewRoundSafe
  <2>. QED
    BY <1>4, <1>5, <1>8, <2>1 DEF SameCore, Grows, Safe, Accounted, t
<1>9. CASE /\ vote.height = s.height
           /\ t \in {AddedPrevote(n, s1, vote), AddedPrecommit(n, s1, vote)}
  <2>1. LET u == AddedPrevote(n, s1, vote)
        IN  Safe(n, K, u) /\ SameCore(s1, u)
    BY <1>s, <1>3, <1>6, <1>9, AddedPrevoteSafe
  <2>2. LET u == AddedPrecommit(n, s1, vote)
        IN  Safe(n, K, u) /\ Grows(s1, u)
    BY <1>s, <1>3, <1>6, <1>9, AddedPrecommitSafe
  <2>. QED
    BY <1>4, <1>9, <2>1, <2>2 DEF SameCore, Grows, Safe, Accounted, t
<1>. QED
  BY <1>2, <1>7, <1>8, <1>9

-----------------------------------------------------------------------------
(* handleMsg is safe for a proposal and for a vote cast by its validator.   *)
LEMMA HandleMsgSafe ==
    ASSUME NEW n \in Correct, NEW K, Sound(K), NEW s, NodeOK(s), Safe(n, K, s),
           NEW m \in Messages, m.type # "proposal" => m \in K
    PROVE  LET t == HandleMsg(n, s, m)
           IN  Accounted(n, K, t) /\ Grows(s, t)
<1>1. CASE ~MessageApplies(s, m)
  BY <1>1 DEF HandleMsg, Grows, Safe, Accounted
<1>2. CASE MessageApplies(s, m) /\ m.type = "proposal"
  <2>1. m \in Proposals
    BY <1>2 DEF Messages, Votes
  <2>2. HandleMsg(n, s, m) = SetProposal(n, s, m)
    BY <1>2 DEF HandleMsg
  <2>. QED
    BY <2>1, <2>2, SetProposalSafe DEF Safe, Accounted
<1>3. CASE MessageApplies(s, m) /\ m.type # "proposal"
  <2>1. VoteApplies(s, m)
    BY <1>3 DEF MessageApplies
  <2>2. HandleMsg(n, s, m) = AddVote(n, s, m)
    BY <1>3 DEF HandleMsg
  <2>. QED
    BY <1>3, <2>1, <2>2, AddVoteSafe
<1>. QED
  BY <1>1, <1>2, <1>3

(* handleTimeout is safe for every timer the node has ever scheduled.       *)
LEMMA HandleTimeoutSafe ==
    ASSUME NEW n \in Correct, NEW K, Sound(K), NEW s, NodeOK(s), Safe(n, K, s),
           NEW ti \in s.ticks
    PROVE  LET t == HandleTimeout(n, s, ti)
           IN  Safe(n, K, t) /\ SameCore(s, t)
<1> DEFINE h == ti.height
           r == ti.round
           k == r + 1
           u == EnterPrecommit(n, s, h, r)
           t == HandleTimeout(n, s, ti)
<1>s. s \in ConsensusStates
  BY DEF NodeOK
<1>0. h \in Nat /\ r \in Nat /\ k \in Nat /\ 0 \in Nat
  BY <1>s, FieldTypes DEF Ticks
<1>1. \/ t = s
      \/ t = EnterNewRound(n, s, h, 0)
      \/ t = EnterPrevote(n, s, h, r)
      \/ t = u
      \/ t = EnterNewRound(n, u, h, k)
  <2>1. ti.step \in {RoundStepNewHeight, RoundStepPropose,
                     RoundStepPrevoteWait, RoundStepPrecommitWait}
    BY DEF Safe, Grounded, TimersOK
  <2>. QED
    BY <2>1 DEF HandleTimeout, RoundStepNewHeight, RoundStepNewRound,
         RoundStepPropose, RoundStepPrevoteWait, RoundStepPrecommitWait
<1>2. Reached(s, h, r)
  <2>1. TickReached(ti, s) /\ s.height \in Nat
    BY <1>s, FieldTypes DEF NodeOK
  <2>. QED
    BY <1>0, <2>1 DEF TickReached, Reached
<1> HIDE DEF h, r, k, t
<1>3. LET w == EnterNewRound(n, s, h, 0)
      IN  Safe(n, K, w) /\ SameCore(s, w)
  BY <1>0, EnterNewRoundSafe
<1>4. LET w == EnterPrevote(n, s, h, r)
      IN  Safe(n, K, w) /\ SameCore(s, w)
  BY <1>0, <1>2, EnterPrevoteSafe
<1>5. NodeOK(u) /\ Safe(n, K, u) /\ SameCore(s, u)
  BY <1>0, <1>2, EnterPrecommitStep, EnterPrecommitSafe DEF Advances
<1> HIDE DEF u
<1>6. LET w == EnterNewRound(n, u, h, k)
      IN  Safe(n, K, w) /\ SameCore(u, w)
  BY <1>0, <1>5, EnterNewRoundSafe
<1>7. Safe(n, K, t) /\ SameCore(s, t)
  BY <1>1, <1>3, <1>4, <1>5, <1>6, SameReflexive, SameCoreChain
<1>. QED
  BY <1>7 DEF t

(* processCommitedBlock is safe: with CommitRound reset and LastCommit      *)
(* replaced, none of the panics of updateToState is reachable.              *)
LEMMA ProcessCommittedBlockSafe ==
    ASSUME NEW n \in Correct, NEW K, Sound(K), NEW s, NodeOK(s), Safe(n, K, s),
           NEW fb \in FullBlocks, fb.commit \subseteq K
    PROVE  LET t == ProcessCommittedBlock(n, s, fb)
           IN  Safe(n, K, t) /\ Grows(s, t)
<1> DEFINE b == fb.block
           u == AtCommitted(s, fb)
           w == UpdateToState(u, b)
           t == ProcessCommittedBlock(n, s, fb)
<1>s. s \in ConsensusStates
  BY DEF NodeOK
<1>0. /\ b \in Blocks /\ fb.commit \in SUBSET Votes /\ 0 \in Nat
      /\ fb = [block |-> b, commit |-> fb.commit]
      /\ s.lastBlock \in Blocks /\ s.blockStore \in Seq(FullBlocks)
  BY <1>s, FieldTypes DEF FullBlocks
<1>1. CASE t = s
  BY <1>1 DEF Grows
<1>2. CASE /\ Len(b) = s.height /\ ValidateBlock(s, b) /\ VerifyCommit(fb)
           /\ t \in {EnterNewRound(n, w, w.height, 0), ScheduleRound0(w)}
  <2>1. Advances(s, u) /\ u.height = s.height
    BY <1>2, AtCommittedStep
  <2>2. /\ u.blockStore = Append(s.blockStore, fb)
        /\ u.lastBlock = s.lastBlock /\ SameWords(s, u) /\ u.ticks = s.ticks
        /\ u.halted = s.halted
        /\ u.commitRound = -1 /\ u.lastCommit = fb.commit
    <3>1. Len(s.blockStore) < Len(b)
      BY <1>0, <1>2 DEF Safe, Grounded, StoreOK, NodeOK, Blocks
    <3>2. AtCommitted(s, fb) =
              [[s EXCEPT !.step = RoundStepCommit, !.commitRound = -1,
                         !.lastCommit = fb.commit]
                  EXCEPT !.blockStore = Append(s.blockStore, fb)]
      BY <1>s, <1>0, <3>1 DEF AtCommitted, SaveBlock, ConsensusStates
    <3>. QED
      BY <1>s, <3>2 DEF ConsensusStates, SameWords
  <2> HIDE DEF t, u
  <2>3. u \in ConsensusStates
    BY <2>1 DEF Advances, NodeOK
  <2>4. ~UpdateToStatePanics(u, b)
    <3>1. fb.commit # {}
      BY <1>2 DEF VerifyCommit, TwoThirdsMajority
    <3>. QED
      BY <2>1, <2>2, <3>1 DEF UpdateToStatePanics, NodeOK
  <2>5. /\ w.height = Len(b) + 1 /\ w.lastBlock = b /\ w.votes = {}
        /\ w.lockedBlock = Nil /\ w.validBlock = Nil
        /\ w.lastCommit = fb.commit
        /\ w.blockStore = u.blockStore /\ SameWords(u, w)
        /\ w.ticks = u.ticks /\ w.halted = u.halted
    BY <2>2, <2>3, <2>4, UpdateToStateFrame
  <2>6. NodeOK(w)
    BY <1>0, <1>2, <2>1, UpdateToStateStep DEF Advances
  <2> HIDE DEF w, b
  <2>7. PICK c \in ValidContents : b = Append(s.lastBlock, c)
    BY <1>2 DEF ValidateBlock
  <2>8. Safe(n, K, w)
    <3>1. SameWords(s, w) /\ TimersOK(w.ticks) /\ ~w.halted
      BY <2>2, <2>5 DEF SameWords, Safe, Grounded
    <3>2. w.blockStore = Append(s.blockStore, [block |-> b, commit |-> fb.commit])
      BY <1>0, <2>2, <2>5
    <3>3. VerifyCommit([block |-> b, commit |-> fb.commit]) /\ K \in SUBSET Votes
      BY <1>0, <1>2 DEF Sound
    <3>4. fb.commit \in SUBSET K
      OBVIOUS
    <3>5. b \in TwoThirdsMajority(w.lastCommit)
      BY <1>0, <1>2, <2>5 DEF VerifyCommit
    <3>. QED
      BY <1>0, <2>5, <2>7, <3>1, <3>2, <3>3, <3>4, <3>5, NextHeightSafe
  <2>9. LET x == EnterNewRound(n, w, w.height, 0)
        IN  Safe(n, K, x) /\ SameCore(w, x)
    BY <1>0, <2>6, <2>8, EnterNewRoundSafe, FieldTypes DEF NodeOK
  <2>10. LET x == ScheduleRound0(w)
         IN  Safe(n, K, x) /\ SameCore(w, x)
    BY <2>6, <2>8, ScheduleRound0Safe DEF NodeOK
  <2>11. Safe(n, K, t) /\ t.lastBlock = b
    BY <1>2, <2>5, <2>9, <2>10 DEF SameCore
  <2>. QED
    BY <2>7, <2>11 DEF Grows, Follows, t
<1>. QED
  BY <1>1, <1>2 DEF ProcessCommittedBlock, AtCommitted

(* Taking the next own message is safe, and a vote taken so is a signed one. *)
LEMMA DequeueSafe ==
    ASSUME NEW n, NEW K, NEW s, NodeOK(s), Safe(n, K, s), s.internalMsgQueue # <<>>
    PROVE  LET t == [s EXCEPT !.internalMsgQueue = Tail(@)]
               m == Head(s.internalMsgQueue)
           IN  /\ Safe(n, K, t) /\ t.lastBlock = s.lastBlock /\ t.signed = s.signed
               /\ m.type # "proposal" => m \in s.signed
<1> DEFINE q == Tail(s.internalMsgQueue)
           t == [s EXCEPT !.internalMsgQueue = q]
<1>1. s.internalMsgQueue \in Seq(Messages)
  BY FieldTypes DEF NodeOK
<1>2. QueueOK(s.internalMsgQueue, s.signed)
  BY DEF Safe, Grounded
<1>3. QueueOK(q, s.signed)
  BY <1>1, <1>2 DEF QueueOK
<1>4. LET m == Head(s.internalMsgQueue)
      IN  m.type # "proposal" => m \in s.signed
  BY <1>1, <1>2 DEF QueueOK
<1> HIDE DEF q
<1>5. /\ SameCore(s, t) /\ SameLocks(s, t)
      /\ t.signed = s.signed /\ t.internalMsgQueue = q
      /\ t.ticks = s.ticks /\ t.round = s.round
  BY DEF NodeOK, ConsensusStates, SameCore, SameLocks
<1> HIDE DEF t
<1>6. Safe(n, K, t) /\ t.lastBlock = s.lastBlock
  BY <1>3, <1>5 DEF Safe, Grounded, SameCore, SameLocks
<1>. QED
  BY <1>4, <1>5, <1>6 DEF t, q

(* More votes cast spoil nothing.                                           *)
LEMMA AccountedGrows ==
    ASSUME NEW n, NEW K \in SUBSET Votes, NEW L \in SUBSET Votes, K \subseteq L,
           NEW s, Accounted(n, K, s)
    PROVE  Accounted(n, L, s)
<1>1. \A h, r, b : PolkaIn(K, h, r, b) => PolkaIn(L, h, r, b)
  BY BackersGrow DEF PolkaIn
<1>2. \A chain : Tip(K, chain) => Tip(L, chain)
  BY TipGrows
<1>3. SignedOK(n, L, s.signed)
  BY <1>1, <1>2 DEF Accounted, Grounded, SignedOK, OnTip
<1>4. Kept(L, s.signed)
  BY <1>1 DEF Accounted, Grounded, Kept
<1>5. VotesOK(L, s.votes, s.height) /\ StoreOK(L, s.lastBlock, s.blockStore)
  BY DEF Accounted, Grounded, VotesOK, StoreOK
<1>. QED
  BY <1>3, <1>4, <1>5 DEF Accounted, Grounded

-----------------------------------------------------------------------------
(* What is cast are votes.                                                  *)
LEMMA CastVotes ==
    ASSUME Inv
    PROVE  Cast \in SUBSET Votes
<1> SUFFICES ASSUME NEW m \in Cast
             PROVE  m \in Votes
  OBVIOUS
<1>1. m \in Messages /\ m.type # "proposal"
  BY FaultyAssumption, FieldTypes DEF Cast, Inv
<1>. QED
  BY <1>1 DEF Messages, Proposals

(* A vote of a correct validator was signed by its node.                    *)
LEMMA CorrectCast ==
    ASSUME SafetyInv, NEW v \in Cast, v.val \in Correct
    PROVE  v \in cs[v.val].signed
<1>1. \A n \in Correct : \A m \in cs[n].signed : m.val = n
  BY DEF SafetyInv, Accounted, Grounded, SignedOK
<1>2. v \notin FaultyMsgs
  BY FaultyAssumption
<1>3. PICK n \in Correct : v \in cs[n].signed
  BY <1>2 DEF Cast
<1>. QED
  BY <1>1, <1>3

(* Two quorums of votes have votes of one correct node.                     *)
LEMMA BackersMeet ==
    ASSUME SafetyInv,
           NEW x, NEW h, NEW r1, NEW b1, Backers(Cast, x, h, r1, b1) \in Quorums,
           NEW y, NEW r2, NEW b2, Backers(Cast, y, h, r2, b2) \in Quorums
    PROVE  \E n \in Correct : \E v, w \in cs[n].signed :
               /\ v.type = x /\ v.height = h /\ v.round = r1 /\ v.block = b1
               /\ w.type = y /\ w.height = h /\ w.round = r2 /\ w.block = b2
<1>1. PICK n \in Correct : /\ n \in Backers(Cast, x, h, r1, b1)
                           /\ n \in Backers(Cast, y, h, r2, b2)
  BY QuorumsMeet
<1>2. PICK v \in Cast : /\ v.type = x /\ v.height = h /\ v.round = r1
                        /\ v.block = b1 /\ v.val = n
  BY <1>1 DEF Backers
<1>3. PICK w \in Cast : /\ w.type = y /\ w.height = h /\ w.round = r2
                        /\ w.block = b2 /\ w.val = n
  BY <1>1 DEF Backers
<1>4. v \in cs[n].signed /\ w \in cs[n].signed
  BY <1>2, <1>3, CorrectCast
<1>. QED
  BY <1>2, <1>3, <1>4

(* A round has a polka, and a commit, for one block (or nil) at most.       *)
LEMMA OnePerRound ==
    ASSUME Inv, SafetyInv, NEW x, NEW h, NEW r, NEW b1, NEW b2,
           Backers(Cast, x, h, r, b1) \in Quorums,
           Backers(Cast, x, h, r, b2) \in Quorums
    PROVE  b1 = b2
<1>1. PICK n \in Correct : \E v, w \in cs[n].signed :
               /\ v.type = x /\ v.height = h /\ v.round = r /\ v.block = b1
               /\ w.type = x /\ w.height = h /\ w.round = r /\ w.block = b2
  BY BackersMeet
<1>. QED
  BY <1>1 DEF Inv, NodeOK, SameSlot

(* A commit for a block has a polka in its round.                           *)
LEMMA CommitHasPolka ==
    ASSUME SafetyInv, NEW h, NEW r, NEW b, b # Nil, CommitIn(Cast, h, r, b)
    PROVE  PolkaIn(Cast, h, r, b)
<1> DEFINE x == "precommit"
<1>0. Backers(Cast, x, h, r, b) \in Quorums
  BY DEF CommitIn
<1> HIDE DEF x
<1>1. PICK n \in Correct : \E v \in cs[n].signed :
          v.type = x /\ v.height = h /\ v.round = r /\ v.block = b
  BY <1>0, BackersMeet
<1>. QED
  BY <1>1 DEF SafetyInv, Accounted, Grounded, SignedOK, x

(* What is committed is, of course, still choosable.                        *)
LEMMA CommitIsChoosable ==
    ASSUME SafetyInv, NEW h, NEW r, NEW b, CommitIn(Cast, h, r, b)
    PROVE  Choosable(h, r, b)
<1> DEFINE Q == Backers(Cast, "precommit", h, r, b)
<1>1. Q \in Quorums
  BY DEF CommitIn
<1>2. ASSUME NEW m \in Q \cap Correct
      PROVE  HasPrecommitted(cs[m], h, r, b)
  <2>1. PICK v \in Cast : /\ v.type = "precommit" /\ v.height = h /\ v.round = r
                          /\ v.block = b /\ v.val = m
    BY <1>2 DEF Backers
  <2>2. v \in cs[m].signed
    BY <2>1, CorrectCast
  <2>. QED
    BY <2>1, <2>2 DEF HasPrecommitted
<1>. QED
  BY <1>1, <1>2 DEF Choosable

(* NoRival for a block with a polka of its own.                             *)
LEMMA NoRivalFor ==
    ASSUME SafetyInv, Cast \in SUBSET Votes, NEW h, NEW r1 \in Nat, NEW r2 \in Nat,
           r1 < r2, NEW b1, NEW b2, b1 # Nil, b1 # b2, Choosable(h, r1, b1),
           PolkaIn(Cast, h, r1, b1), PolkaIn(Cast, h, r2, b2)
    PROVE  FALSE
<1>1. PICK v \in Cast : v.block = b1
  BY PolkaHasVote
<1>2. PICK w \in Cast : w.height = h /\ w.round = r2 /\ w.block = b2
  BY PolkaHasVote
<1>3. r1 \in 0 .. w.round - 1
  BY <1>2
<1>. QED
  BY <1>1, <1>2, <1>3 DEF SafetyInv, NoRival

(* A later commit is no rival of an earlier one.                            *)
LEMMA LaterCommit ==
    ASSUME Inv, SafetyInv, NEW h \in Nat, NEW r1 \in Nat, NEW r2 \in Nat, r1 < r2,
           NEW b1 \in Blocks, NEW b2 \in Blocks, b1 # Nil, b2 # Nil,
           CommitIn(Cast, h, r1, b1), CommitIn(Cast, h, r2, b2)
    PROVE  b1 = b2
<1> SUFFICES ASSUME b1 # b2 PROVE FALSE
  OBVIOUS
<1>1. Choosable(h, r1, b1) /\ PolkaIn(Cast, h, r2, b2)
  BY CommitIsChoosable, CommitHasPolka
<1>2. PolkaIn(Cast, h, r1, b1) /\ Cast \in SUBSET Votes
  BY CommitHasPolka, CastVotes
<1>. QED
  BY <1>1, <1>2, NoRivalFor

(* A height has one decision, whatever the rounds.                          *)
LEMMA OneDecision ==
    ASSUME Inv, SafetyInv, NEW h \in Nat, NEW r1 \in Nat, NEW r2 \in Nat,
           NEW b1 \in Blocks, NEW b2 \in Blocks, b1 # Nil, b2 # Nil,
           CommitIn(Cast, h, r1, b1), CommitIn(Cast, h, r2, b2)
    PROVE  b1 = b2
<1>1. CASE r1 = r2
  BY <1>1, OnePerRound DEF CommitIn
<1>2. CASE r1 < r2
  BY <1>2, LaterCommit
<1>3. CASE r2 < r1
  BY <1>3, LaterCommit
<1>. QED
  BY <1>1, <1>2, <1>3

(* Two chains of one length that the votes have decided are the same.       *)
LEMMA TipsAgree ==
    ASSUME Inv, SafetyInv, NEW a \in Blocks, NEW b \in Blocks, Len(a) = Len(b),
           Tip(Cast, a), Tip(Cast, b)
    PROVE  a = b
<1>1. Len(a) \in Nat /\ (a = Nil <=> Len(a) = 0) /\ (b = Nil <=> Len(b) = 0)
  BY DEF Blocks, Nil
<1>2. CASE a = Nil
  BY <1>1, <1>2
<1>3. CASE a # Nil
  <2>1. PICK v \in Cast : CommitIn(Cast, Len(a), v.round, a)
    BY <1>3 DEF Tip
  <2>2. PICK w \in Cast : CommitIn(Cast, Len(b), w.round, b)
    BY <1>1, <1>3 DEF Tip
  <2>3. v.round \in Nat /\ w.round \in Nat
    BY CastVotes DEF Votes
  <2>. QED
    BY <1>1, <1>3, <2>1, <2>2, <2>3, OneDecision
<1>. QED
  BY <1>2, <1>3

(* The votes cast keep their word to a node that acts on them.              *)
LEMMA CastIsSound ==
    ASSUME Inv, SafetyInv
    PROVE  Sound(Cast)
<1>1. Cast \subseteq Votes
  BY CastVotes
<1>2. ASSUME NEW chain \in Blocks, NEW b \in Blocks, NEW r \in Nat,
             Tip(Cast, chain), b # Nil, PolkaIn(Cast, Len(chain) + 1, r, b)
      PROVE  Follows(chain, b)
  <2> DEFINE x == "prevote"
             h == Len(chain) + 1
  <2>0. Backers(Cast, x, h, r, b) \in Quorums
    BY <1>2 DEF PolkaIn
  <2> HIDE DEF x, h
  <2>1. PICK n \in Correct : \E v \in cs[n].signed :
            v.type = x /\ v.height = h /\ v.round = r /\ v.block = b
    BY <2>0, BackersMeet
  <2>2. PICK v \in cs[n].signed : /\ v.type = "prevote" /\ v.block = b
                                  /\ v.height = Len(chain) + 1
    BY <2>1 DEF x, h
  <2>3. OnTip(Cast, v)
    BY <1>2, <2>2 DEF SafetyInv, Accounted, Grounded, SignedOK
  <2>4. PICK other \in {Nil} \cup {u.block : u \in Cast} :
            /\ Tip(Cast, other)
            /\ Len(other) + 1 = v.height
            /\ Follows(other, b)
    BY <2>2, <2>3 DEF OnTip
  <2>5. other \in Blocks
    BY <1>1, NilType DEF Votes
  <2>6. Len(other) = Len(chain)
    <3>1. Len(other) \in Nat /\ Len(chain) \in Nat
      BY <2>5 DEF Blocks
    <3>. QED
      BY <2>2, <2>4, <3>1
  <2>. QED
    BY <1>2, <2>4, <2>5, <2>6, TipsAgree
<1>3. \A h, r \in Nat : \A b \in Blocks :
          (b # Nil /\ CommitIn(Cast, h, r, b)) => PolkaIn(Cast, h, r, b)
  BY CommitHasPolka
<1>4. \A v \in Cast : v.height = 0 => v \in FaultyMsgs
  <2>1. \A n \in Correct : \A m \in cs[n].signed :
            m.type # "proposal" => m.height > 0
    BY DEF SafetyInv, Accounted, Grounded, SignedOK
  <2>. QED
    BY <2>1 DEF Cast
<1>. QED
  BY <1>1, <1>2, <1>3, <1>4 DEF Sound

-----------------------------------------------------------------------------
(* A commit that block sync delivers is made of votes cast.                 *)
LEMMA CommittedBlockIsCast ==
    ASSUME Inv, SafetyInv, NEW n \in Correct,
           NEW fb \in Stored(cs[n].height) \cup Justified(cs[n].height)
    PROVE  fb.commit \subseteq Cast
<1> DEFINE h == cs[n].height
<1>1. h \in Nat /\ h > 0
  <2>1. cs[n].lastBlock \in Blocks /\ h = Len(cs[n].lastBlock) + 1
    BY FieldTypes DEF Inv, NodeOK
  <2>. QED
    BY <2>1 DEF Blocks
<1>2. CASE fb \in Stored(h)
  <2>1. PICK m \in Correct : /\ Len(cs[m].blockStore) >= h
                             /\ fb = cs[m].blockStore[h]
    BY <1>2 DEF Stored
  <2>2. StoreOK(Cast, cs[m].lastBlock, cs[m].blockStore)
    BY DEF SafetyInv, Accounted, Grounded
  <2>3. Len(cs[m].lastBlock) \in Nat
    BY FieldTypes DEF Inv, Blocks
  <2>4. h \in 1..Len(cs[m].lastBlock)
    BY <1>1, <2>1, <2>2, <2>3 DEF StoreOK
  <2>. QED
    BY <2>1, <2>2, <2>4 DEF StoreOK
<1>3. CASE fb \in Justified(h)
  <2>1. \A v \in net \cup FaultyMsgs : v.type = "precommit" => v \in Cast
    BY DEF SafetyInv, Cast
  <2>2. \A v \in fb.commit : v \in net \cup FaultyMsgs /\ v.type = "precommit"
    BY <1>3 DEF Justified
  <2>. QED
    BY <2>1, <2>2
<1>. QED
  BY <1>2, <1>3

(* One node of many takes a safe step.                                      *)
LEMMA BecomesSafe ==
    ASSUME Inv, SafetyInv, NEW n \in Correct, NEW s, Becomes(n, s),
           Accounted(n, Cast, s), Grows(cs[n], s)
    PROVE  /\ \A m \in Correct : Accounted(m, Cast, cs'[m])
           /\ \E k \in Correct : /\ Grows(cs[k], cs'[k])
                                 /\ \A m \in Correct \ {k} : cs'[m] = cs[m]
<1>1. cs' = [cs EXCEPT ![n] = s] /\ cs \in [Correct -> ConsensusStates]
  BY DEF Becomes, Inv
<1>2. cs'[n] = s /\ \A m \in Correct \ {n} : cs'[m] = cs[m]
  BY <1>1
<1>3. ASSUME NEW m \in Correct
      PROVE  Accounted(m, Cast, cs'[m])
  BY <1>2 DEF SafetyInv
<1>. QED
  BY <1>2, <1>3

(* Every action is a safe step of one node, and what it broadcasts is cast. *)
LEMMA NextSafe ==
    ASSUME Inv, SafetyInv, Next
    PROVE  /\ \A m \in Correct : Accounted(m, Cast, cs'[m])
           /\ \E k \in Correct : /\ Grows(cs[k], cs'[k])
                                 /\ \A m \in Correct \ {k} : cs'[m] = cs[m]
           /\ \A m \in net' : m.type # "proposal" => m \in Cast
<1>1. PICK n \in Correct :
          \/ \E m \in net \cup FaultyMsgs : HandlePeerMsg(n, m)
          \/ HandleInternalMsg(n)
          \/ \E ti \in cs[n].ticks : HandleTock(n, ti)
          \/ \E fb \in Stored(cs[n].height) \cup Justified(cs[n].height) :
                 HandleCommittedBlock(n, fb)
          \/ HandleSyncTimer(n)
  BY DEF Next
<1>2. NodeOK(cs[n]) /\ Safe(n, Cast, cs[n]) /\ Sound(Cast)
  <2>1. ~cs[n].halted
    BY <1>1 DEF HandlePeerMsg, HandleInternalMsg, HandleTock, HandleCommittedBlock,
                HandleSyncTimer
  <2>. QED
    BY <2>1, CastIsSound DEF Inv, SafetyInv, Safe, Accounted
<1> DEFINE Spoken == \A m \in net' : m.type # "proposal" => m \in Cast
           Taken == \E s : Becomes(n, s) /\ Accounted(n, Cast, s) /\ Grows(cs[n], s)
<1>3. \A m \in net : m.type # "proposal" => m \in Cast
  BY DEF SafetyInv
<1>4. Taken /\ Spoken
  <2>1. ASSUME NEW m \in net \cup FaultyMsgs, HandlePeerMsg(n, m)
        PROVE  Taken /\ Spoken
    <3>1. m \in Messages /\ (m.type # "proposal" => m \in Cast)
      BY <1>3, HandleMsgType DEF Cast
    <3>2. Accounted(n, Cast, HandleMsg(n, cs[n], m)) /\ Grows(cs[n], HandleMsg(n, cs[n], m))
      BY <1>2, <3>1, HandleMsgSafe
    <3>3. Becomes(n, HandleMsg(n, cs[n], m)) /\ net' \in {net, net \cup {m}}
      BY <2>1 DEF HandlePeerMsg, TakeMsg
    <3>. QED
      BY <1>3, <3>1, <3>2, <3>3
  <2>2. CASE HandleInternalMsg(n)
    <3> DEFINE s == [cs[n] EXCEPT !.internalMsgQueue = Tail(@)]
               m == Head(cs[n].internalMsgQueue)
               t == HandleMsg(n, s, m)
    <3>1. m \in Messages /\ NodeOK(s)
      BY <1>2, <2>2, DequeueStep DEF HandleInternalMsg, Advances
    <3>2. /\ Safe(n, Cast, s) /\ s.lastBlock = cs[n].lastBlock
          /\ m.type # "proposal" => m \in cs[n].signed
      BY <1>2, <2>2, DequeueSafe DEF HandleInternalMsg
    <3>3. m.type # "proposal" => m \in Cast
      BY <3>2 DEF Cast
    <3>4. Becomes(n, t) /\ net' \in {net, net \cup {m}}
      BY <2>2 DEF HandleInternalMsg, TakeMsg
    <3> HIDE DEF s, m
    <3>5. Accounted(n, Cast, t) /\ Grows(s, t)
      BY <1>2, <3>1, <3>2, <3>3, HandleMsgSafe
    <3> HIDE DEF t
    <3>6. Grows(cs[n], t)
      BY <3>2, <3>5 DEF Grows
    <3>. QED
      BY <1>3, <3>3, <3>4, <3>5, <3>6
  <2>3. ASSUME NEW ti \in cs[n].ticks, HandleTock(n, ti)
        PROVE  Taken /\ Spoken
    <3> DEFINE t == HandleTimeout(n, cs[n], ti)
    <3>1. Accounted(n, Cast, t) /\ SameCore(cs[n], t)
      BY <1>2, HandleTimeoutSafe DEF Safe, Accounted
    <3>2. Becomes(n, t) /\ net' = net
      BY <2>3 DEF HandleTock
    <3> HIDE DEF t
    <3>. QED
      BY <1>3, <3>1, <3>2 DEF SameCore, Grows
  <2>4. ASSUME NEW fb \in Stored(cs[n].height) \cup Justified(cs[n].height),
               HandleCommittedBlock(n, fb)
        PROVE  Taken /\ Spoken
    <3> DEFINE t == ProcessCommittedBlock(n, cs[n], fb)
    <3>1. fb \in FullBlocks /\ fb.commit \subseteq Cast
      BY CommittedBlockType, CommittedBlockIsCast
    <3>2. Accounted(n, Cast, t) /\ Grows(cs[n], t)
      BY <1>2, <3>1, ProcessCommittedBlockSafe DEF Safe, Accounted
    <3>3. Becomes(n, t) /\ net' = net
      BY <2>4 DEF HandleCommittedBlock
    <3>. QED
      BY <1>3, <3>2, <3>3
  <2>5. CASE HandleSyncTimer(n)
    <3> DEFINE t == Panic(cs[n])
    <3>1. MeetsNil(cs[n])
      BY <2>5 DEF HandleSyncTimer, MeetsNil
    <3>2. Accounted(n, Cast, t) /\ Grows(cs[n], t)
      BY <1>2, <3>1, PanicAccounted
    <3>3. Becomes(n, t) /\ net' = net
      BY <2>5 DEF HandleSyncTimer
    <3> HIDE DEF t
    <3>. QED
      BY <1>3, <3>2, <3>3
  <2>. QED
    BY <1>1, <2>1, <2>2, <2>3, <2>4, <2>5
<1>5. PICK s : Becomes(n, s) /\ Accounted(n, Cast, s) /\ Grows(cs[n], s)
  BY <1>4
<1>. QED
  BY <1>4, <1>5, BecomesSafe

(* A place that is passed stays passed.                                     *)
LEMMA StillPast ==
    ASSUME NEW s \in ConsensusStates, NEW t \in ConsensusStates, Forward(s, t),
           NEW h \in Nat, NEW r \in Nat, Past(s, h, r)
    PROVE  Past(t, h, r)
<1>1. /\ s.height \in Nat /\ s.round \in Nat /\ s.step \in RoundStepType
      /\ t.height \in Nat /\ t.round \in Nat /\ t.step \in RoundStepType
  BY FieldTypes
<1>. QED
  BY <1>1 DEF Forward, Past, RoundStepType, RoundStepPrecommit

(* What can be chosen after a step could be chosen before: a node that is   *)
(* past the precommit of a round never signs one for it.                    *)
LEMMA ChoosableBefore ==
    ASSUME Inv, \A n \in Correct : Advances(cs[n], cs'[n]),
           NEW h \in Nat, NEW r \in Nat, NEW b, Choosable(h, r, b)'
    PROVE  Choosable(h, r, b)
<1>1. PICK Q \in Quorums : \A m \in Q \cap Correct :
          ~Past(cs'[m], h, r) \/ HasPrecommitted(cs'[m], h, r, b)
  BY DEF Choosable
<1>2. ASSUME NEW m \in Q \cap Correct
      PROVE  ~Past(cs[m], h, r) \/ HasPrecommitted(cs[m], h, r, b)
  <2>1. /\ cs[m] \in ConsensusStates /\ cs'[m] \in ConsensusStates
        /\ Forward(cs[m], cs'[m]) /\ SignsAhead(cs[m], cs'[m])
    BY DEF Inv, NodeOK, Advances
  <2>2. CASE ~Past(cs'[m], h, r)
    BY <2>1, <2>2, StillPast
  <2>3. CASE HasPrecommitted(cs'[m], h, r, b)
    <3>1. PICK v \in cs'[m].signed : /\ v.type = "precommit" /\ v.height = h
                                     /\ v.round = r /\ v.block = b
      BY <2>3 DEF HasPrecommitted
    <3>2. CASE v \in cs[m].signed
      BY <3>1, <3>2 DEF HasPrecommitted
    <3>3. CASE ~SignedAt(v, cs[m])
      <4>1. cs[m].height \in Nat /\ cs[m].round \in Nat /\ cs[m].step \in RoundStepType
        BY <2>1, FieldTypes
      <4>. QED
        BY <3>1, <3>3, <4>1 DEF SignedAt, Past, StepOf, RoundStepType
    <3>. QED
      BY <2>1, <3>2, <3>3 DEF SignsAhead
  <2>. QED
    BY <1>1, <2>2, <2>3
<1>. QED
  BY <1>2 DEF Choosable

(* The votes cast stay cast.                                                *)
LEMMA CastGrows ==
    ASSUME \A n \in Correct : Advances(cs[n], cs'[n])
    PROVE  Cast \subseteq Cast'
<1>1. \A n \in Correct : cs[n].signed \subseteq cs'[n].signed
  BY DEF Advances, SignsAhead
<1>. QED
  BY <1>1 DEF Cast

(* No step makes a polka that rivals a block still choosable.  A correct    *)
(* node common to the polka and to the quorum of the choice has prevoted in *)
(* the later round, so it is past the earlier one and has precommitted the  *)
(* choice.  It kept that word unless an even earlier polka released it, and *)
(* that one was a rival before the step.                                    *)
LEMMA NoRivalStep ==
    ASSUME Inv, Inv', SafetyInv, \A n \in Correct : Advances(cs[n], cs'[n]),
           \A n \in Correct : Accounted(n, Cast, cs'[n])
    PROVE  NoRival'
<1> SUFFICES ASSUME NEW x \in Cast', NEW y \in Cast', NEW r1 \in 0 .. x.round - 1,
                    PolkaIn(Cast', x.height, x.round, x.block),
                    y.block # Nil, y.block # x.block,
                    Choosable(x.height, r1, y.block)'
             PROVE  FALSE
  BY DEF NoRival
<1> DEFINE h == x.height
           r2 == x.round
           b1 == y.block
           b2 == x.block
<1>0. /\ h \in Nat /\ r1 \in Nat /\ r2 \in Nat /\ r1 < r2
      /\ b1 # Nil /\ b1 # b2
  <2>1. x \in Messages
    BY FaultyAssumption, FieldTypes DEF Cast, Inv
  <2>. QED
    BY <2>1, MessageTypes
<1> HIDE DEF h, r2, b1, b2
<1>1. PICK Q \in Quorums : \A m \in Q \cap Correct :
          ~Past(cs'[m], h, r1) \/ HasPrecommitted(cs'[m], h, r1, b1)
  BY DEF Choosable, h, b1
<1>2. PICK m \in Correct : m \in Q /\ m \in Backers(Cast', "prevote", h, r2, b2)
  BY QuorumsMeet DEF PolkaIn, h, r2, b2
<1>3. PICK w \in Cast' : /\ w.type = "prevote" /\ w.height = h /\ w.round = r2
                         /\ w.block = b2 /\ w.val = m
  BY <1>2 DEF Backers
<1>4. w \in cs'[m].signed
  <2>1. \A n \in Correct : \A v \in cs'[n].signed : v.val = n
    BY DEF Accounted, Grounded, SignedOK
  <2>2. w \notin FaultyMsgs
    BY <1>3, FaultyAssumption
  <2>3. PICK n \in Correct : w \in cs'[n].signed
    BY <2>2 DEF Cast
  <2>. QED
    BY <1>3, <2>1, <2>3
<1>5. Past(cs'[m], h, r1)
  <2>1. cs'[m] \in ConsensusStates /\ SignedAt(w, cs'[m])
    BY <1>4 DEF Advances, NodeOK
  <2>2. cs'[m].height \in Nat /\ cs'[m].round \in Nat
    BY <2>1, FieldTypes
  <2>. QED
    BY <1>0, <1>3, <2>1, <2>2 DEF SignedAt, Past
<1>6. PICK v \in cs'[m].signed : /\ v.type = "precommit" /\ v.height = h
                                 /\ v.round = r1 /\ v.block = b1
  BY <1>1, <1>2, <1>5 DEF HasPrecommitted
<1>7. PICK u \in Cast : /\ u.round > r1 /\ u.block # b1
                        /\ PolkaIn(Cast, h, u.round, u.block)
  <2>1. Kept(Cast, cs'[m].signed)
    BY DEF Accounted, Grounded
  <2>. QED
    BY <1>0, <1>3, <1>4, <1>6, <2>1 DEF Kept
<1>8. u.round \in Nat /\ Cast \in SUBSET Votes
  BY CastVotes DEF Votes
<1>9. PolkaIn(Cast, h, r1, b1)
  <2>1. SignedOK(m, Cast, cs'[m].signed)
    BY DEF Accounted, Grounded
  <2>. QED
    BY <1>0, <1>6, <2>1 DEF SignedOK
<1>10. Choosable(h, r1, b1)
  BY <1>0, ChoosableBefore DEF h, b1
<1>. QED
  BY <1>0, <1>7, <1>8, <1>9, <1>10, NoRivalFor

(* A new node is safe, and nothing has been cast.                           *)
LEMMA InitSafety ==
    ASSUME Init, Inv
    PROVE  SafetyInv
<1> DEFINE s == NewConsensusState
           ti == [height |-> InitialHeight, round |-> 0, step |-> RoundStepNewHeight]
<1>1. cs = [n \in Correct |-> s] /\ net = {}
  BY DEF Init
<1>2. /\ s.halted = FALSE /\ s.votes = {} /\ s.lockedBlock = Nil
      /\ s.validBlock = Nil /\ s.signed = {} /\ s.internalMsgQueue = <<>>
      /\ s.lastBlock = Nil /\ s.blockStore = <<>> /\ s.ticks = {ti}
      /\ s.height = 1 /\ s.round = 0 /\ s.step = 1
  BY DEF NewConsensusState, InitialHeight, RoundStepNewHeight
<1>3. ti.step = RoundStepNewHeight
  OBVIOUS
<1> HIDE DEF s, ti
<1>4. \A n : Accounted(n, Cast, s)
  <2>1. TimersOK(s.ticks)
    BY <1>2, <1>3 DEF TimersOK
  <2>2. /\ StoreOK(Cast, s.lastBlock, s.blockStore)
        /\ QueueOK(s.internalMsgQueue, s.signed)
    BY <1>2 DEF StoreOK, QueueOK, Nil
  <2>. QED
    BY <1>2, <2>1, <2>2 DEF Accounted, Grounded, VotesOK, Backed, SignedOK, Held, Kept, LastCommitOK
<1>5. \A h, r, b : ~PolkaIn(Cast, h, r, b)
  <2>1. Cast \subseteq FaultyMsgs
    BY <1>1, <1>2 DEF Cast
  <2> SUFFICES ASSUME NEW h, NEW r, NEW b, PolkaIn(Cast, h, r, b)
               PROVE  FALSE
    OBVIOUS
  <2>2. PICK m \in Correct : m \in Backers(Cast, "prevote", h, r, b)
    BY QuorumsMeet DEF PolkaIn
  <2>. QED
    BY <2>1, <2>2, FaultyAssumption DEF Backers
<1>. QED
  BY <1>1, <1>4, <1>5 DEF SafetyInv, NoRival

(* Every step keeps the safety invariant.                                   *)
LEMMA SafetyStep ==
    ASSUME Inv, SafetyInv, [Next]_vars
    PROVE  SafetyInv'
<1>1. CASE Next
  <2>1. Inv' /\ \A n \in Correct : Advances(cs[n], cs'[n])
    BY <1>1, NextStep
  <2>2. /\ \A n \in Correct : Accounted(n, Cast, cs'[n])
        /\ \A m \in net' : m.type # "proposal" => m \in Cast
    BY <1>1, NextSafe
  <2>3. Cast \in SUBSET Votes /\ Cast \subseteq Cast'
    BY <2>1, CastVotes, CastGrows
  <2>4. Cast' \in SUBSET Votes
    <3> SUFFICES ASSUME NEW m \in Cast'
                 PROVE  m \in Votes
      OBVIOUS
    <3>1. m \in Messages /\ m.type # "proposal"
      BY <2>1, FaultyAssumption, FieldTypes DEF Cast, Inv
    <3>. QED
      BY <3>1 DEF Messages, Proposals
  <2>5. \A n \in Correct : Accounted(n, Cast', cs'[n])
    BY <2>2, <2>3, <2>4, AccountedGrows
  <2>6. NoRival'
    BY <2>1, <2>2, NoRivalStep
  <2>. QED
    BY <2>2, <2>3, <2>5, <2>6 DEF SafetyInv
<1>2. CASE UNCHANGED vars
  <2>1. cs' = cs /\ net' = net
    BY <1>2 DEF vars
  <2>2. Cast' = Cast
    BY <2>1 DEF Cast
  <2>3. NoRival'
    BY <2>1, <2>2 DEF SafetyInv, NoRival, Choosable
  <2>. QED
    BY <2>1, <2>2, <2>3 DEF SafetyInv
<1>. QED
  BY <1>1, <1>2

(* The safety invariant holds in every reachable state.                     *)
THEOREM Safety == Spec => [](Inv /\ SafetyInv)
<1>1. Init => Inv /\ SafetyInv
  BY InitInv, InitSafety
<1>2. Inv /\ SafetyInv /\ [Next]_vars => SafetyInv'
  BY SafetyStep
<1>. QED
  BY <1>1, <1>2, Invariance, PTL DEF Spec

-----------------------------------------------------------------------------
(* Every part of a stored chain is decided by the votes cast.               *)
LEMMA PrefixIsTip ==
    ASSUME NEW n, NEW K \in SUBSET Votes, NEW s \in ConsensusStates, Accounted(n, K, s),
           NEW h \in 0..Len(s.lastBlock)
    PROVE  Tip(K, SubSeq(s.lastBlock, 1, h)) /\ SubSeq(s.lastBlock, 1, h) \in Blocks
<1>1. s.lastBlock \in Blocks
  BY FieldTypes
<1>2. SubSeq(s.lastBlock, 1, h) \in Blocks
  BY <1>1 DEF Blocks
<1>3. CASE h = 0
  BY <1>1, <1>3 DEF Tip, Nil, Blocks
<1>4. CASE h # 0
  <2>1. h \in 1..Len(s.lastBlock)
    BY <1>1, <1>4 DEF Blocks
  <2>2. /\ s.blockStore[h].block = SubSeq(s.lastBlock, 1, h)
        /\ s.blockStore[h].commit \subseteq K
        /\ VerifyCommit(s.blockStore[h])
    BY <2>1 DEF Accounted, Grounded, StoreOK
  <2>3. Tip(K, s.blockStore[h].block)
    BY <2>2, VerifiedIsTip
  <2>. QED
    BY <1>2, <2>2, <2>3
<1>. QED
  BY <1>2, <1>3, <1>4

(* Of two chains one is a prefix of the other.                              *)
LEMMA PrefixAgrees ==
    ASSUME Inv, SafetyInv, NEW n, NEW s \in ConsensusStates, Accounted(n, Cast, s),
           NEW m, NEW t \in ConsensusStates, Accounted(m, Cast, t),
           Len(s.lastBlock) <= Len(t.lastBlock)
    PROVE  Chain!IsPrefixOf(s.lastBlock, t.lastBlock)
<1> DEFINE k == Len(s.lastBlock)
           a == SubSeq(s.lastBlock, 1, k)
           b == SubSeq(t.lastBlock, 1, k)
<1>1. s.lastBlock \in Blocks /\ t.lastBlock \in Blocks
  BY FieldTypes
<1>2. k \in Nat /\ k \in 0..Len(s.lastBlock) /\ k \in 0..Len(t.lastBlock)
  BY <1>1 DEF Blocks
<1>3. a = s.lastBlock
  BY <1>1, SubSeqFull DEF Blocks
<1>4. Cast \in SUBSET Votes
  BY CastVotes
<1>5. /\ Tip(Cast, a) /\ a \in Blocks
      /\ Tip(Cast, b) /\ b \in Blocks
  BY <1>2, <1>4, PrefixIsTip
<1>6. Len(a) = k /\ Len(b) = k
  BY <1>1, <1>2 DEF Blocks
<1> HIDE DEF a, b
<1>7. a = b
  BY <1>5, <1>6, TipsAgree
<1>. QED
  BY <1>3, <1>7 DEF Chain!IsPrefixOf, b

(* Two correct nodes never commit different blocks at one height, however   *)
(* many rounds, proposers and block sync replies lie between them.          *)
THEOREM AgreementHolds == Spec => []Agreement
<1>1. ASSUME Inv, SafetyInv
      PROVE  Agreement
  <2> SUFFICES ASSUME NEW n \in Correct, NEW m \in Correct,
                      NEW h \in 1..Len(cs[n].lastBlock), h <= Len(cs[m].lastBlock)
               PROVE  cs[n].lastBlock[h] = cs[m].lastBlock[h]
    BY DEF Agreement
  <2>1. /\ cs[n] \in ConsensusStates /\ Accounted(n, Cast, cs[n])
        /\ cs[m] \in ConsensusStates /\ Accounted(m, Cast, cs[m])
    BY <1>1 DEF Inv, SafetyInv
  <2> DEFINE a == cs[n].lastBlock
             b == cs[m].lastBlock
  <2>2. a \in Blocks /\ b \in Blocks
    BY <2>1, FieldTypes
  <2>3. CASE Len(a) <= Len(b)
    <3>1. Chain!IsPrefixOf(a, b)
      BY <1>1, <2>1, <2>3, PrefixAgrees
    <3>. QED
      BY <2>2, <2>3, <3>1 DEF Chain!IsPrefixOf, Blocks
  <2>4. CASE Len(b) <= Len(a)
    <3>1. Chain!IsPrefixOf(b, a)
      BY <1>1, <2>1, <2>4, PrefixAgrees
    <3>. QED
      BY <2>2, <2>4, <3>1 DEF Chain!IsPrefixOf, Blocks
  <2>. QED
    BY <2>2, <2>3, <2>4 DEF Blocks
<1>. QED
  BY <1>1, Safety, PTL

(* No CONSENSUS FAILURE of the code's own making: none of the panics of the *)
(* enter functions, of finalizeCommit and of updateToState is reachable;    *)
(* receiveRoutine dies at a nil LastCommit or a missing vote set only.      *)
THEOREM PanicsOnlyAtNil == Spec => []PanicsAtNilOnly
<1>1. SafetyInv => PanicsAtNilOnly
  BY DEF SafetyInv, Accounted, PanicsAtNilOnly
<1>. QED
  BY <1>1, Safety, PTL

(* A precommit for a block binds the node to its lock until a later polka   *)
(* releases it: what enterPrecommit, addVote and updateToState may do to    *)
(* lockedBlock.                                                             *)
THEOREM LocksAreHeld == Spec => []LockHeld
<1>1. ASSUME SafetyInv
      PROVE  LockHeld
  <2> SUFFICES ASSUME NEW n \in Correct, NEW v \in cs[n].signed, v.type = "precommit",
                      v.block # Nil, v.height = cs[n].height
               PROVE  \/ cs[n].lockedBlock = v.block /\ cs[n].lockedRound >= v.round
                      \/ \E r \in v.round + 1 .. cs[n].round :
                             TwoThirdsMajority(Prevotes(cs[n], r)) \ {v.block} # {}
    BY DEF LockHeld
  <2>1. Held(cs[n].signed, cs[n].votes, cs[n].height, cs[n].round,
             cs[n].lockedRound, cs[n].lockedBlock)
    BY <1>1 DEF SafetyInv, Accounted, Grounded
  <2>. QED
    BY <2>1, PolkaOfState DEF Held
<1>. QED
  BY <1>1, Safety, PTL

(* Locks, valid blocks and precommits rest on polkas the node has seen.     *)
THEOREM PolkasJustify == Spec => []JustifiedByPolka
<1>1. ASSUME SafetyInv
      PROVE  JustifiedByPolka
  <2> SUFFICES ASSUME NEW n \in Correct
               PROVE  /\ cs[n].lockedBlock # Nil => cs[n].lockedBlock
                            \in TwoThirdsMajority(Prevotes(cs[n], cs[n].lockedRound))
                      /\ cs[n].validBlock # Nil => cs[n].validBlock
                            \in TwoThirdsMajority(Prevotes(cs[n], cs[n].validRound))
                      /\ \A v \in cs[n].signed :
                             (/\ v.type = "precommit" /\ v.height = cs[n].height
                              /\ v.block # Nil)
                             => v.block \in TwoThirdsMajority(Prevotes(cs[n], v.round))
    BY DEF JustifiedByPolka
  <2>1. Accounted(n, Cast, cs[n])
    BY <1>1 DEF SafetyInv
  <2>. QED
    BY <2>1, PolkaOfState DEF Accounted, Grounded, Backed, Held
<1>. QED
  BY <1>1, Safety, PTL

(* Store, chain state and LastCommit move together on every commit path.    *)
THEOREM StoreFollowsChain == Spec => []StoreMatchesChain
<1>1. ASSUME Inv, SafetyInv
      PROVE  StoreMatchesChain
  <2> SUFFICES ASSUME NEW n \in Correct
               PROVE  LET s == cs[n]
                          k == Len(s.lastBlock)
                      IN  /\ Len(s.blockStore) = k /\ s.height = k + 1
                          /\ \A h \in 1..k :
                                 LET fb == s.blockStore[h]
                                 IN  /\ fb.block = SubSeq(s.lastBlock, 1, h)
                                     /\ fb.block \in TwoThirdsMajority(fb.commit)
                          /\ k > 0 => s.lastBlock \in TwoThirdsMajority(s.lastCommit)
    BY DEF StoreMatchesChain
  <2>1. NodeOK(cs[n]) /\ Accounted(n, Cast, cs[n])
    BY <1>1 DEF Inv, SafetyInv
  <2>2. Len(cs[n].lastBlock) > 0 => cs[n].lastBlock # Nil
    BY DEF Nil
  <2>. QED
    BY <2>1, <2>2 DEF NodeOK, Accounted, Grounded, StoreOK, LastCommitOK, VerifyCommit
<1>. QED
  BY <1>1, Safety, PTL

(* The consensus of the nodes, with its rounds, votes, locks and block      *)
(* sync, implements a replicated chain.                                     *)
THEOREM ConsensusImplementsChain == Spec => ImplementsChain
<1>1. Init => Chain!Init
  BY DEF Init, Chain!Init, NewConsensusState, Nil
<1>2. ASSUME Inv, SafetyInv, [Next]_vars
      PROVE  [Chain!Next]_([n \in Correct |-> cs[n].lastBlock])
  <2> DEFINE chain == [n \in Correct |-> cs[n].lastBlock]
             chainNext == [n \in Correct |-> cs'[n].lastBlock]
  <2> SUFFICES ASSUME chainNext # chain
               PROVE  Chain!Next
    OBVIOUS
  <2>1. Next
    BY <1>2 DEF vars
  <2>2. /\ Inv' /\ \A m \in Correct : Accounted(m, Cast, cs'[m])
    BY <1>2, <2>1, NextStep, NextSafe
  <2>3. PICK n \in Correct : /\ Grows(cs[n], cs'[n])
                             /\ \A m \in Correct \ {n} : cs'[m] = cs[m]
    BY <1>2, <2>1, NextSafe
  <2>4. PICK c \in ValidContents : cs'[n].lastBlock = Append(cs[n].lastBlock, c)
    BY <2>3 DEF Grows, Follows
  <2> DEFINE longer == Append(chain[n], c)
  <2>5. chainNext = [chain EXCEPT ![n] = longer]
    BY <2>3, <2>4
  <2>6. ASSUME NEW m \in Correct
        PROVE  Chain!IsPrefixOf(longer, chain[m]) \/ Chain!IsPrefixOf(chain[m], longer)
    <3>1. /\ cs[m] \in ConsensusStates /\ Accounted(m, Cast, cs[m])
          /\ cs'[n] \in ConsensusStates /\ Accounted(n, Cast, cs'[n])
      BY <1>2, <2>2 DEF Inv, SafetyInv
    <3>2. cs'[n].lastBlock = longer /\ cs[m].lastBlock = chain[m]
      BY <2>4
    <3>3. Len(longer) \in Nat /\ Len(chain[m]) \in Nat
      BY <3>1, <3>2, FieldTypes DEF Blocks
    <3> HIDE DEF longer, chain
    <3>4. CASE Len(longer) <= Len(chain[m])
      BY <1>2, <3>1, <3>2, <3>4, PrefixAgrees
    <3>5. CASE Len(chain[m]) <= Len(longer)
      BY <1>2, <3>1, <3>2, <3>5, PrefixAgrees
    <3>. QED
      BY <3>3, <3>4, <3>5
  <2>7. Chain!Extend(n)
    BY <2>5, <2>6 DEF Chain!Extend
  <2>. QED
    BY <2>7 DEF Chain!Next
<1>. QED
  BY <1>1, <1>2, Safety, PTL DEF Spec, ImplementsChain, Chain!Spec
=============================================================================

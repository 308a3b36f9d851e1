-------------------------- MODULE ConsensusProofs --------------------------
(***************************************************************************)
(* What holds of Consensus for every validator set, quorum system, height, *)
(* round and behaviour of the faulty validators: the state stays well      *)
(* typed, no node ever goes back, and no correct validator signs twice.    *)
(*                                                                         *)
(* NoEquivocation is not inductive.  A node signs its vote for the round   *)
(* it is in, not for the round of the timeout or message that made it      *)
(* sign, so the proof needs that no timer is ahead of the round of its     *)
(* node (TickReached), and that what was signed so far lies behind the     *)
(* present step (SignedAt).  A block may be applied at any step, so it     *)
(* also needs that it moves the height by exactly one.  NodeOK is these    *)
(* facts about one node.  Every operator of ConsensusState is shown to     *)
(* keep them and to move the node forward (Advances), a cascade is a chain *)
(* of such steps, and each action of Consensus is a cascade of one node.   *)
(***************************************************************************)
EXTENDS Consensus, TLAPS

(* Node state t is at the height, round and step of s or beyond.            *)
Forward(s, t) ==
    \/ t.height > s.height
    \/ /\ t.height = s.height
       /\ \/ t.round > s.round
          \/ t.round = s.round /\ t.step >= s.step

(* The step of the state machine in which a message is signed.              *)
StepOf(m) == IF m.type = "proposal" THEN RoundStepPropose
             ELSE IF m.type = "prevote" THEN RoundStepPrevote
             ELSE RoundStepPrecommit

(* The slot of message m is at or behind the place of a node in state s.    *)
SignedAt(m, s) ==
    \/ m.height < s.height
    \/ /\ m.height = s.height
       /\ \/ m.round < s.round
          \/ m.round = s.round /\ StepOf(m) <= s.step

(* A node in state s has reached the round of timer ti.                     *)
TickReached(ti, s) ==
    ti.height < s.height \/ (ti.height = s.height /\ ti.round <= s.round)

(* Two messages only one of which a correct validator may sign.             *)
SameSlot(v, w) == v.type = w.type /\ v.height = w.height /\ v.round = w.round

(* The inductive invariant of one node.                                     *)
NodeOK(s) ==
    /\ s \in ConsensusStates
    /\ s.height = Len(s.lastBlock) + 1
    /\ \A ti \in s.ticks : TickReached(ti, s)
    /\ \A m \in s.signed : SignedAt(m, s)
    /\ \A v, w \in s.signed : SameSlot(v, w) => v = w

(* What t has signed beyond s was ahead of s, and nothing is unsigned.      *)
SignsAhead(s, t) ==
    /\ s.signed \subseteq t.signed
    /\ \A m \in t.signed : m \in s.signed \/ ~SignedAt(m, s)

(* t is a good state, not behind s, with new signatures for new slots only. *)
Advances(s, t) == NodeOK(t) /\ Forward(s, t) /\ SignsAhead(s, t)

(* The precondition of the enter functions: round r is not ahead of the     *)
(* node (or they return early for another reason).                          *)
Reached(s, h, r) == s.halted \/ s.height # h \/ r <= s.round

-----------------------------------------------------------------------------
(* A node state stays one when one field gets another value of its type;    *)
(* an assignment to several fields is a chain of these.                     *)
LEMMA HeightUpdate ==
    ASSUME NEW s \in ConsensusStates, NEW x \in Nat
    PROVE  [s EXCEPT !.height = x] \in ConsensusStates
  BY DEF ConsensusStates

LEMMA RoundUpdate ==
    ASSUME NEW s \in ConsensusStates, NEW x \in Nat
    PROVE  [s EXCEPT !.round = x] \in ConsensusStates
  BY DEF ConsensusStates

LEMMA StepUpdate ==
    ASSUME NEW s \in ConsensusStates, NEW x \in RoundStepType
    PROVE  [s EXCEPT !.step = x] \in ConsensusStates
  BY DEF ConsensusStates

LEMMA ProposalUpdate ==
    ASSUME NEW s \in ConsensusStates, NEW x \in Proposals \cup {NoProposal}
    PROVE  [s EXCEPT !.proposal = x] \in ConsensusStates
  BY DEF ConsensusStates

LEMMA ProposalBlockUpdate ==
    ASSUME NEW s \in ConsensusStates, NEW x \in Blocks
    PROVE  [s EXCEPT !.proposalBlock = x] \in ConsensusStates
  BY DEF ConsensusStates

LEMMA LockedRoundUpdate ==
    ASSUME NEW s \in ConsensusStates, NEW x \in Rounds
    PROVE  [s EXCEPT !.lockedRound = x] \in ConsensusStates
  BY DEF ConsensusStates

LEMMA LockedBlockUpdate ==
    ASSUME NEW s \in ConsensusStates, NEW x \in Blocks
    PROVE  [s EXCEPT !.lockedBlock = x] \in ConsensusStates
  BY DEF ConsensusStates

LEMMA ValidRoundUpdate ==
    ASSUME NEW s \in ConsensusStates, NEW x \in Rounds
    PROVE  [s EXCEPT !.validRound = x] \in ConsensusStates
  BY DEF ConsensusStates

LEMMA ValidBlockUpdate ==
    ASSUME NEW s \in ConsensusStates, NEW x \in Blocks
    PROVE  [s EXCEPT !.validBlock = x] \in ConsensusStates
  BY DEF ConsensusStates

LEMMA VotesUpdate ==
    ASSUME NEW s \in ConsensusStates, NEW x \in SUBSET Votes
    PROVE  [s EXCEPT !.votes = x] \in ConsensusStates
  BY DEF ConsensusStates

LEMMA CommitRoundUpdate ==
    ASSUME NEW s \in ConsensusStates, NEW x \in Rounds
    PROVE  [s EXCEPT !.commitRound = x] \in ConsensusStates
  BY DEF ConsensusStates

LEMMA LastCommitUpdate ==
    ASSUME NEW s \in ConsensusStates, NEW x \in SUBSET Votes
    PROVE  [s EXCEPT !.lastCommit = x] \in ConsensusStates
  BY DEF ConsensusStates

LEMMA TriggeredUpdate ==
    ASSUME NEW s \in ConsensusStates, NEW x \in BOOLEAN
    PROVE  [s EXCEPT !.triggeredTimeoutPrecommit = x] \in ConsensusStates
  BY DEF ConsensusStates

LEMMA LastBlockUpdate ==
    ASSUME NEW s \in ConsensusStates, NEW x \in Blocks
    PROVE  [s EXCEPT !.lastBlock = x] \in ConsensusStates
  BY DEF ConsensusStates

LEMMA BlockStoreUpdate ==
    ASSUME NEW s \in ConsensusStates, NEW x \in Seq(FullBlocks)
    PROVE  [s EXCEPT !.blockStore = x] \in ConsensusStates
  BY DEF ConsensusStates

LEMMA QueueUpdate ==
    ASSUME NEW s \in ConsensusStates, NEW x \in Seq(Messages)
    PROVE  [s EXCEPT !.internalMsgQueue = x] \in ConsensusStates
  BY DEF ConsensusStates

LEMMA TicksUpdate ==
    ASSUME NEW s \in ConsensusStates, NEW x \in SUBSET Ticks
    PROVE  [s EXCEPT !.ticks = x] \in ConsensusStates
  BY DEF ConsensusStates

LEMMA SignedUpdate ==
    ASSUME NEW s \in ConsensusStates, NEW x \in SUBSET Messages
    PROVE  [s EXCEPT !.signed = x] \in ConsensusStates
  BY DEF ConsensusStates

LEMMA HaltedUpdate ==
    ASSUME NEW s \in ConsensusStates, NEW x \in BOOLEAN
    PROVE  [s EXCEPT !.halted = x] \in ConsensusStates
  BY DEF ConsensusStates

(* The types of the fields of a node state.                                 *)
LEMMA FieldTypes ==
    ASSUME NEW s \in ConsensusStates
    PROVE  /\ s.height \in Nat /\ s.round \in Nat /\ s.step \in RoundStepType
           /\ s.proposal \in Proposals \cup {NoProposal}
           /\ s.proposalBlock \in Blocks
           /\ s.lockedRound \in Rounds /\ s.lockedBlock \in Blocks
           /\ s.validRound \in Rounds /\ s.validBlock \in Blocks
           /\ s.votes \subseteq Votes /\ s.commitRound \in Rounds
           /\ s.lastCommit \subseteq Votes
           /\ s.lastBlock \in Blocks /\ s.blockStore \in Seq(FullBlocks)
           /\ s.internalMsgQueue \in Seq(Messages)
           /\ s.ticks \subseteq Ticks /\ s.signed \subseteq Messages
           /\ s.halted \in BOOLEAN /\ s.triggeredTimeoutPrecommit \in BOOLEAN
  BY DEF ConsensusStates

(* To stay is to move forward: the early returns.                           *)
LEMMA ForwardReflexive ==
    ASSUME NEW s \in ConsensusStates
    PROVE  Forward(s, s)
  BY FieldTypes DEF Forward, RoundStepType

(* Two moves forward are one.                                               *)
LEMMA ForwardTransitive ==
    ASSUME NEW s \in ConsensusStates, NEW t \in ConsensusStates,
           NEW u \in ConsensusStates, Forward(s, t), Forward(t, u)
    PROVE  Forward(s, u)
<1>1. /\ s.height \in Nat /\ s.round \in Nat /\ s.step \in RoundStepType
      /\ t.height \in Nat /\ t.round \in Nat /\ t.step \in RoundStepType
      /\ u.height \in Nat /\ u.round \in Nat /\ u.step \in RoundStepType
  BY FieldTypes
<1>. QED
  BY <1>1 DEF Forward, RoundStepType

(* A round that has been reached stays reached.                             *)
LEMMA StillReached ==
    ASSUME NEW s \in ConsensusStates, NEW t \in ConsensusStates, Forward(s, t),
           NEW ti \in Ticks, TickReached(ti, s)
    PROVE  TickReached(ti, t)
<1>1. /\ s.height \in Nat /\ s.round \in Nat /\ s.step \in RoundStepType
      /\ t.height \in Nat /\ t.round \in Nat /\ t.step \in RoundStepType
  BY FieldTypes
<1>2. ti.height \in Nat /\ ti.round \in Nat
  BY DEF Ticks
<1>. QED
  BY <1>1, <1>2 DEF Forward, TickReached, RoundStepType

(* Height, round and step of a message.                                     *)
LEMMA MessageTypes ==
    ASSUME NEW m \in Messages
    PROVE  m.height \in Nat /\ m.round \in Nat /\ StepOf(m) \in 3..6
<1>1. m.height \in Nat /\ m.round \in Nat
  BY DEF Messages, Votes, Proposals
<1>2. StepOf(m) \in 3..6
  BY DEF StepOf, RoundStepPropose, RoundStepPrevote, RoundStepPrecommit
<1>. QED
  BY <1>1, <1>2

(* A slot that lies behind stays behind.                                    *)
LEMMA StillSigned ==
    ASSUME NEW s \in ConsensusStates, NEW t \in ConsensusStates, Forward(s, t),
           NEW m \in Messages, SignedAt(m, s)
    PROVE  SignedAt(m, t)
<1>1. /\ s.height \in Nat /\ s.round \in Nat /\ s.step \in RoundStepType
      /\ t.height \in Nat /\ t.round \in Nat /\ t.step \in RoundStepType
  BY FieldTypes
<1>2. m.height \in Nat /\ m.round \in Nat /\ StepOf(m) \in 3..6
  BY MessageTypes
<1>. QED
  BY <1>1, <1>2 DEF Forward, SignedAt, RoundStepType

(* A cascade of two good steps is a good step.                              *)
LEMMA AdvancesTransitive ==
    ASSUME NEW s, NEW t, NEW u, NodeOK(s), Advances(s, t), Advances(t, u)
    PROVE  Advances(s, u)
<1>1. s \in ConsensusStates /\ t \in ConsensusStates /\ u \in ConsensusStates
  BY DEF Advances, NodeOK
<1>2. Forward(s, t) /\ Forward(t, u) /\ Forward(s, u)
  BY <1>1, ForwardTransitive DEF Advances
<1>3. ASSUME NEW m \in u.signed
      PROVE  m \in s.signed \/ ~SignedAt(m, s)
  <2>1. m \in Messages
    BY <1>1, FieldTypes
  <2>2. m \in t.signed \/ ~SignedAt(m, s)
    BY <1>1, <1>2, <2>1, StillSigned DEF Advances, SignsAhead
  <2>. QED
    BY <2>2 DEF Advances, SignsAhead
<1>. QED
  BY <1>2, <1>3 DEF Advances, SignsAhead

(* Doing nothing is a good step.                                            *)
LEMMA AdvancesReflexive ==
    ASSUME NEW s, NodeOK(s)
    PROVE  Advances(s, s)
  BY ForwardReflexive DEF Advances, NodeOK, SignsAhead

(* What an update owes the invariant: it moves forward, its new timers are  *)
(* for rounds reached, and it signs at most one message, for a slot that    *)
(* was ahead and is then behind.                                            *)
LEMMA StepAdvances ==
    ASSUME NEW s, NodeOK(s), NEW t \in ConsensusStates, Forward(s, t),
           t.height = Len(t.lastBlock) + 1,
           \A ti \in t.ticks : ti \in s.ticks \/ TickReached(ti, t),
           \/ t.signed = s.signed
           \/ \E m \in Messages :
                  t.signed = s.signed \cup {m} /\ ~SignedAt(m, s) /\ SignedAt(m, t)
    PROVE  Advances(s, t)
<1>0. s \in ConsensusStates /\ s.signed \subseteq Messages
      /\ s.ticks \subseteq Ticks /\ t.ticks \subseteq Ticks
  BY FieldTypes DEF NodeOK
<1>1. \A ti \in t.ticks : TickReached(ti, t)
  BY <1>0, StillReached DEF NodeOK
<1>2. \A m \in s.signed : SignedAt(m, t)
  BY <1>0, StillSigned DEF NodeOK
<1>3. \A m \in t.signed : SignedAt(m, t)
  BY <1>2
<1>4. \A v, w \in t.signed : SameSlot(v, w) => v = w
  <2>1. \A v, w \in s.signed : SameSlot(v, w) => v = w
    BY DEF NodeOK
  <2>2. CASE t.signed = s.signed
    BY <2>1, <2>2
  <2>3. CASE \E m \in Messages : t.signed = s.signed \cup {m} /\ ~SignedAt(m, s)
    <3>1. PICK m \in Messages : t.signed = s.signed \cup {m} /\ ~SignedAt(m, s)
      BY <2>3
    <3>2. \A v \in s.signed : ~SameSlot(v, m) /\ ~SameSlot(m, v)
      <4>1. SUFFICES ASSUME NEW v \in s.signed, SameSlot(v, m) \/ SameSlot(m, v)
                     PROVE  FALSE
        OBVIOUS
      <4>2. v.type = m.type /\ v.height = m.height /\ v.round = m.round
        BY <4>1 DEF SameSlot
      <4>3. SignedAt(v, s)
        BY DEF NodeOK
      <4>4. SignedAt(m, s)
        BY <4>2, <4>3 DEF SignedAt, StepOf
      <4>. QED
        BY <3>1, <4>4
    <3>. QED
      BY <2>1, <3>1, <3>2
  <2>. QED
    BY <2>2, <2>3
<1>. QED
  BY <1>1, <1>3, <1>4 DEF Advances, NodeOK, SignsAhead

(* HeightVoteSet holds votes.                                               *)
LEMMA VoteSetTypes ==
    ASSUME NEW s \in ConsensusStates, NEW r
    PROVE  Prevotes(s, r) \subseteq Votes /\ Precommits(s, r) \subseteq Votes
  BY FieldTypes DEF Prevotes, Precommits

(* A majority of votes is for a block or nil.                               *)
LEMMA MajorityTypes ==
    ASSUME NEW voteSet \in SUBSET Votes
    PROVE  TwoThirdsMajority(voteSet) \subseteq Blocks
  BY DEF TwoThirdsMajority, Votes

(* The nil block is a block of the model.                                   *)
LEMMA NilType == Nil \in Blocks
  BY DEF Nil, Blocks

(* sendInternalMessage signs m and changes nothing else that matters here.  *)
LEMMA SendInternalMessageStep ==
    ASSUME NEW s \in ConsensusStates, NEW m \in Messages
    PROVE  LET t == SendInternalMessage(s, m)
           IN  /\ t \in ConsensusStates
               /\ t.height = s.height /\ t.round = s.round /\ t.step = s.step
               /\ t.ticks = s.ticks /\ t.lastBlock = s.lastBlock
               /\ t.halted = s.halted /\ t.signed = s.signed \cup {m}
<1> DEFINE q == Append(s.internalMsgQueue, m)
           g == s.signed \cup {m}
<1>1. q \in Seq(Messages) /\ g \in SUBSET Messages
  BY FieldTypes
<1>2. SendInternalMessage(s, m) = [[s EXCEPT !.internalMsgQueue = q] EXCEPT !.signed = g]
  BY DEF SendInternalMessage
<1> HIDE DEF q, g
<1>3. [s EXCEPT !.internalMsgQueue = q] \in ConsensusStates
  BY <1>1, QueueUpdate
<1>4. SendInternalMessage(s, m) \in ConsensusStates
  BY <1>1, <1>2, <1>3, SignedUpdate
<1>. QED
  BY <1>4 DEF SendInternalMessage, ConsensusStates

(* signAddVote signs at most one vote, for the round the node is in.        *)
LEMMA SignAddVoteStep ==
    ASSUME NEW s \in ConsensusStates, NEW n,
           NEW type \in {"prevote", "precommit"}, NEW b \in Blocks
    PROVE  LET t == SignAddVote(n, s, type, b)
               v == [type |-> type, height |-> s.height, round |-> s.round,
                     block |-> b, val |-> n]
           IN  /\ t \in ConsensusStates
               /\ t.height = s.height /\ t.round = s.round /\ t.step = s.step
               /\ t.ticks = s.ticks /\ t.lastBlock = s.lastBlock
               /\ t.halted = s.halted
               /\ \/ t.signed = s.signed
                  \/ v \in Messages /\ t.signed = s.signed \cup {v}
<1> DEFINE v == [type |-> type, height |-> s.height, round |-> s.round,
                 block |-> b, val |-> n]
<1>1. CASE n \notin Validators
  BY <1>1 DEF SignAddVote
<1>2. CASE n \in Validators
  <2>1. v \in Messages
    BY <1>2, FieldTypes DEF Messages, Votes
  <2>2. SignAddVote(n, s, type, b) = SendInternalMessage(s, v)
    BY <1>2 DEF SignAddVote
  <2>. HIDE DEF v
  <2>3. QED
    BY <2>1, <2>2, SendInternalMessageStep DEF v
<1>. QED
  BY <1>1, <1>2

(* scheduleTimeout adds at most the timer asked for.                        *)
LEMMA ScheduleTimeoutStep ==
    ASSUME NEW s \in ConsensusStates, NEW h \in Nat, NEW r \in Nat, NEW step \in RoundStepType
    PROVE  LET t == ScheduleTimeout(s, h, r, step)
           IN  /\ t \in ConsensusStates
               /\ t.height = s.height /\ t.round = s.round /\ t.step = s.step
               /\ t.signed = s.signed /\ t.lastBlock = s.lastBlock
               /\ t.halted = s.halted
               /\ t.ticks \subseteq
                      s.ticks \cup {[height |-> h, round |-> r, step |-> step]}
<1> DEFINE ti == [height |-> h, round |-> r, step |-> step]
           T == s.ticks \cup {ti}
<1>1. T \in SUBSET Ticks
  BY FieldTypes DEF Ticks
<1>2. ScheduleTimeout(s, h, r, step) \in {s, [s EXCEPT !.ticks = T]}
  BY DEF ScheduleTimeout
<1>3. [s EXCEPT !.ticks = T].ticks = T
  BY DEF ConsensusStates
<1>4. T = s.ticks \cup {[height |-> h, round |-> r, step |-> step]}
  OBVIOUS
<1> HIDE DEF T, ti
<1>5. [s EXCEPT !.ticks = T] \in ConsensusStates
  BY <1>1, TicksUpdate
<1>. QED
  BY <1>2, <1>3, <1>4, <1>5 DEF ConsensusStates

(* A panic leaves the node where it is, halted.                             *)
LEMMA PanicStep ==
    ASSUME NEW s, NodeOK(s)
    PROVE  /\ Advances(s, Panic(s))
           /\ Panic(s).height = s.height /\ Panic(s).halted
<1>1. s \in ConsensusStates /\ TRUE \in BOOLEAN
  BY DEF NodeOK
<1>2. Panic(s) \in ConsensusStates
  <2>1. \A x \in BOOLEAN : [s EXCEPT !.halted = x] \in ConsensusStates
    BY <1>1, HaltedUpdate
  <2>. QED
    BY <2>1 DEF Panic
<1>3. /\ Panic(s).height = s.height /\ Panic(s).round = s.round
      /\ Panic(s).step = s.step /\ Panic(s).ticks = s.ticks
      /\ Panic(s).signed = s.signed /\ Panic(s).lastBlock = s.lastBlock
      /\ Panic(s).halted
  BY <1>1 DEF Panic, ConsensusStates
<1>4. Forward(s, Panic(s))
  BY <1>1, <1>3, ForwardReflexive DEF Forward, RoundStepType
<1>. QED
  BY <1>2, <1>3, <1>4, StepAdvances DEF NodeOK

-----------------------------------------------------------------------------

(* defaultDoPrevote votes for a block or nil.                               *)
LEMMA PrevoteValueType ==
    ASSUME NEW s \in ConsensusStates
    PROVE  PrevoteValue(s) \in Blocks
  BY FieldTypes, NilType DEF PrevoteValue

(* enterPrevote is a good step when its round is not ahead: the prevote it  *)
(* signs is the first one of its round.                                     *)
LEMMA EnterPrevoteStep ==
    ASSUME NEW n, NEW s, NodeOK(s), NEW h \in Nat, NEW r \in Nat, Reached(s, h, r)
    PROVE  LET t == EnterPrevote(n, s, h, r)
           IN  /\ Advances(s, t)
               /\ t.height = s.height /\ t.halted = s.halted
               /\ t.round >= s.round
<1> DEFINE t == EnterPrevote(n, s, h, r)
<1>0. s \in ConsensusStates /\ s.round \in Nat /\ s.height \in Nat /\ s.step \in RoundStepType
  BY FieldTypes DEF NodeOK
<1>1. CASE Stale(s, h, r, RoundStepPrevote)
  <2>1. t = s
    BY <1>1 DEF EnterPrevote
  <2>. QED
    BY <1>0, <2>1, AdvancesReflexive
<1>2. CASE ~Stale(s, h, r, RoundStepPrevote)
  <2> DEFINE b == PrevoteValue(s)
             u == SignAddVote(n, s, "prevote", b)
             v == [type |-> "prevote", height |-> s.height, round |-> s.round,
                   block |-> b, val |-> n]
  <2>1. s.round = r /\ s.height = h /\ s.step < 4
    BY <1>0, <1>2 DEF Stale, Reached, RoundStepPrevote, RoundStepType
  <2>2. t = [[u EXCEPT !.round = r] EXCEPT !.step = RoundStepPrevote]
    BY <1>2 DEF EnterPrevote
  <2>3. b \in Blocks
    BY <1>0, PrevoteValueType
  <2>4. RoundStepPrevote = 4 /\ RoundStepPrevote \in RoundStepType
    BY DEF RoundStepPrevote, RoundStepType
  <2>5. v.height = s.height /\ v.round = s.round /\ StepOf(v) = 4
    BY DEF StepOf, RoundStepPrevote
  <2> HIDE DEF b, v
  <2>6. /\ u \in ConsensusStates
        /\ u.height = s.height /\ u.round = s.round /\ u.step = s.step
        /\ u.ticks = s.ticks /\ u.lastBlock = s.lastBlock
        /\ u.halted = s.halted
        /\ \/ u.signed = s.signed
           \/ v \in Messages /\ u.signed = s.signed \cup {v}
    BY <1>0, <2>3, SignAddVoteStep DEF v
  <2> HIDE DEF u, t
  <2>7. [u EXCEPT !.round = r] \in ConsensusStates
    BY <2>6, RoundUpdate
  <2>8. t \in ConsensusStates
    BY <2>2, <2>4, <2>7, StepUpdate
  <2>9. /\ t.height = s.height /\ t.round = r /\ t.step = 4
        /\ t.ticks = s.ticks /\ t.lastBlock = s.lastBlock
        /\ t.halted = s.halted /\ t.signed = u.signed
    BY <2>2, <2>4, <2>6 DEF ConsensusStates
  <2>10. ~SignedAt(v, s) /\ SignedAt(v, t) /\ Forward(s, t)
    BY <1>0, <2>1, <2>5, <2>9 DEF SignedAt, Forward, RoundStepType
  <2>11. Advances(s, t)
    BY <2>6, <2>8, <2>9, <2>10, StepAdvances DEF NodeOK
  <2>. QED
    BY <1>0, <2>1, <2>9, <2>11 DEF t
<1>. QED
  BY <1>1, <1>2

(* enterPrevoteWait is a good step when its round is not ahead.             *)
LEMMA EnterPrevoteWaitStep ==
    ASSUME NEW s, NodeOK(s), NEW h \in Nat, NEW r \in Nat, Reached(s, h, r)
    PROVE  Advances(s, EnterPrevoteWait(s, h, r))
<1> DEFINE t == EnterPrevoteWait(s, h, r)
<1>s. s \in ConsensusStates
  BY DEF NodeOK
<1>0. s \in ConsensusStates /\ s.round \in Nat /\ s.height \in Nat /\ s.step \in RoundStepType
  BY FieldTypes DEF NodeOK
<1>1. CASE t = s
  BY <1>1, AdvancesReflexive
<1>2. CASE t = Panic(s)
  BY <1>2, PanicStep
<1>3. CASE ~Stale(s, h, r, RoundStepPrevoteWait) /\ HasTwoThirdsAny(Prevotes(s, r))
  <2> DEFINE u == ScheduleTimeout(s, h, r, RoundStepPrevoteWait)
  <2>1. s.round = r /\ s.height = h /\ s.step < 5
    BY <1>0, <1>3 DEF Stale, Reached, RoundStepPrevoteWait, RoundStepType
  <2>2. t = [[u EXCEPT !.round = r] EXCEPT !.step = RoundStepPrevoteWait]
    BY <1>3 DEF EnterPrevoteWait
  <2>3. RoundStepPrevoteWait = 5 /\ RoundStepPrevoteWait \in RoundStepType
    BY DEF RoundStepPrevoteWait, RoundStepType
  <2>4. /\ u \in ConsensusStates
        /\ u.height = s.height /\ u.round = s.round /\ u.step = s.step
        /\ u.signed = s.signed /\ u.lastBlock = s.lastBlock
        /\ u.ticks \subseteq
               s.ticks \cup {[height |-> h, round |-> r, step |-> RoundStepPrevoteWait]}
    BY <1>s, <2>3, ScheduleTimeoutStep
  <2> HIDE DEF u, t
  <2>5. [u EXCEPT !.round = r] \in ConsensusStates
    BY <2>4, RoundUpdate
  <2>6. t \in ConsensusStates
    BY <2>2, <2>3, <2>5, StepUpdate
  <2>7. /\ t.height = s.height /\ t.round = r /\ t.step = 5
        /\ t.ticks = u.ticks /\ t.lastBlock = s.lastBlock
        /\ t.signed = s.signed
    BY <2>2, <2>3, <2>4 DEF ConsensusStates
  <2>8. Forward(s, t)
    BY <1>0, <2>1, <2>7 DEF Forward, RoundStepType
  <2>9. \A ti \in t.ticks : ti \in s.ticks \/ TickReached(ti, t)
    BY <1>0, <2>1, <2>4, <2>7 DEF TickReached
  <2>10. Advances(s, t)
    BY <2>6, <2>7, <2>8, <2>9, StepAdvances DEF NodeOK
  <2>. QED
    BY <2>10 DEF t
<1>. QED
  BY <1>1, <1>2, <1>3 DEF EnterPrevoteWait

(* enterPrecommit precommits a block or nil.                                *)
LEMMA PrecommitValueType ==
    ASSUME NEW s \in ConsensusStates, NEW polka
    PROVE  PrecommitValue(s, polka) \in Blocks
  BY FieldTypes, NilType DEF PrecommitValue

(* Locking and unlocking touch nothing but the lock.                        *)
LEMMA UpdateLockStep ==
    ASSUME NEW s \in ConsensusStates, NEW r \in Nat, NEW polka
    PROVE  LET t == UpdateLock(s, r, polka)
           IN  /\ t \in ConsensusStates
               /\ t.height = s.height /\ t.round = s.round /\ t.step = s.step
               /\ t.ticks = s.ticks /\ t.lastBlock = s.lastBlock
               /\ t.halted = s.halted /\ t.signed = s.signed
<1> DEFINE b == PrecommitValue(s, polka)
           k == IF b = Nil THEN -1 ELSE r
<1>1. b \in Blocks /\ k \in Rounds
  BY PrecommitValueType DEF Rounds
<1>2. CASE polka = {}
  BY <1>2 DEF UpdateLock
<1>3. CASE polka # {}
  <2>1. UpdateLock(s, r, polka) = [[s EXCEPT !.lockedRound = k] EXCEPT !.lockedBlock = b]
    BY <1>3 DEF UpdateLock
  <2> HIDE DEF k, b
  <2>2. [s EXCEPT !.lockedRound = k] \in ConsensusStates
    BY <1>1, LockedRoundUpdate
  <2>3. UpdateLock(s, r, polka) \in ConsensusStates
    BY <1>1, <2>1, <2>2, LockedBlockUpdate
  <2>. QED
    BY <2>1, <2>3 DEF ConsensusStates
<1>. QED
  BY <1>2, <1>3

(* enterPrecommit is a good step when its round is not ahead: the precommit *)
(* it signs is the first one of its round.                                  *)
LEMMA EnterPrecommitStep ==
    ASSUME NEW n, NEW s, NodeOK(s), NEW h \in Nat, NEW r \in Nat, Reached(s, h, r)
    PROVE  LET t == EnterPrecommit(n, s, h, r)
           IN  /\ Advances(s, t)
               /\ t.height = s.height
               /\ Reached(t, h, r)
<1> DEFINE t == EnterPrecommit(n, s, h, r)
           polka == TwoThirdsMajority(Prevotes(s, r))
           b == PrecommitValue(s, polka)
<1>0. s \in ConsensusStates /\ s.round \in Nat /\ s.height \in Nat /\ s.step \in RoundStepType
  BY FieldTypes DEF NodeOK
<1>1. CASE t = s
  BY <1>1, AdvancesReflexive
<1>2. CASE t = Panic(s)
  BY <1>2, PanicStep DEF Reached
<1>3. CASE /\ ~Stale(s, h, r, RoundStepPrecommit)
           /\ ~(b # Nil /\ b # s.lockedBlock /\ ~ValidateBlock(s, b))
  <2> DEFINE w == UpdateLock(s, r, polka)
             u == SignAddVote(n, w, "precommit", b)
             v == [type |-> "precommit", height |-> s.height, round |-> s.round,
                   block |-> b, val |-> n]
  <2>1. s.round = r /\ s.height = h /\ s.step < 6
    BY <1>0, <1>3 DEF Stale, Reached, RoundStepPrecommit, RoundStepType
  <2>2. t = [[u EXCEPT !.round = r] EXCEPT !.step = RoundStepPrecommit]
    BY <1>3 DEF EnterPrecommit
  <2>3. b \in Blocks
    BY <1>0, PrecommitValueType
  <2>4. RoundStepPrecommit = 6 /\ RoundStepPrecommit \in RoundStepType
    BY DEF RoundStepPrecommit, RoundStepType
  <2>5. v.height = s.height /\ v.round = s.round /\ StepOf(v) = 6
    BY DEF StepOf, RoundStepPrecommit
  <2>6. /\ w \in ConsensusStates
        /\ w.height = s.height /\ w.round = s.round /\ w.step = s.step
        /\ w.ticks = s.ticks /\ w.lastBlock = s.lastBlock
        /\ w.halted = s.halted /\ w.signed = s.signed
    BY <1>0, UpdateLockStep
  <2> HIDE DEF w, b, v
  <2>7. /\ u \in ConsensusStates
        /\ u.height = s.height /\ u.round = s.round /\ u.step = s.step
        /\ u.ticks = s.ticks /\ u.lastBlock = s.lastBlock
        /\ u.halted = s.halted
        /\ \/ u.signed = s.signed
           \/ v \in Messages /\ u.signed = s.signed \cup {v}
    BY <2>3, <2>6, SignAddVoteStep DEF v
  <2> HIDE DEF u, t
  <2>8. [u EXCEPT !.round = r] \in ConsensusStates
    BY <2>7, RoundUpdate
  <2>9. t \in ConsensusStates
    BY <2>2, <2>4, <2>8, StepUpdate
  <2>10. /\ t.height = s.height /\ t.round = r /\ t.step = 6
         /\ t.ticks = s.ticks /\ t.lastBlock = s.lastBlock
         /\ t.halted = s.halted /\ t.signed = u.signed
    BY <2>2, <2>4, <2>7 DEF ConsensusStates
  <2>11. ~SignedAt(v, s) /\ SignedAt(v, t) /\ Forward(s, t)
    BY <1>0, <2>1, <2>5, <2>10 DEF SignedAt, Forward, RoundStepType
  <2>12. Advances(s, t)
    BY <2>7, <2>9, <2>10, <2>11, StepAdvances DEF NodeOK
  <2>. QED
    BY <1>0, <2>1, <2>10, <2>12 DEF t, Reached
<1>. QED
  BY <1>1, <1>2, <1>3 DEF EnterPrecommit

(* enterPrecommitWait is a good step when its round is not ahead.           *)
LEMMA EnterPrecommitWaitStep ==
    ASSUME NEW s, NodeOK(s), NEW h \in Nat, NEW r \in Nat, Reached(s, h, r)
    PROVE  Advances(s, EnterPrecommitWait(s, h, r))
<1> DEFINE t == EnterPrecommitWait(s, h, r)
<1>s. s \in ConsensusStates
  BY DEF NodeOK
<1>0. s \in ConsensusStates /\ s.round \in Nat /\ s.height \in Nat /\ s.step \in RoundStepType
  BY FieldTypes DEF NodeOK
<1>1. CASE t = s
  BY <1>1, AdvancesReflexive
<1>2. CASE t = Panic(s)
  BY <1>2, PanicStep
<1>3. CASE ~s.halted /\ s.height = h /\ r >= s.round
           /\ t = [ScheduleTimeout(s, h, r, RoundStepPrecommitWait) EXCEPT
                       !.triggeredTimeoutPrecommit = TRUE]
  <2> DEFINE u == ScheduleTimeout(s, h, r, RoundStepPrecommitWait)
  <2>1. s.round = r /\ s.height = h
    BY <1>0, <1>3 DEF Reached
  <2>2. RoundStepPrecommitWait \in RoundStepType
    BY DEF RoundStepPrecommitWait, RoundStepType
  <2>3. /\ u \in ConsensusStates
        /\ u.height = s.height /\ u.round = s.round /\ u.step = s.step
        /\ u.signed = s.signed /\ u.lastBlock = s.lastBlock
        /\ u.ticks \subseteq
               s.ticks \cup {[height |-> h, round |-> r, step |-> RoundStepPrecommitWait]}
    BY <1>s, <2>2, ScheduleTimeoutStep
  <2> HIDE DEF u
  <2>4. \A x \in BOOLEAN : [u EXCEPT !.triggeredTimeoutPrecommit = x] \in ConsensusStates
    BY <2>3, TriggeredUpdate
  <2>5. t \in ConsensusStates
    BY <1>3, <2>4 DEF u
  <2> HIDE DEF t
  <2>6. t = [u EXCEPT !.triggeredTimeoutPrecommit = TRUE]
    BY <1>3 DEF u
  <2>7. /\ t.height = s.height /\ t.round = s.round /\ t.step = s.step
        /\ t.ticks = u.ticks /\ t.lastBlock = s.lastBlock
        /\ t.signed = s.signed
    BY <2>3, <2>6 DEF ConsensusStates
  <2>8. Forward(s, t)
    BY <1>0, <2>7 DEF Forward, RoundStepType
  <2>9. \A ti \in t.ticks : ti \in s.ticks \/ TickReached(ti, t)
    BY <1>0, <2>1, <2>3, <2>7 DEF TickReached
  <2>10. Advances(s, t)
    BY <2>5, <2>7, <2>8, <2>9, StepAdvances DEF NodeOK
  <2>. QED
    BY <2>10 DEF t
<1>. QED
  BY <1>0, <1>1, <1>2, <1>3 DEF EnterPrecommitWait

-----------------------------------------------------------------------------

(* A validator of the set proposes a block of the model, or none.           *)
LEMMA CreateProposalBlockType ==
    ASSUME NEW s \in ConsensusStates, NEW n \in Validators \cap Correct
    PROVE  CreateProposalBlock(n, s) \in Blocks
<1>1. n \in ValidContents \cup InvalidContents
  BY ContentAssumption
<1>2. Append(s.lastBlock, n) \in Blocks
  BY <1>1, FieldTypes DEF Blocks
<1>. QED
  BY <1>2, NilType DEF CreateProposalBlock

(* defaultDecideProposal signs at most one proposal, for the given round.   *)
LEMMA DecideProposalStep ==
    ASSUME NEW s \in ConsensusStates, NEW n \in Validators \cap Correct,
           NEW h \in Nat, NEW r \in Nat
    PROVE  LET t == DecideProposal(n, s, h, r)
           IN  /\ t \in ConsensusStates
               /\ t.height = s.height /\ t.round = s.round /\ t.step = s.step
               /\ t.ticks = s.ticks /\ t.lastBlock = s.lastBlock
               /\ t.halted = s.halted
               /\ \/ t.signed = s.signed
                  \/ \E m \in Messages :
                         /\ t.signed = s.signed \cup {m}
                         /\ m.type = "proposal" /\ m.height = h /\ m.round = r
<1> DEFINE b == IF s.validBlock # Nil THEN s.validBlock
                ELSE CreateProposalBlock(n, s)
           m == [type |-> "proposal", height |-> h, round |-> r,
                 polRound |-> s.validRound, block |-> b, val |-> n]
<1>1. b \in Blocks
  BY CreateProposalBlockType, FieldTypes
<1>2. CASE b = Nil
  BY <1>2 DEF DecideProposal
<1>3. CASE b # Nil
  <2>1. DecideProposal(n, s, h, r) = SendInternalMessage(s, m)
    BY <1>3 DEF DecideProposal
  <2> HIDE DEF b
  <2>2. m \in Messages
    BY <1>1, FieldTypes DEF Messages, Proposals
  <2>3. m.type = "proposal" /\ m.height = h /\ m.round = r
    OBVIOUS
  <2> HIDE DEF m
  <2>. QED
    BY <2>1, <2>2, <2>3, SendInternalMessageStep
<1>. QED
  BY <1>2, <1>3

(* Where enterPropose is before it looks whether the proposal is complete.  *)
AtPropose(n, s, h, r) ==
    LET s1 == ScheduleTimeout(s, h, r, RoundStepPropose)
        s2 == IF n \in Validators /\ Proposer(h, r) = n
              THEN DecideProposal(n, s1, h, r) ELSE s1
    IN  [s2 EXCEPT !.round = r, !.step = RoundStepPropose]

(* Getting there is a good step that reaches its round.                     *)
LEMMA AtProposeStep ==
    ASSUME NEW n \in Correct, NEW s, NodeOK(s), NEW h \in Nat, NEW r \in Nat,
           ~Stale(s, h, r, RoundStepPropose)
    PROVE  LET t == AtPropose(n, s, h, r)
           IN  /\ Advances(s, t)
               /\ t.height = s.height /\ t.halted = s.halted /\ t.round = r
<1> DEFINE t == AtPropose(n, s, h, r)
           s1 == ScheduleTimeout(s, h, r, RoundStepPropose)
           s2 == IF n \in Validators /\ Proposer(h, r) = n
                 THEN DecideProposal(n, s1, h, r) ELSE s1
<1>s. s \in ConsensusStates
  BY DEF NodeOK
<1>0. s.round \in Nat /\ s.height \in Nat /\ s.step \in RoundStepType
  BY <1>s, FieldTypes
<1>1. /\ s.height = h
      /\ s.round < r \/ (s.round = r /\ s.step < 3)
  BY <1>0 DEF Stale, RoundStepPropose, RoundStepType
<1>2. RoundStepPropose \in RoundStepType
  BY DEF RoundStepPropose, RoundStepType
<1>3. /\ s1 \in ConsensusStates
      /\ s1.height = s.height /\ s1.round = s.round /\ s1.step = s.step
      /\ s1.signed = s.signed /\ s1.lastBlock = s.lastBlock
      /\ s1.halted = s.halted
      /\ s1.ticks \subseteq
             s.ticks \cup {[height |-> h, round |-> r, step |-> RoundStepPropose]}
  BY <1>s, <1>2, ScheduleTimeoutStep
<1> HIDE DEF s1
<1>4. /\ s2 \in ConsensusStates
      /\ s2.height = s.height /\ s2.ticks = s1.ticks
      /\ s2.lastBlock = s.lastBlock /\ s2.halted = s.halted
      /\ \/ s2.signed = s.signed
         \/ \E m \in Messages :
                /\ s2.signed = s.signed \cup {m}
                /\ m.type = "proposal" /\ m.height = h /\ m.round = r
  <2>1. CASE s2 = s1
    BY <1>3, <2>1
  <2>2. CASE n \in Validators \cap Correct /\ s2 = DecideProposal(n, s1, h, r)
    <3>. HIDE DEF s2
    <3>1. s1 \in ConsensusStates /\ n \in Validators \cap Correct
      BY <1>3, <2>2
    <3>2. LET u == DecideProposal(n, s1, h, r)
          IN  /\ u \in ConsensusStates
              /\ u.height = s1.height /\ u.round = s1.round /\ u.step = s1.step
              /\ u.ticks = s1.ticks /\ u.lastBlock = s1.lastBlock
              /\ u.halted = s1.halted
              /\ \/ u.signed = s1.signed
                 \/ \E m \in Messages :
                        /\ u.signed = s1.signed \cup {m}
                        /\ m.type = "proposal" /\ m.height = h /\ m.round = r
      BY <3>1, DecideProposalStep
    <3>. QED
      BY <1>3, <2>2, <3>2
  <2>. QED
    BY <2>1, <2>2
<1>5. t = [[s2 EXCEPT !.round = r] EXCEPT !.step = RoundStepPropose]
  BY DEF AtPropose, s1
<1> HIDE DEF s2, t
<1>6. [s2 EXCEPT !.round = r] \in ConsensusStates
  BY <1>4, RoundUpdate
<1>7. t \in ConsensusStates
  BY <1>2, <1>5, <1>6, StepUpdate
<1>8. /\ t.height = s.height /\ t.round = r /\ t.step = 3
      /\ t.ticks = s1.ticks /\ t.lastBlock = s.lastBlock
      /\ t.signed = s2.signed /\ t.halted = s.halted
  BY <1>4, <1>5 DEF ConsensusStates, RoundStepPropose
<1>9. Forward(s, t)
  BY <1>0, <1>1, <1>8 DEF Forward, RoundStepType
<1>10. \A ti \in t.ticks : ti \in s.ticks \/ TickReached(ti, t)
  BY <1>0, <1>1, <1>3, <1>8 DEF TickReached
<1>11. \A m : (m.type = "proposal" /\ m.height = h /\ m.round = r)
                  => ~SignedAt(m, s) /\ SignedAt(m, t)
  BY <1>0, <1>1, <1>8 DEF SignedAt, StepOf, RoundStepPropose, RoundStepType
<1>12. \/ t.signed = s.signed
       \/ \E m \in Messages :
              t.signed = s.signed \cup {m} /\ ~SignedAt(m, s) /\ SignedAt(m, t)
  BY <1>4, <1>8, <1>11
<1>13. Advances(s, t)
  BY <1>7, <1>8, <1>9, <1>10, <1>12, StepAdvances DEF NodeOK
<1>. QED
  BY <1>8, <1>13 DEF t

(* enterPropose is a good step that reaches its round.                      *)
LEMMA EnterProposeStep ==
    ASSUME NEW n \in Correct, NEW s, NodeOK(s), NEW h \in Nat, NEW r \in Nat
    PROVE  LET t == EnterPropose(n, s, h, r)
           IN  /\ Advances(s, t)
               /\ t.height = s.height /\ t.halted = s.halted
               /\ Reached(t, h, r)
<1> DEFINE t == EnterPropose(n, s, h, r)
           u == AtPropose(n, s, h, r)
<1>0. s.round \in Nat /\ s.height \in Nat /\ s.step \in RoundStepType
  BY FieldTypes DEF NodeOK
<1>1. CASE Stale(s, h, r, RoundStepPropose)
  <2>1. t = s
    BY <1>1 DEF EnterPropose
  <2>2. Reached(s, h, r)
    BY <1>0, <1>1 DEF Stale, Reached
  <2>. QED
    BY <2>1, <2>2, AdvancesReflexive
<1>2. CASE ~Stale(s, h, r, RoundStepPropose)
  <2>1. /\ Advances(s, u)
        /\ u.height = s.height /\ u.halted = s.halted /\ u.round = r
    BY <1>2, AtProposeStep
  <2>2. t = IF IsProposalComplete(u) THEN EnterPrevote(n, u, h, r) ELSE u
    BY <1>2 DEF EnterPropose, AtPropose
  <2> HIDE DEF u, t
  <2>3. Reached(u, h, r)
    BY <2>1 DEF Reached
  <2>4. CASE t = u
    BY <2>1, <2>3, <2>4 DEF t
  <2>5. CASE t = EnterPrevote(n, u, h, r)
    <3>1. /\ Advances(u, t) /\ t.height = u.height
          /\ t.halted = u.halted /\ t.round >= u.round
      BY <2>1, <2>3, <2>5, EnterPrevoteStep DEF Advances
    <3>2. Advances(s, t)
      BY <2>1, <3>1, AdvancesTransitive
    <3>3. t.round \in Nat
      BY <3>1, FieldTypes DEF Advances, NodeOK
    <3>4. Reached(t, h, r)
      BY <2>1, <3>1, <3>3 DEF Reached
    <3>. QED
      BY <2>1, <3>1, <3>2, <3>4 DEF t
  <2>. QED
    BY <2>2, <2>4, <2>5
<1>. QED
  BY <1>1, <1>2

(* What enterNewRound resets leaves signatures and timers alone.            *)
LEMMA SetupNewRoundStep ==
    ASSUME NEW s \in ConsensusStates, NEW r \in Nat
    PROVE  LET t == SetupNewRound(s, r)
           IN  /\ t \in ConsensusStates
               /\ t.height = s.height /\ t.round = r /\ t.step = RoundStepNewRound
               /\ t.ticks = s.ticks /\ t.lastBlock = s.lastBlock
               /\ t.halted = s.halted /\ t.signed = s.signed
<1> DEFINE p == IF r = 0 THEN s.proposal ELSE NoProposal
           b == IF r = 0 THEN s.proposalBlock ELSE Nil
           s1 == [s EXCEPT !.round = r]
           s2 == [s1 EXCEPT !.step = RoundStepNewRound]
           s3 == [s2 EXCEPT !.proposal = p]
           s4 == [s3 EXCEPT !.proposalBlock = b]
           s5 == [s4 EXCEPT !.triggeredTimeoutPrecommit = FALSE]
<1>1. SetupNewRound(s, r) = s5
  BY DEF SetupNewRound
<1>2. p \in Proposals \cup {NoProposal} /\ b \in Blocks
  BY FieldTypes, NilType
<1>3. RoundStepNewRound \in RoundStepType
  BY DEF RoundStepNewRound, RoundStepType
<1>4. s1 \in ConsensusStates
  BY RoundUpdate
<1> HIDE DEF p, b
<1>5. s2 \in ConsensusStates
  BY <1>3, <1>4, StepUpdate
<1>6. s3 \in ConsensusStates
  BY <1>2, <1>5, ProposalUpdate
<1>7. s4 \in ConsensusStates
  BY <1>2, <1>6, ProposalBlockUpdate
<1>8. s5 \in ConsensusStates
  BY <1>7, TriggeredUpdate
<1>. QED
  BY <1>1, <1>8 DEF ConsensusStates

(* enterNewRound is a good step that reaches its round.                     *)
LEMMA EnterNewRoundStep ==
    ASSUME NEW n \in Correct, NEW s, NodeOK(s), NEW h \in Nat, NEW r \in Nat
    PROVE  LET t == EnterNewRound(n, s, h, r)
           IN  /\ Advances(s, t)
               /\ t.height = s.height
               /\ Reached(t, h, r)
<1> DEFINE t == EnterNewRound(n, s, h, r)
           u == SetupNewRound(s, r)
<1>s. s \in ConsensusStates
  BY DEF NodeOK
<1>0. s.round \in Nat /\ s.height \in Nat /\ s.step \in RoundStepType
  BY <1>s, FieldTypes
<1>1. CASE \/ s.halted \/ s.height # h \/ r < s.round
           \/ s.round = r /\ s.step # RoundStepNewHeight
  <2>1. t = s
    BY <1>1 DEF EnterNewRound
  <2>2. Reached(s, h, r)
    BY <1>0, <1>1 DEF Reached
  <2>. QED
    BY <2>1, <2>2, AdvancesReflexive
<1>2. CASE ~(\/ s.halted \/ s.height # h \/ r < s.round
             \/ s.round = r /\ s.step # RoundStepNewHeight)
  <2>1. t = EnterPropose(n, u, h, r)
    BY <1>2 DEF EnterNewRound
  <2>2. /\ u \in ConsensusStates
        /\ u.height = s.height /\ u.round = r /\ u.step = RoundStepNewRound
        /\ u.ticks = s.ticks /\ u.lastBlock = s.lastBlock
        /\ u.halted = s.halted /\ u.signed = s.signed
    BY <1>s, SetupNewRoundStep
  <2> HIDE DEF u
  <2>3. Forward(s, u)
    BY <1>0, <1>2, <2>2 DEF Forward, RoundStepNewHeight, RoundStepNewRound, RoundStepType
  <2>4. Advances(s, u)
    BY <2>2, <2>3, StepAdvances DEF NodeOK
  <2>5. /\ Advances(u, t) /\ t.height = u.height /\ Reached(t, h, r)
    BY <2>1, <2>4, EnterProposeStep DEF Advances
  <2>6. Advances(s, t)
    BY <2>4, <2>5, AdvancesTransitive
  <2>. QED
    BY <2>2, <2>5, <2>6
<1>. QED
  BY <1>1, <1>2

-----------------------------------------------------------------------------

(* A block that ValidateBlock accepts is the block of the node's height.    *)
LEMMA ValidBlockFollows ==
    ASSUME NEW s, NodeOK(s), NEW b, ValidateBlock(s, b)
    PROVE  b \in Blocks /\ Len(b) = s.height
<1>1. s.lastBlock \in Blocks /\ s.height = Len(s.lastBlock) + 1
  BY FieldTypes DEF NodeOK
<1>2. PICK c \in ValidContents : b = Append(s.lastBlock, c)
  BY DEF ValidateBlock
<1>. QED
  BY <1>1, <1>2 DEF Blocks

(* Saving a block touches nothing but the store.                            *)
LEMMA SaveBlockStep ==
    ASSUME NEW s, NodeOK(s), NEW b \in Blocks, NEW commit \in SUBSET Votes
    PROVE  LET t == SaveBlock(s, b, commit)
           IN  /\ Advances(s, t)
               /\ t.height = s.height /\ t.halted = s.halted
<1> DEFINE t == SaveBlock(s, b, commit)
           store == Append(s.blockStore, [block |-> b, commit |-> commit])
<1>s. s \in ConsensusStates
  BY DEF NodeOK
<1>1. CASE t = s
  BY <1>1, AdvancesReflexive DEF Advances
<1>2. CASE t = [s EXCEPT !.blockStore = store]
  <2>1. store \in Seq(FullBlocks)
    <3>1. [block |-> b, commit |-> commit] \in FullBlocks
      BY DEF FullBlocks
    <3>2. s.blockStore \in Seq(FullBlocks)
      BY <1>s, FieldTypes
    <3>. QED
      BY <3>1, <3>2
  <2> HIDE DEF store, t
  <2>2. t \in ConsensusStates
    BY <1>s, <1>2, <2>1, BlockStoreUpdate
  <2>3. /\ t.height = s.height /\ t.round = s.round /\ t.step = s.step
        /\ t.ticks = s.ticks /\ t.lastBlock = s.lastBlock
        /\ t.halted = s.halted /\ t.signed = s.signed
    BY <1>s, <1>2 DEF ConsensusStates
  <2>4. Forward(s, t)
    BY <1>s, <2>3, ForwardReflexive DEF Forward
  <2>5. Advances(s, t)
    BY <2>2, <2>3, <2>4, StepAdvances DEF NodeOK
  <2>. QED
    BY <2>3, <2>5 DEF Advances, t
<1>. QED
  BY <1>1, <1>2 DEF SaveBlock

(* updateToState leaves a node state.                                       *)
LEMMA UpdateToStateType ==
    ASSUME NEW s \in ConsensusStates, NEW b \in Blocks
    PROVE  UpdateToState(s, b) \in ConsensusStates
<1> DEFINE commit == IF s.commitRound > -1
                     THEN Precommits(s, s.commitRound) ELSE s.lastCommit
           h == Len(b) + 1
           s1 == [s EXCEPT !.lastCommit = commit]
           s2 == [s1 EXCEPT !.height = h]
           s3 == [s2 EXCEPT !.round = 0]
           s4 == [s3 EXCEPT !.step = RoundStepNewHeight]
           s5 == [s4 EXCEPT !.proposal = NoProposal]
           s6 == [s5 EXCEPT !.proposalBlock = Nil]
           s7 == [s6 EXCEPT !.lockedRound = -1]
           s8 == [s7 EXCEPT !.lockedBlock = Nil]
           s9 == [s8 EXCEPT !.validRound = -1]
           s10 == [s9 EXCEPT !.validBlock = Nil]
           s11 == [s10 EXCEPT !.votes = {}]
           s12 == [s11 EXCEPT !.commitRound = -1]
           s13 == [s12 EXCEPT !.triggeredTimeoutPrecommit = FALSE]
           s14 == [s13 EXCEPT !.lastBlock = b]
<1>1. UpdateToState(s, b) \in {Panic(s), s14}
  BY DEF UpdateToState
<1>2. commit \in SUBSET Votes
  BY FieldTypes, VoteSetTypes
<1>3. h \in Nat /\ RoundStepNewHeight \in RoundStepType /\ -1 \in Rounds
  BY DEF Blocks, RoundStepNewHeight, RoundStepType, Rounds
<1> HIDE DEF commit, h
<1>4. s1 \in ConsensusStates
  BY <1>2, LastCommitUpdate
<1>5. s2 \in ConsensusStates
  BY <1>3, <1>4, HeightUpdate
<1>6. s3 \in ConsensusStates
  BY <1>5, RoundUpdate
<1>7. s4 \in ConsensusStates
  BY <1>3, <1>6, StepUpdate
<1>8. s5 \in ConsensusStates
  BY <1>7, ProposalUpdate
<1>9. s6 \in ConsensusStates
  BY <1>8, NilType, ProposalBlockUpdate
<1>10. s7 \in ConsensusStates
  BY <1>3, <1>9, LockedRoundUpdate
<1>11. s8 \in ConsensusStates
  BY <1>10, NilType, LockedBlockUpdate
<1>12. s9 \in ConsensusStates
  BY <1>3, <1>11, ValidRoundUpdate
<1>13. s10 \in ConsensusStates
  BY <1>12, NilType, ValidBlockUpdate
<1>14. s11 \in ConsensusStates
  BY <1>13, VotesUpdate
<1>15. s12 \in ConsensusStates
  BY <1>3, <1>14, CommitRoundUpdate
<1>16. s13 \in ConsensusStates
  BY <1>15, TriggeredUpdate
<1>17. s14 \in ConsensusStates
  BY <1>16, LastBlockUpdate
<1>18. \A x \in BOOLEAN : [s EXCEPT !.halted = x] \in ConsensusStates
  BY HaltedUpdate
<1> HIDE DEF s14
<1>. QED
  BY <1>1, <1>17, <1>18 DEF Panic

(* updateToState on the block of the node's height moves the node to the    *)
(* next height: all its timers and signatures are then of heights behind.   *)
LEMMA UpdateToStateStep ==
    ASSUME NEW s, NodeOK(s), NEW b \in Blocks, Len(b) = s.height
    PROVE  Advances(s, UpdateToState(s, b))
<1> DEFINE t == UpdateToState(s, b)
<1>s. s \in ConsensusStates
  BY DEF NodeOK
<1>1. CASE UpdateToStatePanics(s, b)
  BY <1>1, PanicStep DEF UpdateToState
<1>2. CASE ~UpdateToStatePanics(s, b)
  <2>1. t \in ConsensusStates
    BY <1>s, UpdateToStateType
  <2>2. /\ t.height = Len(b) + 1 /\ t.lastBlock = b
        /\ t.ticks = s.ticks /\ t.signed = s.signed
    BY <1>s, <1>2 DEF UpdateToState, ConsensusStates
  <2>3. s.height \in Nat
    BY <1>s, FieldTypes
  <2> HIDE DEF t
  <2>4. Forward(s, t)
    BY <2>2, <2>3 DEF Forward
  <2>5. Advances(s, t)
    BY <2>1, <2>2, <2>4, StepAdvances
  <2>. QED
    BY <2>5 DEF t
<1>. QED
  BY <1>1, <1>2

(* scheduleRound0 is for round 0 of the node's height.                      *)
LEMMA ScheduleRound0Step ==
    ASSUME NEW s, NodeOK(s)
    PROVE  Advances(s, ScheduleRound0(s))
<1> DEFINE t == ScheduleRound0(s)
<1>s. s \in ConsensusStates
  BY DEF NodeOK
<1>0. s.height \in Nat /\ s.round \in Nat
  BY <1>s, FieldTypes
<1>1. CASE s.halted
  BY <1>1, AdvancesReflexive DEF ScheduleRound0
<1>2. CASE ~s.halted
  <2>1. t = ScheduleTimeout(s, s.height, 0, RoundStepNewHeight)
    BY <1>2 DEF ScheduleRound0
  <2>2. RoundStepNewHeight \in RoundStepType /\ s.height \in Nat /\ 0 \in Nat
    BY <1>0 DEF RoundStepNewHeight, RoundStepType
  <2> DEFINE h == s.height
             r == 0
  <2>3. h \in Nat /\ r \in Nat
    BY <2>2
  <2>4. t = ScheduleTimeout(s, h, r, RoundStepNewHeight)
    BY <2>1
  <2> HIDE DEF h, r, t
  <2>5. /\ t \in ConsensusStates
        /\ t.height = s.height /\ t.round = s.round /\ t.step = s.step
        /\ t.signed = s.signed /\ t.lastBlock = s.lastBlock
        /\ t.ticks \subseteq
               s.ticks \cup {[height |-> h, round |-> r, step |-> RoundStepNewHeight]}
    BY <1>s, <2>2, <2>3, <2>4, ScheduleTimeoutStep
  <2>6. Forward(s, t)
    BY <1>s, <2>5, ForwardReflexive DEF Forward
  <2>7. \A ti \in t.ticks : ti \in s.ticks \/ TickReached(ti, t)
    BY <1>0, <2>5 DEF TickReached, h, r
  <2>8. Advances(s, t)
    BY <2>5, <2>6, <2>7, StepAdvances DEF NodeOK
  <2>. QED
    BY <2>8 DEF t
<1>. QED
  BY <1>1, <1>2

(* A commit is made of the votes at hand.                                   *)
LEMMA MakeCommitType ==
    ASSUME NEW precommits \in SUBSET Votes
    PROVE  MakeCommit(precommits) \in SUBSET Votes
  BY DEF MakeCommit

(* finalizeCommit is a good step.                                           *)
LEMMA FinalizeCommitStep ==
    ASSUME NEW s, NodeOK(s)
    PROVE  Advances(s, FinalizeCommit(s))
<1> DEFINE b == s.proposalBlock
           u == SaveBlock(s, b, MakeCommit(Precommits(s, s.commitRound)))
           w == UpdateToState(u, b)
<1>1. CASE ~ValidateBlock(s, b)
  BY <1>1, PanicStep DEF FinalizeCommit
<1>2. CASE ValidateBlock(s, b)
  <2>1. b \in Blocks /\ Len(b) = s.height
    BY <1>2, ValidBlockFollows
  <2>2. FinalizeCommit(s) = ScheduleRound0(w)
    BY <1>2 DEF FinalizeCommit
  <2>3. MakeCommit(Precommits(s, s.commitRound)) \in SUBSET Votes
    BY VoteSetTypes, MakeCommitType DEF NodeOK
  <2>4. Advances(s, u) /\ u.height = s.height
    BY <2>1, <2>3, SaveBlockStep DEF Advances
  <2> HIDE DEF u, b
  <2>5. Advances(u, w)
    BY <2>1, <2>4, UpdateToStateStep DEF Advances
  <2> HIDE DEF w
  <2>6. Advances(w, ScheduleRound0(w))
    BY <2>5, ScheduleRound0Step DEF Advances
  <2>. QED
    BY <2>2, <2>4, <2>5, <2>6, AdvancesTransitive DEF Advances
<1>. QED
  BY <1>1, <1>2

(* tryFinalizeCommit is a good step.                                        *)
LEMMA TryFinalizeCommitStep ==
    ASSUME NEW s, NodeOK(s)
    PROVE  Advances(s, TryFinalizeCommit(s))
  BY AdvancesReflexive, FinalizeCommitStep DEF TryFinalizeCommit

(* Where enterCommit is before it tries to finalize.                        *)
AtCommit(s, r) ==
    [s EXCEPT !.proposalBlock = CommitValue(s, TwoThirdsMajority(Precommits(s, r))),
              !.step = RoundStepCommit, !.commitRound = r]

(* Getting there is a good step, whatever round its precommits are from.    *)
LEMMA AtCommitStep ==
    ASSUME NEW s, NodeOK(s), NEW r \in Nat, s.step < RoundStepCommit
    PROVE  Advances(s, AtCommit(s, r))
<1> DEFINE b == CommitValue(s, TwoThirdsMajority(Precommits(s, r)))
           s1 == [s EXCEPT !.proposalBlock = b]
           s2 == [s1 EXCEPT !.step = RoundStepCommit]
           t == [s2 EXCEPT !.commitRound = r]
<1>s. s \in ConsensusStates
  BY DEF NodeOK
<1>1. b \in Blocks
  BY <1>s, FieldTypes, NilType DEF CommitValue
<1>2. RoundStepCommit \in RoundStepType /\ r \in Rounds
  BY DEF RoundStepCommit, RoundStepType, Rounds
<1>3. AtCommit(s, r) = t
  BY DEF AtCommit
<1> HIDE DEF b
<1>4. s1 \in ConsensusStates
  BY <1>s, <1>1, ProposalBlockUpdate
<1>5. s2 \in ConsensusStates
  BY <1>2, <1>4, StepUpdate
<1>6. t \in ConsensusStates
  BY <1>2, <1>5, CommitRoundUpdate
<1>7. /\ t.height = s.height /\ t.round = s.round /\ t.step = 8
      /\ t.ticks = s.ticks /\ t.lastBlock = s.lastBlock
      /\ t.signed = s.signed
  BY <1>s DEF ConsensusStates, RoundStepCommit
<1> HIDE DEF t
<1>8. s.height \in Nat /\ s.round \in Nat /\ s.step \in RoundStepType
  BY <1>s, FieldTypes
<1>9. Forward(s, t)
  BY <1>7, <1>8 DEF Forward, RoundStepCommit, RoundStepType
<1>. QED
  BY <1>3, <1>6, <1>7, <1>9, StepAdvances DEF NodeOK

(* enterCommit is a good step.                                              *)
LEMMA EnterCommitStep ==
    ASSUME NEW s, NodeOK(s), NEW h \in Nat, NEW r \in Nat
    PROVE  Advances(s, EnterCommit(s, h, r))
<1> DEFINE u == AtCommit(s, r)
<1>1. CASE EnterCommit(s, h, r) = s
  BY <1>1, AdvancesReflexive
<1>2. CASE EnterCommit(s, h, r) = Panic(s)
  BY <1>2, PanicStep
<1>3. CASE s.step < RoundStepCommit /\ EnterCommit(s, h, r) = TryFinalizeCommit(u)
  <2>1. Advances(s, u)
    BY <1>3, AtCommitStep
  <2> HIDE DEF u
  <2>2. Advances(u, TryFinalizeCommit(u))
    BY <2>1, TryFinalizeCommitStep DEF Advances
  <2>. QED
    BY <1>3, <2>1, <2>2, AdvancesTransitive
<1>4. s.step \in RoundStepType
  BY FieldTypes DEF NodeOK
<1>. QED
  BY <1>1, <1>2, <1>3, <1>4 DEF EnterCommit, AtCommit, RoundStepCommit, RoundStepType

-----------------------------------------------------------------------------

(* A node that has taken proposal p, and its block as the valid one when    *)
(* there is a polka of this round for it.                                   *)
WithProposal(s, p) ==
    LET s1 == [s EXCEPT !.proposal = p, !.proposalBlock = p.block]
    IN  IF /\ HashTo(p.block, TwoThirdsMajority(Prevotes(s, s.round)))
           /\ s.validRound < s.round
        THEN [s1 EXCEPT !.validRound = s.round, !.validBlock = p.block]
        ELSE s1

(* Taking a proposal is a good step that stays in place.                    *)
LEMMA WithProposalStep ==
    ASSUME NEW s, NodeOK(s), NEW p \in Proposals
    PROVE  LET t == WithProposal(s, p)
           IN  Advances(s, t) /\ t.height = s.height /\ t.round = s.round
<1> DEFINE s0 == [s EXCEPT !.proposal = p]
           s1 == [s0 EXCEPT !.proposalBlock = p.block]
           s1a == [s1 EXCEPT !.validRound = s.round]
           s1b == [s1a EXCEPT !.validBlock = p.block]
           t == WithProposal(s, p)
<1>s. s \in ConsensusStates
  BY DEF NodeOK
<1>0. s.round \in Nat /\ s.height \in Nat
  BY <1>s, FieldTypes
<1>1. p.block \in Blocks /\ p \in Proposals \cup {NoProposal} /\ s.round \in Rounds
  BY <1>0 DEF Proposals, Rounds
<1>2. s0 \in ConsensusStates
  BY <1>s, <1>1, ProposalUpdate
<1>3. s1 \in ConsensusStates
  BY <1>1, <1>2, ProposalBlockUpdate
<1>4. s1a \in ConsensusStates
  BY <1>1, <1>3, ValidRoundUpdate
<1>5. s1b \in ConsensusStates
  BY <1>1, <1>4, ValidBlockUpdate
<1>6. t = s1 \/ t = s1b
  BY DEF WithProposal
<1> HIDE DEF t
<1>7. /\ t \in ConsensusStates
      /\ t.height = s.height /\ t.round = s.round /\ t.step = s.step
      /\ t.ticks = s.ticks /\ t.lastBlock = s.lastBlock
      /\ t.signed = s.signed /\ t.halted = s.halted
  <2>1. CASE t = s1
    BY <1>s, <1>3, <2>1 DEF ConsensusStates
  <2>2. CASE t = s1b
    BY <1>s, <1>5, <2>2 DEF ConsensusStates
  <2>. QED
    BY <1>6, <2>1, <2>2
<1>8. Forward(s, t)
  BY <1>s, <1>7, ForwardReflexive DEF Forward
<1>9. Advances(s, t)
  BY <1>7, <1>8, StepAdvances DEF NodeOK
<1>. QED
  BY <1>7, <1>9 DEF t

(* defaultSetProposal is a good step.                                       *)
LEMMA SetProposalStep ==
    ASSUME NEW n \in Correct, NEW s, NodeOK(s), NEW p \in Proposals
    PROVE  Advances(s, SetProposal(n, s, p))
<1> DEFINE u == WithProposal(s, p)
           s3 == EnterPrevote(n, u, s.height, s.round)
           s4 == EnterPrecommit(n, s3, s.height, s.round)
<1>0. s.round \in Nat /\ s.height \in Nat
  BY FieldTypes DEF NodeOK
<1>1. SetProposal(n, s, p) \in {u, s3, s4, TryFinalizeCommit(u)}
  BY DEF SetProposal, WithProposal
<1>2. Advances(s, u) /\ Reached(u, s.height, s.round)
  BY <1>0, WithProposalStep DEF Reached
<1> HIDE DEF u
<1>3. Advances(u, s3) /\ Reached(s3, s.height, s.round)
  <2>1. /\ Advances(u, s3) /\ s3.height = u.height
        /\ s3.halted = u.halted /\ s3.round >= u.round
    BY <1>0, <1>2, EnterPrevoteStep DEF Advances
  <2>2. s3.round \in Nat /\ u.round \in Nat
    BY <1>2, <2>1, FieldTypes DEF Advances, NodeOK
  <2>. QED
    BY <1>0, <1>2, <2>1, <2>2 DEF Reached
<1> HIDE DEF s3
<1>4. Advances(s3, s4)
  BY <1>0, <1>3, EnterPrecommitStep DEF Advances
<1> HIDE DEF s4
<1>5. Advances(u, TryFinalizeCommit(u))
  BY <1>2, TryFinalizeCommitStep DEF Advances
<1>. QED
  BY <1>1, <1>2, <1>3, <1>4, <1>5, AdvancesTransitive DEF Advances

(* The valid block changes without the place of the node.                   *)
LEMMA UpdateValidStep ==
    ASSUME NEW s, NodeOK(s), NEW vote \in Votes, NEW polka
    PROVE  LET t == UpdateValid(s, vote, polka)
           IN  /\ Advances(s, t)
               /\ t.height = s.height /\ t.round = s.round
<1> DEFINE t == UpdateValid(s, vote, polka)
           s1 == [s EXCEPT !.validRound = vote.round]
           s2 == [s1 EXCEPT !.validBlock = s.proposalBlock]
           s3 == [s EXCEPT !.proposalBlock = Nil]
<1>s. s \in ConsensusStates
  BY DEF NodeOK
<1>1. vote.round \in Rounds /\ s.proposalBlock \in Blocks
  BY <1>s, FieldTypes DEF Votes, Rounds
<1>2. s1 \in ConsensusStates
  BY <1>s, <1>1, ValidRoundUpdate
<1>3. s2 \in ConsensusStates
  BY <1>1, <1>2, ValidBlockUpdate
<1>4. s3 \in ConsensusStates
  BY <1>s, NilType, ProposalBlockUpdate
<1>5. t \in {s, s2, s3}
  BY DEF UpdateValid
<1>6. /\ t \in ConsensusStates
      /\ t.height = s.height /\ t.round = s.round /\ t.step = s.step
      /\ t.ticks = s.ticks /\ t.lastBlock = s.lastBlock
      /\ t.signed = s.signed
  BY <1>s, <1>3, <1>4, <1>5 DEF ConsensusStates
<1> HIDE DEF t
<1>7. Forward(s, t)
  BY <1>s, <1>6, ForwardReflexive DEF Forward
<1>8. Advances(s, t)
  BY <1>6, <1>7, StepAdvances DEF NodeOK
<1>. QED
  BY <1>6, <1>8 DEF t

(* So does the lock.                                                        *)
LEMMA UnlockStep ==
    ASSUME NEW s, NodeOK(s)
    PROVE  LET t == [s EXCEPT !.lockedRound = -1, !.lockedBlock = Nil]
           IN  /\ Advances(s, t)
               /\ t.height = s.height /\ t.round = s.round
<1> DEFINE s1 == [s EXCEPT !.lockedRound = -1]
           t == [s1 EXCEPT !.lockedBlock = Nil]
<1>s. s \in ConsensusStates
  BY DEF NodeOK
<1>1. -1 \in Rounds
  BY DEF Rounds
<1>2. s1 \in ConsensusStates
  BY <1>s, <1>1, LockedRoundUpdate
<1>3. t \in ConsensusStates
  BY <1>2, NilType, LockedBlockUpdate
<1>4. /\ t.height = s.height /\ t.round = s.round /\ t.step = s.step
      /\ t.ticks = s.ticks /\ t.lastBlock = s.lastBlock
      /\ t.signed = s.signed
  BY <1>s DEF ConsensusStates
<1> HIDE DEF t
<1>5. Forward(s, t)
  BY <1>s, <1>4, ForwardReflexive DEF Forward
<1>6. Advances(s, t)
  BY <1>3, <1>4, <1>5, StepAdvances DEF NodeOK
<1>. QED
  BY <1>4, <1>6 DEF t

(* The prevote branch of addVote is a good step.                            *)
LEMMA AddedPrevoteStep ==
    ASSUME NEW n \in Correct, NEW s, NodeOK(s), NEW vote \in Votes
    PROVE  Advances(s, AddedPrevote(n, s, vote))
<1> DEFINE polka == TwoThirdsMajority(Prevotes(s, vote.round))
           s1 == IF UnlockOnPOL(s, vote, polka)
                 THEN [s EXCEPT !.lockedRound = -1, !.lockedBlock = Nil] ELSE s
           s2 == UpdateValid(s1, vote, polka)
           t == AddedPrevote(n, s, vote)
<1>0. vote.round \in Nat
  BY DEF Votes
<1>1. Advances(s, s1)
  BY UnlockStep, AdvancesReflexive
<1> HIDE DEF s1
<1>2. Advances(s1, s2)
  BY <1>1, UpdateValidStep DEF Advances
<1>3. \/ t = s2
      \/ t = EnterNewRound(n, s2, s2.height, vote.round)
      \/ s2.round = vote.round /\ t = EnterPrecommit(n, s2, s2.height, vote.round)
      \/ s2.round = vote.round /\ t = EnterPrevoteWait(s2, s2.height, vote.round)
      \/ t = EnterPrevote(n, s2, s2.height, s2.round)
  BY DEF AddedPrevote, s1
<1> HIDE DEF s2, t
<1>4. NodeOK(s2) /\ s2.round \in Nat /\ s2.height \in Nat
  BY <1>2, FieldTypes DEF Advances, NodeOK
<1>5. Advances(s2, t)
  <2>1. CASE t = s2
    BY <1>4, <2>1, AdvancesReflexive
  <2>2. CASE t = EnterNewRound(n, s2, s2.height, vote.round)
    BY <1>0, <1>4, <2>2, EnterNewRoundStep
  <2>3. CASE /\ s2.round = vote.round
             /\ t = EnterPrecommit(n, s2, s2.height, vote.round)
    <3>1. Reached(s2, s2.height, vote.round)
      BY <1>4, <2>3 DEF Reached
    <3>. QED
      BY <1>0, <1>4, <2>3, <3>1, EnterPrecommitStep
  <2>4. CASE /\ s2.round = vote.round
             /\ t = EnterPrevoteWait(s2, s2.height, vote.round)
    <3>1. Reached(s2, s2.height, vote.round)
      BY <1>4, <2>4 DEF Reached
    <3>. QED
      BY <1>0, <1>4, <2>4, <3>1, EnterPrevoteWaitStep
  <2>5. CASE t = EnterPrevote(n, s2, s2.height, s2.round)
    <3>1. Reached(s2, s2.height, s2.round)
      BY <1>4 DEF Reached
    <3>. QED
      BY <1>4, <2>5, <3>1, EnterPrevoteStep
  <2>. QED
    BY <1>3, <2>1, <2>2, <2>3, <2>4, <2>5
<1>. QED
  BY <1>1, <1>2, <1>5, AdvancesTransitive DEF Advances, t

(* The precommit branch of addVote is a good step: every round it enters is *)
(* reached first by enterNewRound.                                          *)
LEMMA AddedPrecommitStep ==
    ASSUME NEW n \in Correct, NEW s, NodeOK(s), NEW vote \in Votes
    PROVE  Advances(s, AddedPrecommit(n, s, vote))
<1> DEFINE r == vote.round
           h == s.height
           s1 == EnterNewRound(n, s, h, r)
           s2 == EnterPrecommit(n, s1, h, r)
           s3 == EnterCommit(s2, h, r)
           t == AddedPrecommit(n, s, vote)
<1>0. r \in Nat /\ h \in Nat /\ 0 \in Nat
  BY FieldTypes DEF Votes, NodeOK
<1>1. \/ t = s
      \/ t = s3
      \/ t = EnterNewRound(n, s3, s3.height, 0)
      \/ t = EnterPrecommitWait(s2, h, r)
      \/ t = EnterPrecommitWait(s1, h, r)
  BY DEF AddedPrecommit
<1> HIDE DEF r, h, t
<1>2. Advances(s, s1) /\ Reached(s1, h, r)
  BY <1>0, EnterNewRoundStep
<1> HIDE DEF s1
<1>3. Advances(s1, s2) /\ Reached(s2, h, r)
  BY <1>0, <1>2, EnterPrecommitStep DEF Advances
<1> HIDE DEF s2
<1>4. Advances(s2, s3)
  BY <1>0, <1>3, EnterCommitStep DEF Advances
<1> HIDE DEF s3
<1>5. Advances(s3, EnterNewRound(n, s3, s3.height, 0))
  <2>1. NodeOK(s3) /\ s3.height \in Nat
    BY <1>4, FieldTypes DEF Advances, NodeOK
  <2>. QED
    BY <1>0, <2>1, EnterNewRoundStep
<1>6. Advances(s2, EnterPrecommitWait(s2, h, r))
  BY <1>0, <1>3, EnterPrecommitWaitStep DEF Advances
<1>7. Advances(s1, EnterPrecommitWait(s1, h, r))
  BY <1>0, <1>2, EnterPrecommitWaitStep DEF Advances
<1>8. Advances(s, s2) /\ Advances(s, s3)
  BY <1>2, <1>3, <1>4, AdvancesTransitive DEF Advances
<1>9. Advances(s, t)
  BY <1>1, <1>2, <1>5, <1>6, <1>7, <1>8, AdvancesTransitive, AdvancesReflexive
     DEF Advances
<1>. QED
  BY <1>9 DEF t

(* Other votes in hand leave the node where it is.                          *)
LEMMA VotesStep ==
    ASSUME NEW s, NodeOK(s), NEW votes \in SUBSET Votes
    PROVE  /\ Advances(s, [s EXCEPT !.votes = votes])
           /\ Advances(s, [s EXCEPT !.lastCommit = votes])
<1> DEFINE t == [s EXCEPT !.votes = votes]
           u == [s EXCEPT !.lastCommit = votes]
<1>s. s \in ConsensusStates
  BY DEF NodeOK
<1>1. t \in ConsensusStates /\ u \in ConsensusStates
  BY <1>s, LastCommitUpdate, VotesUpdate
<1>2. /\ t.height = s.height /\ t.round = s.round /\ t.step = s.step
      /\ t.ticks = s.ticks /\ t.lastBlock = s.lastBlock
      /\ t.signed = s.signed
      /\ u.height = s.height /\ u.round = s.round /\ u.step = s.step
      /\ u.ticks = s.ticks /\ u.lastBlock = s.lastBlock
      /\ u.signed = s.signed
  BY <1>s DEF ConsensusStates
<1> HIDE DEF t, u
<1>3. Forward(s, t) /\ Forward(s, u)
  BY <1>s, <1>2, ForwardReflexive DEF Forward
<1>4. Advances(s, t)
  BY <1>1, <1>2, <1>3, StepAdvances DEF NodeOK
<1>5. Advances(s, u)
  BY <1>1, <1>2, <1>3, StepAdvances DEF NodeOK
<1>. QED
  BY <1>4, <1>5 DEF t, u

(* addVote is a good step.                                                  *)
LEMMA AddVoteStep ==
    ASSUME NEW n \in Correct, NEW s, NodeOK(s), NEW vote \in Votes
    PROVE  Advances(s, AddVote(n, s, vote))
<1> DEFINE late == [s EXCEPT !.lastCommit = s.lastCommit \cup {vote}]
           s1 == [s EXCEPT !.votes = s.votes \cup {vote}]
           t == AddVote(n, s, vote)
<1>0. s.height \in Nat /\ 0 \in Nat
  BY FieldTypes DEF NodeOK
<1>1. s.lastCommit \cup {vote} \in SUBSET Votes /\ s.votes \cup {vote} \in SUBSET Votes
  BY FieldTypes DEF NodeOK
<1>2. t \in {Panic(s), late, EnterNewRound(n, late, s.height, 0),
             AddedPrevote(n, s1, vote), AddedPrecommit(n, s1, vote)}
  BY DEF AddVote
<1>3. Advances(s, late) /\ Advances(s, s1)
  BY <1>1, VotesStep
<1> HIDE DEF late, s1, t
<1>4. Advances(late, EnterNewRound(n, late, s.height, 0))
  BY <1>0, <1>3, EnterNewRoundStep DEF Advances
<1>5. Advances(s1, AddedPrevote(n, s1, vote))
  BY <1>3, AddedPrevoteStep DEF Advances
<1>6. Advances(s1, AddedPrecommit(n, s1, vote))
  BY <1>3, AddedPrecommitStep DEF Advances
<1>7. Advances(s, t)
  BY <1>2, <1>3, <1>4, <1>5, <1>6, PanicStep, AdvancesTransitive DEF Advances
<1>. QED
  BY <1>7 DEF t

(* handleMsg is a good step.                                                *)
LEMMA HandleMsgStep ==
    ASSUME NEW n \in Correct, NEW s, NodeOK(s), NEW m \in Messages
    PROVE  Advances(s, HandleMsg(n, s, m))
<1>1. CASE m.type = "proposal"
  <2>1. m \in Proposals
    BY <1>1 DEF Messages, Votes
  <2>. QED
    BY <1>1, <2>1, SetProposalStep, AdvancesReflexive DEF HandleMsg
<1>2. CASE m.type # "proposal"
  <2>1. m \in Votes
    BY <1>2 DEF Messages, Proposals
  <2>. QED
    BY <1>2, <2>1, AddVoteStep, AdvancesReflexive DEF HandleMsg
<1>. QED
  BY <1>1, <1>2

(* handleTimeout is a good step for any timer the node has ever scheduled.  *)
LEMMA HandleTimeoutStep ==
    ASSUME NEW n \in Correct, NEW s, NodeOK(s), NEW ti \in s.ticks
    PROVE  Advances(s, HandleTimeout(n, s, ti))
<1> DEFINE h == ti.height
           r == ti.round
           u == EnterPrecommit(n, s, h, r)
           t == HandleTimeout(n, s, ti)
<1>s. s \in ConsensusStates
  BY DEF NodeOK
<1>0. h \in Nat /\ r \in Nat /\ r + 1 \in Nat /\ 0 \in Nat
  BY <1>s, FieldTypes DEF Ticks
<1>1. \/ t = s
      \/ t = Panic(s)
      \/ t = EnterNewRound(n, s, h, 0)
      \/ t = EnterPropose(n, s, h, 0)
      \/ t = EnterPrevote(n, s, h, r)
      \/ t = u
      \/ t = EnterNewRound(n, u, h, r + 1)
  BY DEF HandleTimeout, RoundStepNewHeight, RoundStepNewRound, RoundStepPropose,
         RoundStepPrevoteWait, RoundStepPrecommitWait
<1>2. Reached(s, h, r)
  <2>1. TickReached(ti, s) /\ s.height \in Nat
    BY <1>s, FieldTypes DEF NodeOK
  <2>. QED
    BY <1>0, <2>1 DEF TickReached, Reached
<1> HIDE DEF h, r, t
<1>3. Advances(s, EnterNewRound(n, s, h, 0))
  BY <1>0, EnterNewRoundStep
<1>4. Advances(s, EnterPropose(n, s, h, 0))
  BY <1>0, EnterProposeStep
<1>5. Advances(s, EnterPrevote(n, s, h, r))
  BY <1>0, <1>2, EnterPrevoteStep
<1>6. Advances(s, u)
  BY <1>0, <1>2, EnterPrecommitStep
<1> HIDE DEF u
<1> DEFINE k == r + 1
<1>7. k \in Nat
  BY <1>0
<1> HIDE DEF k
<1>8. Advances(u, EnterNewRound(n, u, h, k))
  BY <1>0, <1>6, <1>7, EnterNewRoundStep DEF Advances
<1>9. Advances(s, EnterNewRound(n, u, h, k))
  BY <1>6, <1>8, AdvancesTransitive DEF Advances
<1>10. Advances(s, t)
  BY <1>1, <1>3, <1>4, <1>5, <1>6, <1>9, AdvancesReflexive, PanicStep DEF k
<1>. QED
  BY <1>10 DEF t

(* The state processCommitedBlock saves and hands to updateToState.         *)
AtCommitted(s, fb) ==
    SaveBlock([s EXCEPT !.step = RoundStepCommit, !.commitRound = -1,
                        !.lastCommit = fb.commit], fb.block, fb.commit)

(* Getting there is a good step from any step of the node.                  *)
LEMMA AtCommittedStep ==
    ASSUME NEW s, NodeOK(s), NEW fb \in FullBlocks, Len(fb.block) = s.height
    PROVE  LET t == AtCommitted(s, fb)
           IN  Advances(s, t) /\ t.height = s.height
<1> DEFINE b == fb.block
           s1a == [s EXCEPT !.step = RoundStepCommit]
           s1b == [s1a EXCEPT !.commitRound = -1]
           s1 == [s1b EXCEPT !.lastCommit = fb.commit]
<1>s. s \in ConsensusStates
  BY DEF NodeOK
<1>1. b \in Blocks /\ fb.commit \in SUBSET Votes
  BY DEF FullBlocks
<1>2. RoundStepCommit \in RoundStepType /\ -1 \in Rounds
  BY DEF RoundStepCommit, RoundStepType, Rounds
<1>3. s1a \in ConsensusStates
  BY <1>s, <1>2, StepUpdate
<1>4. s1b \in ConsensusStates
  BY <1>2, <1>3, CommitRoundUpdate
<1>5. s1 \in ConsensusStates
  BY <1>1, <1>4, LastCommitUpdate
<1>6. /\ s1.height = s.height /\ s1.round = s.round /\ s1.step = 8
      /\ s1.ticks = s.ticks /\ s1.lastBlock = s.lastBlock
      /\ s1.signed = s.signed
  BY <1>s DEF ConsensusStates, RoundStepCommit
<1>7. AtCommitted(s, fb) = SaveBlock(s1, b, fb.commit)
  BY DEF AtCommitted
<1> HIDE DEF s1, b
<1>8. s.height \in Nat /\ s.round \in Nat /\ s.step \in RoundStepType
  BY <1>s, FieldTypes
<1>9. Forward(s, s1)
  BY <1>6, <1>8 DEF Forward, RoundStepType
<1>10. Advances(s, s1)
  BY <1>5, <1>6, <1>9, StepAdvances DEF NodeOK
<1>11. LET u == SaveBlock(s1, b, fb.commit)
       IN  Advances(s1, u) /\ u.height = s.height
  BY <1>1, <1>6, <1>10, SaveBlockStep DEF Advances
<1>. QED
  BY <1>7, <1>10, <1>11, AdvancesTransitive

(* processCommitedBlock is a good step.                                     *)
LEMMA ProcessCommittedBlockStep ==
    ASSUME NEW n \in Correct, NEW s, NodeOK(s), NEW fb \in FullBlocks
    PROVE  Advances(s, ProcessCommittedBlock(n, s, fb))
<1> DEFINE u == AtCommitted(s, fb)
           w == UpdateToState(u, fb.block)
           t == ProcessCommittedBlock(n, s, fb)
<1>1. fb.block \in Blocks
  BY DEF FullBlocks
<1>2. CASE t = s
  BY <1>2, AdvancesReflexive
<1>3. CASE /\ Len(fb.block) = s.height
           /\ t \in {EnterNewRound(n, w, w.height, 0), ScheduleRound0(w)}
  <2>1. Advances(s, u) /\ u.height = s.height
    BY <1>3, AtCommittedStep
  <2> HIDE DEF t, u
  <2>2. Advances(u, w)
    BY <1>1, <1>3, <2>1, UpdateToStateStep DEF Advances
  <2> HIDE DEF w
  <2>3. Advances(w, t)
    <3>1. NodeOK(w) /\ w.height \in Nat /\ 0 \in Nat
      BY <2>2, FieldTypes DEF Advances, NodeOK
    <3>2. Advances(w, EnterNewRound(n, w, w.height, 0))
      BY <3>1, EnterNewRoundStep
    <3>3. Advances(w, ScheduleRound0(w))
      BY <3>1, ScheduleRound0Step
    <3>. QED
      BY <1>3, <3>2, <3>3
  <2>4. Advances(s, t)
    BY <2>1, <2>2, <2>3, AdvancesTransitive DEF Advances
  <2>. QED
    BY <2>4 DEF t
<1>. QED
  BY <1>2, <1>3 DEF ProcessCommittedBlock, AtCommitted

-----------------------------------------------------------------------------

(* The inductive invariant: every correct node is good.                     *)
Inv ==
    /\ cs \in [Correct -> ConsensusStates]
    /\ net \subseteq Messages
    /\ \A n \in Correct : NodeOK(cs[n])

(* A new node is good.                                                      *)
LEMMA InitInv == Init => Inv
<1> SUFFICES ASSUME Init PROVE Inv
  OBVIOUS
<1> DEFINE s == NewConsensusState
           ti == [height |-> InitialHeight, round |-> 0, step |-> RoundStepNewHeight]
<1>1. cs = [n \in Correct |-> s] /\ net = {}
  BY DEF Init
<1>2. ti \in Ticks /\ ti.height = 1 /\ ti.round = 0
  BY DEF Ticks, InitialHeight, RoundStepNewHeight, RoundStepType
<1>3. /\ s.height = 1 /\ s.round = 0 /\ s.step = 1 /\ s.lastBlock = <<>>
      /\ s.ticks = {ti} /\ s.signed = {} /\ s.lastBlock = <<>>
  BY DEF NewConsensusState, InitialHeight, RoundStepNewHeight, Nil
<1>4. s \in ConsensusStates
  <2>1. {ti} \in SUBSET Ticks /\ InitialHeight \in Nat /\ -1 \in Rounds
        /\ RoundStepNewHeight \in RoundStepType
    BY <1>2 DEF InitialHeight, Rounds, RoundStepNewHeight, RoundStepType
  <2>2. <<>> \in Seq(FullBlocks) /\ <<>> \in Seq(Messages) /\ Nil \in Blocks
    BY NilType
  <2>. HIDE DEF ti
  <2>. QED
    BY <2>1, <2>2 DEF NewConsensusState, ConsensusStates, ti
<1> HIDE DEF s, ti
<1>5. NodeOK(s)
  BY <1>2, <1>3, <1>4 DEF NodeOK, TickReached
<1>. QED
  BY <1>1, <1>4, <1>5 DEF Inv

(* A good step of one node is a good step of all of them.                   *)
LEMMA BecomesStep ==
    ASSUME Inv, NEW n \in Correct, NEW s, Advances(cs[n], s), Becomes(n, s)
    PROVE  /\ cs' \in [Correct -> ConsensusStates]
           /\ \A m \in Correct : Advances(cs[m], cs'[m])
<1>1. s \in ConsensusStates
  BY DEF Advances, NodeOK
<1>2. cs' = [cs EXCEPT ![n] = s] /\ cs \in [Correct -> ConsensusStates]
  BY DEF Becomes, Inv
<1>3. ASSUME NEW m \in Correct
      PROVE  Advances(cs[m], cs'[m])
  <2>1. Advances(cs[m], cs[m])
    BY AdvancesReflexive DEF Inv
  <2>. QED
    BY <1>2, <2>1
<1>. QED
  BY <1>1, <1>2, <1>3

(* Whatever arrives is a message.                                           *)
LEMMA HandleMsgType ==
    ASSUME Inv, NEW n \in Correct, NEW m \in net \cup FaultyMsgs
    PROVE  m \in Messages
  BY FaultyAssumption DEF Inv

(* Taking the next own message is a good step.                              *)
LEMMA DequeueStep ==
    ASSUME NEW s, NodeOK(s), s.internalMsgQueue # <<>>
    PROVE  /\ Head(s.internalMsgQueue) \in Messages
           /\ Advances(s, [s EXCEPT !.internalMsgQueue = Tail(@)])
<1> DEFINE q == Tail(s.internalMsgQueue)
           t == [s EXCEPT !.internalMsgQueue = q]
<1>s. s \in ConsensusStates
  BY DEF NodeOK
<1>1. s.internalMsgQueue \in Seq(Messages)
  BY <1>s, FieldTypes
<1>2. q \in Seq(Messages) /\ Head(s.internalMsgQueue) \in Messages
  BY <1>1
<1> HIDE DEF q
<1>3. t \in ConsensusStates
  BY <1>s, <1>2, QueueUpdate
<1>4. /\ t.height = s.height /\ t.round = s.round /\ t.step = s.step
      /\ t.ticks = s.ticks /\ t.lastBlock = s.lastBlock
      /\ t.signed = s.signed
  BY <1>s DEF ConsensusStates
<1> HIDE DEF t
<1>5. Forward(s, t)
  BY <1>s, <1>4, ForwardReflexive DEF Forward
<1>6. Advances(s, t)
  BY <1>3, <1>4, <1>5, StepAdvances DEF NodeOK
<1>. QED
  BY <1>2, <1>6 DEF t, q

(* A block that block sync delivers is a block with precommits.             *)
LEMMA CommittedBlockIsFull ==
    ASSUME TypeOK, NEW n \in Correct, cs[n].height > 0,
           NEW fb \in Stored(cs[n].height) \cup Justified(cs[n].height)
    PROVE  fb \in FullBlocks
<1> DEFINE h == cs[n].height
<1>1. h \in Nat /\ h > 0
  BY FieldTypes DEF TypeOK
<1>2. CASE fb \in Stored(h)
  <2>1. PICK m \in Correct : /\ Len(cs[m].blockStore) >= h
                             /\ fb = cs[m].blockStore[h]
    BY <1>2 DEF Stored
  <2>2. cs[m].blockStore \in Seq(FullBlocks)
    BY FieldTypes DEF TypeOK
  <2>. QED
    BY <1>1, <2>1, <2>2
<1>3. CASE fb \in Justified(h)
  <2> DEFINE precommits == {v \in net \cup FaultyMsgs :
                                v.type = "precommit" /\ v.height = h}
  <2>1. precommits \subseteq Votes
    <3>1. ASSUME NEW v \in precommits
          PROVE  v \in Votes
      <4>1. v \in Messages /\ v.type = "precommit"
        BY FaultyAssumption DEF TypeOK
      <4>. QED
        BY <4>1 DEF Messages, Proposals
    <3>. QED
      BY <3>1
  <2>2. PICK v \in precommits, Q \in Quorums :
            fb = [block |-> v.block,
                  commit |-> {w \in precommits : /\ w.round = v.round
                                                 /\ w.block = v.block
                                                 /\ w.val \in Q}]
    BY <1>3 DEF Justified
  <2>3. v.block \in Blocks
    BY <2>1 DEF Votes
  <2> DEFINE commit == {w \in precommits : /\ w.round = v.round
                                           /\ w.block = v.block
                                           /\ w.val \in Q}
  <2>4. commit \in SUBSET Votes
    BY <2>1
  <2> HIDE DEF precommits
  <2>5. fb = [block |-> v.block, commit |-> commit]
    BY <2>2
  <2> HIDE DEF commit
  <2>. QED
    BY <2>3, <2>4, <2>5 DEF FullBlocks
<1>. QED
  BY <1>2, <1>3

(* In particular at the heights that nodes reach.                           *)
LEMMA CommittedBlockType ==
    ASSUME Inv, NEW n \in Correct,
           NEW fb \in Stored(cs[n].height) \cup Justified(cs[n].height)
    PROVE  fb \in FullBlocks
<1>1. TypeOK
  BY DEF TypeOK, Inv
<1>2. cs[n].height > 0
  <2>1. cs[n].lastBlock \in Blocks /\ cs[n].height = Len(cs[n].lastBlock) + 1
    BY FieldTypes DEF Inv, NodeOK
  <2>. QED
    BY <2>1 DEF Blocks
<1>. QED
  BY <1>1, <1>2, CommittedBlockIsFull

(* Every action keeps the invariant and is a good step of every node.       *)
LEMMA NextStep ==
    ASSUME Inv, Next
    PROVE  Inv' /\ \A n \in Correct : Advances(cs[n], cs'[n])
<1>1. PICK n \in Correct :
          \/ \E m \in net \cup FaultyMsgs : HandlePeerMsg(n, m)
          \/ HandleInternalMsg(n)
          \/ \E ti \in cs[n].ticks : HandleTock(n, ti)
          \/ \E fb \in Stored(cs[n].height) \cup Justified(cs[n].height) :
                 HandleCommittedBlock(n, fb)
          \/ HandleSyncTimer(n)
  BY DEF Next
<1>2. NodeOK(cs[n])
  BY DEF Inv
<1> DEFINE Taken == /\ net' \subseteq Messages
                    /\ \E s : Advances(cs[n], s) /\ Becomes(n, s)
<1>3. Taken
  <2>1. ASSUME NEW m \in net \cup FaultyMsgs, HandlePeerMsg(n, m)
        PROVE  Taken
    <3>1. m \in Messages
      BY HandleMsgType
    <3>2. Advances(cs[n], HandleMsg(n, cs[n], m))
      BY <1>2, <3>1, HandleMsgStep
    <3>3. Becomes(n, HandleMsg(n, cs[n], m)) /\ net' \in {net, net \cup {m}}
      BY <2>1 DEF HandlePeerMsg, TakeMsg
    <3>. QED
      BY <3>1, <3>2, <3>3 DEF Inv
  <2>2. CASE HandleInternalMsg(n)
    <3> DEFINE s == [cs[n] EXCEPT !.internalMsgQueue = Tail(@)]
               m == Head(cs[n].internalMsgQueue)
    <3>1. m \in Messages /\ Advances(cs[n], s)
      BY <1>2, <2>2, DequeueStep DEF HandleInternalMsg
    <3>2. Becomes(n, HandleMsg(n, s, m)) /\ net' \in {net, net \cup {m}}
      BY <2>2 DEF HandleInternalMsg, TakeMsg
    <3> HIDE DEF s, m
    <3>3. Advances(s, HandleMsg(n, s, m))
      BY <3>1, HandleMsgStep DEF Advances
    <3>4. Advances(cs[n], HandleMsg(n, s, m))
      BY <1>2, <3>1, <3>3, AdvancesTransitive
    <3>. QED
      BY <3>1, <3>2, <3>4 DEF Inv
  <2>3. ASSUME NEW ti \in cs[n].ticks, HandleTock(n, ti)
        PROVE  Taken
    <3>1. Advances(cs[n], HandleTimeout(n, cs[n], ti))
      BY <1>2, HandleTimeoutStep
    <3>. QED
      BY <2>3, <3>1 DEF HandleTock, Inv
  <2>4. ASSUME NEW fb \in Stored(cs[n].height) \cup Justified(cs[n].height),
               HandleCommittedBlock(n, fb)
        PROVE  Taken
    <3>1. fb \in FullBlocks
      BY CommittedBlockType
    <3>2. Advances(cs[n], ProcessCommittedBlock(n, cs[n], fb))
      BY <1>2, <3>1, ProcessCommittedBlockStep
    <3>. QED
      BY <2>4, <3>2 DEF HandleCommittedBlock, Inv
  <2>5. CASE HandleSyncTimer(n)
    BY <1>2, <2>5, PanicStep DEF HandleSyncTimer, Inv
  <2>. QED
    BY <1>1, <2>1, <2>2, <2>3, <2>4, <2>5
<1>4. /\ cs' \in [Correct -> ConsensusStates]
      /\ \A m \in Correct : Advances(cs[m], cs'[m])
  BY <1>3, BecomesStep
<1>. QED
  BY <1>3, <1>4 DEF Inv, Advances

(* Steps and stuttering keep the invariant.                                 *)
LEMMA InvStep ==
  ASSUME Inv, [Next]_vars
  PROVE  Inv'
<1>1. CASE Next
  BY <1>1, NextStep
<1>2. CASE UNCHANGED vars
  BY <1>2 DEF vars, Inv, NodeOK, TickReached, SignedAt
<1>. QED
  BY <1>1, <1>2

(* The inductive invariant holds in every reachable state.                  *)
THEOREM Invariance == Spec => []Inv
<1>1. Inv /\ [Next]_vars => Inv'
  BY InvStep
<1>. QED
  BY <1>1, InitInv, PTL DEF Spec

(* Every reachable state is well typed: the rounds of locks and POLs, the   *)
(* own queue and the timers that the cascades of receiveRoutine compute.    *)
THEOREM TypeCorrectness == Spec => []TypeOK
<1>1. Inv => TypeOK
  BY DEF Inv, TypeOK
<1>. QED
  BY <1>1, Invariance, PTL

(* A correct validator never signs two votes of a type for one height and   *)
(* round, whatever it receives and whichever of its old timers fire.        *)
THEOREM OneVotePerRound == Spec => []NoEquivocation
<1>1. Inv => NoEquivocation
  BY DEF Inv, NodeOK, SameSlot, NoEquivocation
<1>. QED
  BY <1>1, Invariance, PTL

(* No message, timer or block takes a node to an earlier height, round or   *)
(* step.                                                                    *)
THEOREM NeverBackwards == Spec => StepsForward
<1>1. ASSUME Inv, [Next]_vars
      PROVE  [\A n \in Correct :
                 \/ cs'[n].height > cs[n].height
                 \/ /\ cs'[n].height = cs[n].height
                    /\ \/ cs'[n].round > cs[n].round
                       \/ cs'[n].round = cs[n].round
                          /\ cs'[n].step >= cs[n].step]_vars
  BY <1>1, NextStep DEF Advances, Forward
<1>. QED
  BY <1>1, Invariance, PTL DEF Spec, StepsForward
=============================================================================

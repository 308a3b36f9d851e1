------------------------------ MODULE SyncProofs ------------------------------
(***************************************************************************)
(* The synchronous network and consensus sync add no behaviour of their    *)
(* own: each of their steps is one of Consensus, so that what is proved of *)
(* Consensus holds in them.  For sync requests that takes an argument: the *)
(* only full block that an answer can hold is the one which the peer has   *)
(* stored for the height of the node that asks.                            *)
(*                                                                         *)
(* Restarts do add behaviours: a node that has lost what it signed may     *)
(* sign against it.  What they leave intact is the chain of a node, its    *)
(* store and its LastCommit (RestartInv), whatever the nodes have signed.  *)
(***************************************************************************)
EXTENDS ConsensusSync, ConsensusRestart, ConsensusSafetyProofs

(* A message is no full block.                                              *)
LEMMA MessageIsNoBlock ==
  ASSUME NEW m \in Messages
  PROVE  m \notin FullBlocks
<1> SUFFICES ASSUME m \in FullBlocks
             PROVE  FALSE
  OBVIOUS
<1>1. DOMAIN m = {"block", "commit"}
  BY DEF FullBlocks
<1>2. "type" \in DOMAIN m
  BY DEF Messages, Votes, Proposals
<1>. QED
  BY <1>1, <1>2

(* A peer that is ahead has the block of every height up to its own, and no *)
(* other answer is a full block.                                            *)
LEMMA AnswerIsStored ==
  ASSUME Inv, SafetyInv, NEW n \in Correct, NEW m \in Correct,
         NEW fb \in ProcessSyncRequest(cs[m], CreateSyncRequest(cs[n])), fb \in FullBlocks
  PROVE  /\ Len(cs[m].blockStore) >= cs[n].height
         /\ fb = cs[m].blockStore[cs[n].height]
<1> DEFINE s == cs[m]
           h == cs[n].height
           req == CreateSyncRequest(cs[n])
<1>1. req.height = h
  BY DEF CreateSyncRequest
<1>2. /\ s \in ConsensusStates /\ cs[n] \in ConsensusStates
      /\ s.height = Len(s.lastBlock) + 1
      /\ Len(s.blockStore) = Len(s.lastBlock)
  BY DEF Inv, SafetyInv, Accounted, Grounded, NodeOK, StoreOK
<1>3. /\ s.votes \subseteq Votes /\ s.height \in Nat /\ h \in Nat
      /\ s.proposal \in Proposals \cup {NoProposal}
      /\ s.blockStore \in Seq(FullBlocks)
      /\ Len(s.lastBlock) \in Nat
  BY <1>2 DEF ConsensusStates, Blocks
<1>4. CASE h < InitialHeight \/ h > s.height
  BY <1>1, <1>4 DEF ProcessSyncRequest
<1>5. CASE h >= InitialHeight /\ h < s.height
  <2>1. h \in 1..Len(s.blockStore)
    BY <1>2, <1>3, <1>5 DEF InitialHeight
  <2>2. fb \in {s.blockStore[h]} \cup s.blockStore[h].commit
    BY <1>1, <1>3, <1>5 DEF ProcessSyncRequest, InitialHeight
  <2>3. s.blockStore[h].commit \subseteq Messages
    <3>1. s.blockStore[h] \in FullBlocks
      BY <1>3, <2>1, ElementOfSeq
    <3>. QED
      BY <3>1 DEF FullBlocks, Messages
  <2>4. fb = s.blockStore[h]
    BY <2>2, <2>3, MessageIsNoBlock
  <2>. QED
    BY <1>3, <2>1, <2>4
<1>6. CASE h = s.height
  <2>1. \/ fb = s.proposal /\ s.proposal # NoProposal
        \/ fb \in Prevotes(s, req.round) \/ fb \in Precommits(s, req.round)
    BY <1>1, <1>3, <1>6 DEF ProcessSyncRequest, AppendDiffVotes
  <2>2. Prevotes(s, req.round) \subseteq Votes /\ Precommits(s, req.round) \subseteq Votes
    BY <1>3 DEF Prevotes, Precommits
  <2>3. fb \in Messages
    BY <2>1, <2>2, <1>3 DEF Messages
  <2>. QED
    BY <2>3, MessageIsNoBlock
<1>. QED
  BY <1>3, <1>4, <1>5, <1>6 DEF InitialHeight

(* A step of the synchronous network is one of Consensus.                   *)
LEMMA SynchronousStep == SynchronousNext => Next
BY DEF SynchronousNext, Delivery, FaultyDelivery, PatientTock, Next

(* And so is one with sync requests.                                        *)
LEMMA SyncStep ==
  ASSUME Inv, SafetyInv, SyncNext
  PROVE  Next
<1>1. CASE SynchronousNext
  BY <1>1, SynchronousStep
<1>2. CASE \E n \in Correct : FetchBlock(n)
  <2>1. PICK n \in Correct : \E fb \in Fetched(n) : HandleCommittedBlock(n, fb)
    BY <1>2 DEF FetchBlock
  <2>2. PICK fb \in Fetched(n) : HandleCommittedBlock(n, fb)
    BY <2>1
  <2>3. PICK m \in Correct \ {n} :
          fb \in ProcessSyncRequest(cs[m], CreateSyncRequest(cs[n])) /\ fb \in FullBlocks
    BY DEF Fetched
  <2>4. fb \in Stored(cs[n].height)
    BY <2>3, AnswerIsStored DEF Stored
  <2>. QED
    BY <2>2, <2>4 DEF Next
<1>. QED
  BY <1>1, <1>2 DEF SyncNext

-----------------------------------------------------------------------------

(* Patience, delivery and fairness only leave behaviours of Consensus out.  *)
THEOREM SynchronousImplementsConsensus == SynchronousSpec => Spec
<1>1. [SynchronousNext]_vars => [Next]_vars
  BY SynchronousStep
<1>. QED
  BY <1>1, PTL DEF SynchronousSpec, Spec

(* createSyncRequest, processSyncRequest and processCommitedBlock together  *)
(* give a node nothing but blocks that a peer has committed: consensus with *)
(* sync requests implements Consensus, whose environment may hand over any. *)
THEOREM SyncImplementsConsensus == SyncSpec => Spec
<1>1. SyncSpec => Init /\ [][SyncNext]_vars
  BY PTL DEF SyncSpec
<1>2. Inv /\ SafetyInv /\ [SyncNext]_vars => [Next]_vars
  BY SyncStep
<1>3. Inv /\ SafetyInv /\ [Next]_vars => (Inv /\ SafetyInv)'
  BY InvStep, SafetyStep
<1>4. Init => Inv /\ SafetyInv
  BY InitInv, InitSafety
<1>. QED
  BY <1>1, <1>2, <1>3, <1>4, PTL DEF Spec

(* So what sync brings cannot part two nodes, nor lead one into a panic     *)
(* that is not at a nil vote set (createSyncRequest itself may be at one),  *)
(* nor leave its store behind its chain.                                    *)
THEOREM SyncIsSafe ==
  SyncSpec => [](/\ TypeOK /\ Agreement /\ PanicsAtNilOnly /\ LockHeld
                 /\ StoreMatchesChain)
BY SyncImplementsConsensus, TypeCorrectness, AgreementHolds, PanicsOnlyAtNil, LocksAreHeld,
   StoreFollowsChain, PTL

-----------------------------------------------------------------------------
(* Restarts.                                                                *)

(* t differs from s in nothing that the chain of a node rests on.           *)
Keeps(s, t) ==
    /\ t \in ConsensusStates
    /\ t.height = s.height /\ t.votes = s.votes
    /\ t.lastBlock = s.lastBlock /\ t.blockStore = s.blockStore
    /\ t.lastCommit = s.lastCommit

(* The inductive invariant of one node: store, chain state and LastCommit   *)
(* are in step, and the votes that may become the next commit are for the   *)
(* node's height.                                                           *)
ChainOK(s) ==
    /\ s \in ConsensusStates
    /\ s.height = Len(s.lastBlock) + 1
    /\ VotesOK(Votes, s.votes, s.height)
    /\ StoreOK(Votes, s.lastBlock, s.blockStore)
    /\ LastCommitOK(s.lastBlock, s.lastCommit)

(* Two steps that leave the chain alone are one.                            *)
LEMMA KeepsChain ==
    ASSUME NEW s, NEW t, NEW u, Keeps(s, t), Keeps(t, u)
    PROVE  Keeps(s, u)
  BY DEF Keeps

(* And so is none.                                                          *)
LEMMA KeepsReflexive ==
    ASSUME NEW s \in ConsensusStates
    PROVE  Keeps(s, s)
  BY DEF Keeps

(* They keep the invariant.                                                 *)
LEMMA KeepsChainOK ==
    ASSUME NEW s, NEW t, ChainOK(s), Keeps(s, t)
    PROVE  ChainOK(t)
  BY DEF Keeps, ChainOK

(* A panic leaves the chain where it is.                                    *)
LEMMA PanicKeeps ==
    ASSUME NEW s \in ConsensusStates
    PROVE  Keeps(s, Panic(s))
<1>1. \A x \in BOOLEAN : [s EXCEPT !.halted = x] \in ConsensusStates
  BY HaltedUpdate
<1>2. Panic(s) \in ConsensusStates
  BY <1>1 DEF Panic
<1>. QED
  BY <1>2 DEF Panic, Keeps, ConsensusStates

(* A timer too.                                                             *)
LEMMA ScheduleTimeoutKeeps ==
    ASSUME NEW s \in ConsensusStates, NEW h \in Nat, NEW r \in Nat, NEW step \in RoundStepType
    PROVE  Keeps(s, ScheduleTimeout(s, h, r, step))
<1>1. ScheduleTimeout(s, h, r, step) \in ConsensusStates
  BY ScheduleTimeoutStep
<1>. QED
  BY <1>1 DEF ScheduleTimeout, Keeps, ConsensusStates

(* To move, with whatever else, leaves the chain alone.                     *)
LEMMA MoveKeeps ==
    ASSUME NEW s, NEW u, Keeps(s, u), NEW r \in Nat, NEW x \in RoundStepType
    PROVE  Keeps(s, [u EXCEPT !.round = r, !.step = x])
<1> DEFINE t == [u EXCEPT !.round = r, !.step = x]
<1>1. u \in ConsensusStates
  BY DEF Keeps
<1>2. t \in ConsensusStates /\ SameCore(u, t)
  BY <1>1, MoveFrame
<1> HIDE DEF t
<1>3. Keeps(s, t)
  BY <1>2 DEF Keeps, SameCore
<1>. QED
  BY <1>3 DEF t

(* So do votes.                                                             *)
LEMMA SignAddVoteKeeps ==
    ASSUME NEW s \in ConsensusStates, NEW n,
           NEW type \in {"prevote", "precommit"}, NEW b \in Blocks
    PROVE  Keeps(s, SignAddVote(n, s, type, b))
<1> DEFINE t == SignAddVote(n, s, type, b)
<1>1. t \in ConsensusStates /\ SameCore(s, t)
  BY SignAddVoteFrame
<1> HIDE DEF t
<1>2. Keeps(s, t)
  BY <1>1 DEF Keeps, SameCore
<1>. QED
  BY <1>2 DEF t

(* The steps of the state machine are steps.                                *)
LEMMA StepTypes ==
    {RoundStepNewHeight, RoundStepNewRound, RoundStepPropose, RoundStepPrevote,
     RoundStepPrevoteWait, RoundStepPrecommit, RoundStepPrecommitWait,
     RoundStepCommit} \subseteq RoundStepType
BY DEF RoundStepType, RoundStepNewHeight, RoundStepNewRound, RoundStepPropose,
       RoundStepPrevote, RoundStepPrevoteWait, RoundStepPrecommit,
       RoundStepPrecommitWait, RoundStepCommit

(* enterPrevote leaves the chain alone.                                     *)
LEMMA EnterPrevoteKeeps ==
    ASSUME NEW n, NEW s \in ConsensusStates, NEW h \in Nat, NEW r \in Nat
    PROVE  Keeps(s, EnterPrevote(n, s, h, r))
<1> DEFINE b == PrevoteValue(s)
           u == SignAddVote(n, s, "prevote", b)
<1>1. b \in Blocks
  BY PrevoteValueType
<1> HIDE DEF b
<1>2. Keeps(s, u)
  BY <1>1, SignAddVoteKeeps
<1> HIDE DEF u
<1>3. Keeps(s, [u EXCEPT !.round = r, !.step = RoundStepPrevote])
  BY <1>2, StepTypes, MoveKeeps
<1>. QED
  BY <1>3, KeepsReflexive DEF EnterPrevote, u, b

(* enterPrevoteWait too, whether it panics or not.                          *)
LEMMA EnterPrevoteWaitKeeps ==
    ASSUME NEW s \in ConsensusStates, NEW h \in Nat, NEW r \in Nat
    PROVE  Keeps(s, EnterPrevoteWait(s, h, r))
<1> DEFINE u == ScheduleTimeout(s, h, r, RoundStepPrevoteWait)
<1>1. Keeps(s, u)
  BY StepTypes, ScheduleTimeoutKeeps
<1> HIDE DEF u
<1>2. Keeps(s, [u EXCEPT !.round = r, !.step = RoundStepPrevoteWait])
  BY <1>1, StepTypes, MoveKeeps
<1>. QED
  BY <1>2, KeepsReflexive, PanicKeeps DEF EnterPrevoteWait, u

(* Locking and unlocking too.                                               *)
LEMMA UpdateLockKeeps ==
    ASSUME NEW s \in ConsensusStates, NEW r \in Nat, NEW polka
    PROVE  Keeps(s, UpdateLock(s, r, polka))
<1>1. UpdateLock(s, r, polka) \in ConsensusStates
  BY UpdateLockStep
<1>. QED
  BY <1>1 DEF UpdateLock, Keeps, ConsensusStates

(* enterPrecommit too.                                                      *)
LEMMA EnterPrecommitKeeps ==
    ASSUME NEW n, NEW s \in ConsensusStates, NEW h \in Nat, NEW r \in Nat
    PROVE  Keeps(s, EnterPrecommit(n, s, h, r))
<1> DEFINE polka == TwoThirdsMajority(Prevotes(s, r))
           b == PrecommitValue(s, polka)
           w == UpdateLock(s, r, polka)
           u == SignAddVote(n, w, "precommit", b)
           t == [u EXCEPT !.round = r, !.step = RoundStepPrecommit]
<1>1. EnterPrecommit(n, s, h, r) \in {s, Panic(s), t}
  BY DEF EnterPrecommit
<1>2. b \in Blocks
  BY PrecommitValueType
<1>3. Keeps(s, w)
  BY UpdateLockKeeps
<1> HIDE DEF b, w
<1>4. Keeps(w, u)
  BY <1>2, <1>3, SignAddVoteKeeps DEF Keeps
<1> HIDE DEF u
<1>5. Keeps(s, u)
  BY <1>3, <1>4, KeepsChain
<1>6. Keeps(s, t)
  BY <1>5, StepTypes, MoveKeeps
<1>. QED
  BY <1>1, <1>6, KeepsReflexive, PanicKeeps

(* enterPrecommitWait too.                                                  *)
LEMMA EnterPrecommitWaitKeeps ==
    ASSUME NEW s \in ConsensusStates, NEW h \in Nat, NEW r \in Nat
    PROVE  Keeps(s, EnterPrecommitWait(s, h, r))
<1> DEFINE u == ScheduleTimeout(s, h, r, RoundStepPrecommitWait)
           t == [u EXCEPT !.triggeredTimeoutPrecommit = TRUE]
<1>1. EnterPrecommitWait(s, h, r) \in {s, Panic(s), t}
  BY DEF EnterPrecommitWait
<1>2. Keeps(s, u)
  BY StepTypes, ScheduleTimeoutKeeps
<1> HIDE DEF u
<1>3. \A x \in BOOLEAN : [u EXCEPT !.triggeredTimeoutPrecommit = x] \in ConsensusStates
  BY <1>2, TriggeredUpdate DEF Keeps
<1>4. t \in ConsensusStates
  BY <1>3
<1>5. Keeps(u, t)
  BY <1>2, <1>4 DEF Keeps, ConsensusStates
<1>. QED
  BY <1>1, <1>2, <1>5, KeepsChain, KeepsReflexive, PanicKeeps

(* A proposal too.                                                          *)
LEMMA DecideProposalKeeps ==
    ASSUME NEW s \in ConsensusStates, NEW n \in Validators \cap Correct,
           NEW h \in Nat, NEW r \in Nat
    PROVE  Keeps(s, DecideProposal(n, s, h, r))
<1>1. DecideProposal(n, s, h, r) \in ConsensusStates
  BY DecideProposalStep
<1>. QED
  BY <1>1 DEF DecideProposal, SendInternalMessage, Keeps, ConsensusStates

(* enterPropose too.                                                        *)
LEMMA EnterProposeKeeps ==
    ASSUME NEW n \in Correct, NEW s \in ConsensusStates, NEW h \in Nat, NEW r \in Nat
    PROVE  Keeps(s, EnterPropose(n, s, h, r))
<1> DEFINE s1 == ScheduleTimeout(s, h, r, RoundStepPropose)
           s2 == IF n \in Validators /\ Proposer(h, r) = n
                 THEN DecideProposal(n, s1, h, r) ELSE s1
           u == [s2 EXCEPT !.round = r, !.step = RoundStepPropose]
<1>1. EnterPropose(n, s, h, r) \in {s, u, EnterPrevote(n, u, h, r)}
  BY DEF EnterPropose
<1>2. Keeps(s, s1)
  BY StepTypes, ScheduleTimeoutKeeps
<1> HIDE DEF s1
<1>3. Keeps(s1, s2)
  <2>1. s1 \in ConsensusStates
    BY <1>2 DEF Keeps
  <2>2. n \in Validators => Keeps(s1, DecideProposal(n, s1, h, r))
    BY <2>1, DecideProposalKeeps
  <2>. QED
    BY <2>1, <2>2, KeepsReflexive
<1> HIDE DEF s2
<1>4. Keeps(s, s2)
  BY <1>2, <1>3, KeepsChain
<1>5. Keeps(s, u)
  BY <1>4, StepTypes, MoveKeeps
<1> HIDE DEF u
<1>6. Keeps(u, EnterPrevote(n, u, h, r))
  BY <1>5, EnterPrevoteKeeps DEF Keeps
<1>. QED
  BY <1>1, <1>5, <1>6, KeepsChain, KeepsReflexive

(* enterNewRound too.                                                       *)
LEMMA EnterNewRoundKeeps ==
    ASSUME NEW n \in Correct, NEW s \in ConsensusStates, NEW h \in Nat, NEW r \in Nat
    PROVE  Keeps(s, EnterNewRound(n, s, h, r))
<1> DEFINE u == SetupNewRound(s, r)
<1>1. EnterNewRound(n, s, h, r) \in {s, EnterPropose(n, u, h, r)}
  BY DEF EnterNewRound
<1>2. Keeps(s, u)
  BY SetupNewRoundStep, SetupNewRoundFrame DEF Keeps, SameCore
<1> HIDE DEF u
<1>3. Keeps(u, EnterPropose(n, u, h, r))
  BY <1>2, EnterProposeKeeps DEF Keeps
<1>. QED
  BY <1>1, <1>2, <1>3, KeepsChain, KeepsReflexive

(* A node that saves a block with a commit VerifyCommit accepts, and makes  *)
(* both its last, keeps the invariant.                                      *)
LEMMA CommitChainOK ==
    ASSUME NEW s, ChainOK(s), NEW c \in ValidContents,
           NEW b \in Blocks, b = Append(s.lastBlock, c), NEW commit \in SUBSET Votes,
           VerifyCommit([block |-> b, commit |-> commit]),
           NEW w \in ConsensusStates, w.height = Len(b) + 1, w.lastBlock = b,
           w.votes = {}, b \in TwoThirdsMajority(w.lastCommit),
           w.blockStore = Append(s.blockStore, [block |-> b, commit |-> commit])
    PROVE  ChainOK(w)
<1> DEFINE fb == [block |-> b, commit |-> commit]
<1>1. fb.block = b /\ fb.commit = commit /\ VerifyCommit(fb)
  OBVIOUS
<1>2. w.blockStore = Append(s.blockStore, fb)
  OBVIOUS
<1> HIDE DEF fb
<1>3. s.lastBlock \in Blocks /\ s.blockStore \in Seq(FullBlocks)
  BY FieldTypes DEF ChainOK
<1>4. StoreOK(Votes, Append(s.lastBlock, c), Append(s.blockStore, fb))
  BY <1>1, <1>3, StoreGrows DEF ChainOK
<1>5. LastCommitOK(w.lastBlock, w.lastCommit)
  BY DEF LastCommitOK
<1>6. VotesOK(Votes, w.votes, w.height)
  BY DEF VotesOK
<1>. QED
  BY <1>2, <1>4, <1>5, <1>6 DEF ChainOK

(* A block that ValidateBlock accepts is the next of the chain, and the     *)
(* store does not have it yet.                                              *)
LEMMA ValidBlockIsNext ==
    ASSUME NEW s, ChainOK(s), NEW b, ValidateBlock(s, b)
    PROVE  /\ b \in Blocks /\ Len(b) = s.height
           /\ Len(s.blockStore) < Len(b)
           /\ \E c \in ValidContents : b = Append(s.lastBlock, c)
<1>1. s.lastBlock \in Blocks /\ s.height = Len(s.lastBlock) + 1
      /\ Len(s.blockStore) = Len(s.lastBlock)
  BY FieldTypes DEF ChainOK, StoreOK
<1>2. PICK c \in ValidContents : b = Append(s.lastBlock, c)
  BY DEF ValidateBlock
<1>. QED
  BY <1>1, <1>2 DEF Blocks

(* A store with one more block is a store.                                  *)
LEMMA SaveBlockType ==
    ASSUME NEW s \in ConsensusStates, NEW b \in Blocks, NEW commit \in SUBSET Votes
    PROVE  [s EXCEPT !.blockStore = Append(@, [block |-> b, commit |-> commit])]
               \in ConsensusStates
<1> DEFINE store == Append(s.blockStore, [block |-> b, commit |-> commit])
<1>1. [block |-> b, commit |-> commit] \in FullBlocks /\ s.blockStore \in Seq(FullBlocks)
  BY FieldTypes DEF FullBlocks
<1>2. store \in Seq(FullBlocks)
  BY <1>1
<1> HIDE DEF store
<1>3. [s EXCEPT !.blockStore = store] \in ConsensusStates
  BY <1>2, BlockStoreUpdate
<1>. QED
  BY <1>3 DEF store

(* scheduleRound0 leaves the chain alone.                                   *)
LEMMA ScheduleRound0Keeps ==
    ASSUME NEW s \in ConsensusStates
    PROVE  Keeps(s, ScheduleRound0(s))
<1> DEFINE h == s.height
           r == 0
<1>1. h \in Nat /\ r \in Nat
  BY FieldTypes
<1> HIDE DEF h, r
<1>2. Keeps(s, ScheduleTimeout(s, h, r, RoundStepNewHeight))
  BY <1>1, StepTypes, ScheduleTimeoutKeeps
<1>. QED
  BY <1>2, KeepsReflexive DEF ScheduleRound0, h, r

(* finalizeCommit with 2/3 of the precommits for the proposal block does    *)
(* not panic between saveBlock and updateToState, which would leave the     *)
(* store a block ahead of the chain.                                        *)
LEMMA FinalizeCommitChain ==
    ASSUME NEW s, ChainOK(s),
           s.proposalBlock \in TwoThirdsMajority(Precommits(s, s.commitRound))
    PROVE  ChainOK(FinalizeCommit(s))
<1> DEFINE b == s.proposalBlock
           precommits == Precommits(s, s.commitRound)
           commit == MakeCommit(precommits)
           fb == [block |-> b, commit |-> commit]
           u == [s EXCEPT !.blockStore = Append(@, fb)]
           w == UpdateToState(u, b)
<1>s. s \in ConsensusStates
  BY DEF ChainOK
<1>1. CASE ~ValidateBlock(s, b)
  BY <1>1, <1>s, PanicKeeps, KeepsChainOK DEF FinalizeCommit
<1>2. CASE ValidateBlock(s, b)
  <2>1. /\ b \in Blocks /\ Len(b) = s.height
        /\ Len(s.blockStore) < Len(b)
    BY <1>2, ValidBlockIsNext
  <2>2. PICK c \in ValidContents : b = Append(s.lastBlock, c)
    BY <1>2, ValidBlockIsNext
  <2>3. commit \in SUBSET Votes /\ VerifyCommit([block |-> b, commit |-> commit])
    BY <1>s, <2>1, PrecommitsVerify DEF ChainOK
  <2>4. FinalizeCommit(s) = ScheduleRound0(w)
    BY <1>2, <2>1 DEF FinalizeCommit, SaveBlock
  <2>5. s.commitRound \in Nat
    BY <1>s, FieldTypes DEF TwoThirdsMajority, Precommits, Votes
  <2>6. u \in ConsensusStates
    BY <1>s, <2>1, <2>3, SaveBlockType
  <2>7. b \in TwoThirdsMajority(precommits)
    OBVIOUS
  <2>8. u = [s EXCEPT !.blockStore = Append(s.blockStore, fb)]
    OBVIOUS
  <2> HIDE DEF u, b, fb
  <2>9. /\ u.blockStore = Append(s.blockStore, fb) /\ u.votes = s.votes
        /\ u.commitRound = s.commitRound /\ u.height = s.height
        /\ u.lastBlock = s.lastBlock
    BY <1>s, <2>8 DEF ConsensusStates
  <2>10. Precommits(u, u.commitRound) = precommits
    BY <2>9 DEF Precommits
  <2> HIDE DEF commit, precommits
  <2>11. ~UpdateToStatePanics(u, b)
    BY <2>1, <2>5, <2>7, <2>9, <2>10 DEF UpdateToStatePanics, ChainOK
  <2>12. /\ w.height = Len(b) + 1 /\ w.lastBlock = b /\ w.votes = {}
         /\ w.lastCommit = precommits /\ w.blockStore = u.blockStore
    <3>1. u.commitRound > -1
      BY <2>5, <2>9
    <3>. QED
      BY <2>6, <2>10, <2>11, <3>1, UpdateToStateFrame
  <2>13. w \in ConsensusStates
    BY <2>1, <2>6, UpdateToStateType
  <2> HIDE DEF w
  <2>14. ChainOK(w)
    <3>1. w.blockStore = Append(s.blockStore, [block |-> b, commit |-> commit])
      BY <2>9, <2>12 DEF fb
    <3>. QED
      BY <2>1, <2>2, <2>3, <2>7, <2>12, <2>13, <3>1, CommitChainOK
  <2>. QED
    BY <2>4, <2>13, <2>14, ScheduleRound0Keeps, KeepsChainOK
<1>. QED
  BY <1>1, <1>2

(* tryFinalizeCommit keeps the invariant.                                   *)
LEMMA TryFinalizeCommitChain ==
    ASSUME NEW s, ChainOK(s)
    PROVE  ChainOK(TryFinalizeCommit(s))
  BY FinalizeCommitChain DEF TryFinalizeCommit, HashTo

(* enterCommit keeps it.                                                    *)
LEMMA EnterCommitChain ==
    ASSUME NEW s, ChainOK(s), NEW h \in Nat, NEW r \in Nat
    PROVE  ChainOK(EnterCommit(s, h, r))
<1> DEFINE b == CommitValue(s, TwoThirdsMajority(Precommits(s, r)))
           s1 == [s EXCEPT !.proposalBlock = b]
           s2 == [s1 EXCEPT !.step = RoundStepCommit]
           u == [s2 EXCEPT !.commitRound = r]
<1>s. s \in ConsensusStates
  BY DEF ChainOK
<1>1. EnterCommit(s, h, r) \in {s, Panic(s), TryFinalizeCommit(u)}
  BY DEF EnterCommit
<1>2. b \in Blocks /\ r \in Rounds
  BY <1>s, FieldTypes, NilType DEF CommitValue, Rounds
<1> HIDE DEF b
<1>3. s1 \in ConsensusStates
  BY <1>s, <1>2, ProposalBlockUpdate
<1>4. s2 \in ConsensusStates
  BY <1>3, StepTypes, StepUpdate
<1>5. u \in ConsensusStates
  BY <1>2, <1>4, CommitRoundUpdate
<1>6. Keeps(s, u)
  BY <1>s, <1>5 DEF Keeps, ConsensusStates
<1> HIDE DEF u
<1>7. ChainOK(u)
  BY <1>6, KeepsChainOK
<1>. QED
  BY <1>s, <1>1, <1>7, TryFinalizeCommitChain, PanicKeeps, KeepsChainOK

(* Taking a proposal leaves the chain alone.                                *)
LEMMA WithProposalKeeps ==
    ASSUME NEW s \in ConsensusStates, NEW p \in Proposals
    PROVE  Keeps(s, WithProposal(s, p))
<1> DEFINE s0 == [s EXCEPT !.proposal = p]
           s1 == [s0 EXCEPT !.proposalBlock = p.block]
           s1a == [s1 EXCEPT !.validRound = s.round]
           s1b == [s1a EXCEPT !.validBlock = p.block]
<1>1. p.block \in Blocks /\ p \in Proposals \cup {NoProposal} /\ s.round \in Rounds
  BY FieldTypes DEF Proposals, Rounds
<1>2. s0 \in ConsensusStates
  BY <1>1, ProposalUpdate
<1>3. s1 \in ConsensusStates
  BY <1>1, <1>2, ProposalBlockUpdate
<1>4. s1a \in ConsensusStates
  BY <1>1, <1>3, ValidRoundUpdate
<1>5. s1b \in ConsensusStates
  BY <1>1, <1>4, ValidBlockUpdate
<1>6. WithProposal(s, p) \in {s1, s1b}
  BY DEF WithProposal
<1>7. Keeps(s, s1) /\ Keeps(s, s1b)
  BY <1>3, <1>5 DEF Keeps, ConsensusStates
<1>. QED
  BY <1>6, <1>7

(* defaultSetProposal keeps the invariant, with a late proposal as well     *)
(* that completes a commit.                                                 *)
LEMMA SetProposalChain ==
    ASSUME NEW n, NEW s, ChainOK(s), NEW p \in Proposals
    PROVE  ChainOK(SetProposal(n, s, p))
<1> DEFINE h == s.height
           r == s.round
           u == WithProposal(s, p)
           s3 == EnterPrevote(n, u, h, r)
           s4 == EnterPrecommit(n, s3, h, r)
<1>s. s \in ConsensusStates /\ h \in Nat /\ r \in Nat
  BY FieldTypes DEF ChainOK
<1>1. SetProposal(n, s, p) \in {u, s3, s4, TryFinalizeCommit(u)}
  BY DEF SetProposal, WithProposal
<1>2. Keeps(s, u)
  BY <1>s, WithProposalKeeps
<1> HIDE DEF u, h, r
<1>3. Keeps(u, s3)
  BY <1>s, <1>2, EnterPrevoteKeeps DEF Keeps
<1> HIDE DEF s3
<1>4. Keeps(s3, s4)
  BY <1>s, <1>3, EnterPrecommitKeeps DEF Keeps
<1> HIDE DEF s4
<1>. QED
  BY <1>1, <1>2, <1>3, <1>4, KeepsChainOK, TryFinalizeCommitChain

(* A vote of the node's height changes only the votes.                      *)
LEMMA WithVoteChain ==
    ASSUME NEW s, ChainOK(s), NEW vote \in Votes, vote.height = s.height
    PROVE  ChainOK([s EXCEPT !.votes = @ \cup {vote}])
<1> DEFINE votes == s.votes \cup {vote}
           t == [s EXCEPT !.votes = votes]
<1>s. s \in ConsensusStates
  BY DEF ChainOK
<1>1. votes \in SUBSET Votes /\ VotesOK(Votes, votes, s.height)
  BY <1>s, FieldTypes DEF ChainOK, VotesOK
<1> HIDE DEF votes
<1>2. t \in ConsensusStates
  BY <1>s, <1>1, VotesUpdate
<1>3. /\ t.height = s.height /\ t.votes = votes
      /\ t.lastBlock = s.lastBlock /\ t.blockStore = s.blockStore
      /\ t.lastCommit = s.lastCommit
  BY <1>s DEF ConsensusStates
<1> HIDE DEF t
<1>4. ChainOK(t)
  BY <1>1, <1>2, <1>3 DEF ChainOK
<1>. QED
  BY <1>4 DEF t, votes

(* A late precommit leaves LastCommit a commit of the last block.           *)
LEMMA LateCommitChain ==
    ASSUME NEW s, ChainOK(s), NEW vote \in Votes
    PROVE  ChainOK([s EXCEPT !.lastCommit = @ \cup {vote}])
<1> DEFINE commit == s.lastCommit \cup {vote}
           t == [s EXCEPT !.lastCommit = commit]
<1>s. s \in ConsensusStates
  BY DEF ChainOK
<1>1. /\ s.lastCommit \in SUBSET Votes /\ commit \in SUBSET Votes
      /\ s.lastCommit \subseteq commit
  BY <1>s, FieldTypes
<1> HIDE DEF commit
<1>2. LastCommitOK(s.lastBlock, commit)
  BY <1>1, MajorityGrows DEF LastCommitOK, ChainOK
<1>3. t \in ConsensusStates
  BY <1>s, <1>1, LastCommitUpdate
<1>4. /\ t.height = s.height /\ t.votes = s.votes
      /\ t.lastBlock = s.lastBlock /\ t.blockStore = s.blockStore
      /\ t.lastCommit = commit
  BY <1>s DEF ConsensusStates
<1> HIDE DEF t
<1>5. ChainOK(t)
  BY <1>2, <1>3, <1>4 DEF ChainOK
<1>. QED
  BY <1>5 DEF t, commit

(* Unlocking leaves the chain alone.                                        *)
LEMMA UnlockKeeps ==
    ASSUME NEW s \in ConsensusStates
    PROVE  Keeps(s, [s EXCEPT !.lockedRound = -1, !.lockedBlock = Nil])
<1> DEFINE s1 == [s EXCEPT !.lockedRound = -1]
           t == [s1 EXCEPT !.lockedBlock = Nil]
<1>1. -1 \in Rounds
  BY DEF Rounds
<1>2. s1 \in ConsensusStates
  BY <1>1, LockedRoundUpdate
<1>3. t \in ConsensusStates
  BY <1>2, NilType, LockedBlockUpdate
<1>. QED
  BY <1>3 DEF Keeps, ConsensusStates

(* So does the valid block.                                                 *)
LEMMA UpdateValidKeeps ==
    ASSUME NEW s \in ConsensusStates, NEW vote \in Votes, NEW polka
    PROVE  Keeps(s, UpdateValid(s, vote, polka))
<1> DEFINE s1 == [s EXCEPT !.validRound = vote.round]
           s2 == [s1 EXCEPT !.validBlock = s.proposalBlock]
           s3 == [s EXCEPT !.proposalBlock = Nil]
<1>1. vote.round \in Rounds /\ s.proposalBlock \in Blocks
  BY FieldTypes DEF Votes, Rounds
<1>2. s1 \in ConsensusStates
  BY <1>1, ValidRoundUpdate
<1>3. s2 \in ConsensusStates
  BY <1>1, <1>2, ValidBlockUpdate
<1>4. s3 \in ConsensusStates
  BY NilType, ProposalBlockUpdate
<1>5. UpdateValid(s, vote, polka) \in {s, s2, s3}
  BY DEF UpdateValid
<1>6. Keeps(s, s2) /\ Keeps(s, s3)
  BY <1>3, <1>4 DEF Keeps, ConsensusStates
<1>. QED
  BY <1>5, <1>6, KeepsReflexive

(* The prevote branch of addVote leaves the chain alone.                    *)
LEMMA AddedPrevoteKeeps ==
    ASSUME NEW n \in Correct, NEW s \in ConsensusStates, NEW vote \in Votes
    PROVE  Keeps(s, AddedPrevote(n, s, vote))
<1> DEFINE polka == TwoThirdsMajority(Prevotes(s, vote.round))
           s1 == IF UnlockOnPOL(s, vote, polka)
                 THEN [s EXCEPT !.lockedRound = -1, !.lockedBlock = Nil] ELSE s
           s2 == UpdateValid(s1, vote, polka)
           t == AddedPrevote(n, s, vote)
<1>0. vote.round \in Nat
  BY DEF Votes
<1>1. Keeps(s, s1)
  BY UnlockKeeps, KeepsReflexive
<1>2. t \in {s2, EnterNewRound(n, s2, s2.height, vote.round),
             EnterPrecommit(n, s2, s2.height, vote.round),
             EnterPrevoteWait(s2, s2.height, vote.round),
             EnterPrevote(n, s2, s2.height, s2.round)}
  BY DEF AddedPrevote
<1> HIDE DEF s1, t
<1>3. Keeps(s1, s2)
  BY <1>1, UpdateValidKeeps DEF Keeps
<1> HIDE DEF s2
<1>4. s2 \in ConsensusStates /\ s2.height \in Nat /\ s2.round \in Nat
  BY <1>3, FieldTypes DEF Keeps
<1>5. Keeps(s2, t)
  BY <1>0, <1>2, <1>4, KeepsReflexive, EnterNewRoundKeeps, EnterPrecommitKeeps,
     EnterPrevoteWaitKeeps, EnterPrevoteKeeps
<1>6. Keeps(s, t)
  BY <1>1, <1>3, <1>5, KeepsChain
<1>. QED
  BY <1>6 DEF t

(* The precommit branch keeps the invariant: it commits at most one block.  *)
LEMMA AddedPrecommitChain ==
    ASSUME NEW n \in Correct, NEW s, ChainOK(s), NEW vote \in Votes
    PROVE  ChainOK(AddedPrecommit(n, s, vote))
<1> DEFINE r == vote.round
           h == s.height
           s1 == EnterNewRound(n, s, h, r)
           s2 == EnterPrecommit(n, s1, h, r)
           s3 == EnterCommit(s2, h, r)
           t == AddedPrecommit(n, s, vote)
<1>s. s \in ConsensusStates
  BY DEF ChainOK
<1>0. r \in Nat /\ h \in Nat /\ 0 \in Nat
  BY <1>s, FieldTypes DEF Votes
<1>1. t \in {s, s3, EnterNewRound(n, s3, s3.height, 0),
             EnterPrecommitWait(s2, h, r), EnterPrecommitWait(s1, h, r)}
  BY DEF AddedPrecommit
<1> HIDE DEF r, h, t
<1>2. Keeps(s, s1)
  BY <1>s, <1>0, EnterNewRoundKeeps
<1> HIDE DEF s1
<1>3. s1 \in ConsensusStates /\ ChainOK(s1)
  BY <1>2, KeepsChainOK DEF ChainOK
<1>4. Keeps(s1, s2)
  BY <1>0, <1>3, EnterPrecommitKeeps
<1> HIDE DEF s2
<1>5. s2 \in ConsensusStates /\ ChainOK(s2)
  BY <1>3, <1>4, KeepsChainOK DEF ChainOK
<1>6. ChainOK(s3)
  BY <1>0, <1>5, EnterCommitChain
<1> HIDE DEF s3
<1>7. ChainOK(EnterNewRound(n, s3, s3.height, 0))
  <2>1. s3 \in ConsensusStates /\ s3.height \in Nat
    BY <1>6, FieldTypes DEF ChainOK
  <2>2. Keeps(s3, EnterNewRound(n, s3, s3.height, 0))
    BY <1>0, <2>1, EnterNewRoundKeeps
  <2>. QED
    BY <1>6, <2>2, KeepsChainOK
<1>8. Keeps(s1, EnterPrecommitWait(s1, h, r)) /\ Keeps(s2, EnterPrecommitWait(s2, h, r))
  BY <1>0, <1>3, <1>5, EnterPrecommitWaitKeeps
<1>9. ChainOK(t)
  BY <1>1, <1>3, <1>5, <1>6, <1>7, <1>8, KeepsChainOK
<1>. QED
  BY <1>9 DEF t

(* addVote keeps it on every vote that applies.                             *)
LEMMA AddVoteChain ==
    ASSUME NEW n \in Correct, NEW s, ChainOK(s), NEW vote \in Votes, VoteApplies(s, vote)
    PROVE  ChainOK(AddVote(n, s, vote))
<1> DEFINE late == [s EXCEPT !.lastCommit = @ \cup {vote}]
           s1 == [s EXCEPT !.votes = @ \cup {vote}]
           t == AddVote(n, s, vote)
<1>0. s.height \in Nat /\ 0 \in Nat
  BY FieldTypes DEF ChainOK
<1>1. \/ t \in {Panic(s), late, EnterNewRound(n, late, s.height, 0)}
      \/ /\ vote.height = s.height
         /\ t \in {AddedPrevote(n, s1, vote), AddedPrecommit(n, s1, vote)}
  BY DEF AddVote, VoteApplies
<1>2. ChainOK(late)
  BY LateCommitChain
<1>3. vote.height = s.height => ChainOK(s1)
  BY WithVoteChain
<1> HIDE DEF late, s1, t
<1>4. CASE t = Panic(s)
  BY <1>4, PanicKeeps, KeepsChainOK DEF ChainOK, t
<1>5. CASE t \in {late, EnterNewRound(n, late, s.height, 0)}
  <2>1. Keeps(late, EnterNewRound(n, late, s.height, 0))
    BY <1>0, <1>2, EnterNewRoundKeeps DEF ChainOK
  <2>. QED
    BY <1>2, <1>5, <2>1, KeepsChainOK DEF t
<1>6. CASE /\ vote.height = s.height
           /\ t \in {AddedPrevote(n, s1, vote), AddedPrecommit(n, s1, vote)}
  <2>1. ChainOK(s1) /\ s1 \in ConsensusStates
    BY <1>3, <1>6 DEF ChainOK
  <2>2. Keeps(s1, AddedPrevote(n, s1, vote))
    BY <2>1, AddedPrevoteKeeps
  <2>3. ChainOK(AddedPrecommit(n, s1, vote))
    BY <2>1, AddedPrecommitChain
  <2>. QED
    BY <1>6, <2>1, <2>2, <2>3, KeepsChainOK DEF t
<1>. QED
  BY <1>1, <1>4, <1>5, <1>6

(* handleMsg keeps it, whoever has signed the message and however often.    *)
LEMMA HandleMsgChain ==
    ASSUME NEW n \in Correct, NEW s, ChainOK(s), NEW m \in Messages
    PROVE  ChainOK(HandleMsg(n, s, m))
<1>1. CASE ~MessageApplies(s, m)
  BY <1>1 DEF HandleMsg
<1>2. CASE MessageApplies(s, m) /\ m.type = "proposal"
  <2>1. m \in Proposals
    BY <1>2 DEF Messages, Votes
  <2>. QED
    BY <1>2, <2>1, SetProposalChain DEF HandleMsg
<1>3. CASE MessageApplies(s, m) /\ m.type # "proposal"
  <2>1. m \in Votes
    BY <1>3 DEF Messages, Proposals
  <2>. QED
    BY <1>3, <2>1, AddVoteChain DEF HandleMsg, MessageApplies
<1>. QED
  BY <1>1, <1>2, <1>3

(* handleTimeout leaves the chain alone.                                    *)
LEMMA HandleTimeoutKeeps ==
    ASSUME NEW n \in Correct, NEW s \in ConsensusStates, NEW ti \in Ticks
    PROVE  Keeps(s, HandleTimeout(n, s, ti))
<1> DEFINE h == ti.height
           r == ti.round
           k == r + 1
           u == EnterPrecommit(n, s, h, r)
           t == HandleTimeout(n, s, ti)
<1>0. h \in Nat /\ r \in Nat /\ k \in Nat /\ 0 \in Nat
  BY DEF Ticks
<1>1. t \in {s, Panic(s), EnterNewRound(n, s, h, 0), EnterPropose(n, s, h, 0),
             EnterPrevote(n, s, h, r), u, EnterNewRound(n, u, h, k)}
  BY DEF HandleTimeout, RoundStepNewHeight, RoundStepNewRound, RoundStepPropose,
         RoundStepPrevoteWait, RoundStepPrecommitWait
<1> HIDE DEF h, r, k, t
<1>2. Keeps(s, u)
  BY <1>0, EnterPrecommitKeeps
<1> HIDE DEF u
<1>3. Keeps(u, EnterNewRound(n, u, h, k))
  BY <1>0, <1>2, EnterNewRoundKeeps DEF Keeps
<1>4. Keeps(s, EnterNewRound(n, u, h, k))
  BY <1>2, <1>3, KeepsChain
<1>5. /\ Keeps(s, EnterNewRound(n, s, h, 0)) /\ Keeps(s, EnterPropose(n, s, h, 0))
      /\ Keeps(s, EnterPrevote(n, s, h, r))
  BY <1>0, EnterNewRoundKeeps, EnterProposeKeeps, EnterPrevoteKeeps
<1>6. Keeps(s, t)
  BY <1>1, <1>2, <1>4, <1>5, KeepsReflexive, PanicKeeps
<1>. QED
  BY <1>6 DEF t

(* The next own message leaves the queue and nothing else.                  *)
LEMMA DequeueKeeps ==
    ASSUME NEW s \in ConsensusStates, s.internalMsgQueue # <<>>
    PROVE  /\ Head(s.internalMsgQueue) \in Messages
           /\ Keeps(s, [s EXCEPT !.internalMsgQueue = Tail(@)])
<1> DEFINE q == Tail(s.internalMsgQueue)
           t == [s EXCEPT !.internalMsgQueue = q]
<1>1. s.internalMsgQueue \in Seq(Messages)
  BY FieldTypes
<1>2. q \in Seq(Messages) /\ Head(s.internalMsgQueue) \in Messages
  BY <1>1
<1> HIDE DEF q
<1>3. t \in ConsensusStates
  BY <1>2, QueueUpdate
<1>4. Keeps(s, t)
  BY <1>3 DEF Keeps, ConsensusStates
<1>. QED
  BY <1>2, <1>4 DEF q

(* processCommitedBlock keeps the invariant: VerifyCommit accepts no empty  *)
(* commit, so updateToState does not panic after saveBlock.                 *)
LEMMA ProcessCommittedBlockChain ==
    ASSUME NEW n \in Correct, NEW s, ChainOK(s), NEW fb \in FullBlocks
    PROVE  ChainOK(ProcessCommittedBlock(n, s, fb))
<1> DEFINE b == fb.block
           commit == fb.commit
           s1 == [s EXCEPT !.step = RoundStepCommit]
           s2 == [s1 EXCEPT !.commitRound = -1]
           s3 == [s2 EXCEPT !.lastCommit = commit]
           u == SaveBlock(s3, b, commit)
           w == UpdateToState(u, b)
           t == ProcessCommittedBlock(n, s, fb)
<1>s. s \in ConsensusStates /\ b \in Blocks /\ commit \in SUBSET Votes
      /\ fb = [block |-> b, commit |-> commit]
  BY DEF ChainOK, FullBlocks
<1>1. CASE t = s
  BY <1>1
<1>2. CASE /\ ValidateBlock(s, b) /\ VerifyCommit(fb)
           /\ t \in {EnterNewRound(n, w, w.height, 0), ScheduleRound0(w)}
  <2>1. Len(b) = s.height /\ Len(s.blockStore) < Len(b)
    BY <1>2, ValidBlockIsNext
  <2>2. PICK c \in ValidContents : b = Append(s.lastBlock, c)
    BY <1>2, ValidBlockIsNext
  <2>3. s1 \in ConsensusStates
    BY <1>s, StepTypes, StepUpdate
  <2>4. -1 \in Rounds
    BY DEF Rounds
  <2>5. s2 \in ConsensusStates
    BY <2>3, <2>4, CommitRoundUpdate
  <2> HIDE DEF b, commit, t
  <2>6. s3 \in ConsensusStates
    BY <1>s, <2>5, LastCommitUpdate
  <2>7. /\ s3.height = s.height /\ s3.lastBlock = s.lastBlock
        /\ s3.blockStore = s.blockStore /\ s3.commitRound = -1
        /\ s3.lastCommit = commit
    BY <1>s DEF ConsensusStates
  <2> HIDE DEF s3
  <2>8. u = [s3 EXCEPT !.blockStore = Append(@, [block |-> b, commit |-> commit])]
    BY <2>1, <2>7 DEF SaveBlock
  <2>9. u \in ConsensusStates
    BY <1>s, <2>6, <2>8, SaveBlockType
  <2>10. /\ u.height = s.height /\ u.lastBlock = s.lastBlock
         /\ u.blockStore = Append(s.blockStore, [block |-> b, commit |-> commit])
         /\ u.commitRound = -1 /\ u.lastCommit = commit
    BY <2>6, <2>7, <2>8 DEF ConsensusStates
  <2> HIDE DEF u
  <2>11. ~UpdateToStatePanics(u, b)
    <3>1. commit # {}
      BY <1>2 DEF VerifyCommit, TwoThirdsMajority, commit
    <3>. QED
      BY <2>10, <3>1 DEF UpdateToStatePanics, ChainOK
  <2>12. /\ w.height = Len(b) + 1 /\ w.lastBlock = b /\ w.votes = {}
         /\ w.lastCommit = commit /\ w.blockStore = u.blockStore
    BY <2>9, <2>10, <2>11, UpdateToStateFrame
  <2>13. w \in ConsensusStates
    BY <1>s, <2>9, UpdateToStateType
  <2> HIDE DEF w
  <2>14. ChainOK(w)
    <3>1. VerifyCommit([block |-> b, commit |-> commit])
      BY <1>s, <1>2
    <3>2. b \in TwoThirdsMajority(w.lastCommit)
      BY <2>12, <3>1 DEF VerifyCommit
    <3>. QED
      BY <1>s, <2>2, <2>10, <2>12, <2>13, <3>1, <3>2, CommitChainOK
  <2>15. Keeps(w, ScheduleRound0(w))
    BY <2>13, ScheduleRound0Keeps
  <2>16. Keeps(w, EnterNewRound(n, w, w.height, 0))
    <3>1. w.height \in Nat /\ 0 \in Nat
      BY <2>13, FieldTypes
    <3>. QED
      BY <2>13, <3>1, EnterNewRoundKeeps
  <2>17. ChainOK(t)
    BY <1>2, <2>14, <2>15, <2>16, KeepsChainOK
  <2>. QED
    BY <2>17 DEF t
<1>3. t = s \/ (/\ ValidateBlock(s, b) /\ VerifyCommit(fb)
                /\ t \in {EnterNewRound(n, w, w.height, 0), ScheduleRound0(w)})
  BY DEF ProcessCommittedBlock
<1>. QED
  BY <1>1, <1>2, <1>3

-----------------------------------------------------------------------------

(* A node that restarts from the first blocks of a peer is as good as the   *)
(* peer: LastCommit comes from the last block it took.                      *)
LEMMA RestartedChain ==
    ASSUME NEW s, ChainOK(s), NEW h \in 0..Len(s.blockStore), NEW signed \in SUBSET Messages
    PROVE  ChainOK(Restarted(SubSeq(s.blockStore, 1, h), signed))
<1> DEFINE store == SubSeq(s.blockStore, 1, h)
           last == IF h = 0 THEN Nil ELSE store[h].block
           commit == IF h = 0 THEN {} ELSE store[h].commit
           ti == [height |-> h + 1, round |-> 0, step |-> RoundStepNewHeight]
           t == Restarted(store, signed)
<1>1. /\ s.lastBlock \in Blocks /\ s.blockStore \in Seq(FullBlocks)
      /\ StoreOK(Votes, s.lastBlock, s.blockStore)
      /\ Len(s.blockStore) = Len(s.lastBlock) /\ Len(s.lastBlock) \in Nat
      /\ s.lastBlock \in Seq(ValidContents \cup InvalidContents)
  BY FieldTypes DEF ChainOK, StoreOK, Blocks
<1>2. h \in Nat /\ h + 1 \in Nat /\ h <= Len(s.blockStore)
  BY <1>1
<1>3. /\ store \in Seq(FullBlocks) /\ Len(store) = h
      /\ \A i \in 1..h : store[i] = s.blockStore[i]
  BY <1>1, <1>2
<1>4. /\ SubSeq(s.lastBlock, 1, h) \in Seq(ValidContents \cup InvalidContents)
      /\ Len(SubSeq(s.lastBlock, 1, h)) = h
  BY <1>1, <1>2
<1>5. last = SubSeq(s.lastBlock, 1, h)
  <2>1. CASE h = 0
    BY <1>4, <2>1 DEF Nil
  <2>2. CASE h # 0
    <3>1. h \in 1..h /\ h \in 1..Len(s.lastBlock)
      BY <1>1, <1>2, <2>2
    <3>2. s.blockStore[h].block = SubSeq(s.lastBlock, 1, h)
      BY <1>1, <3>1 DEF StoreOK
    <3>. QED
      BY <1>3, <2>2, <3>1, <3>2
  <2>. QED
    BY <2>1, <2>2
<1>6. last \in Blocks /\ Len(last) = h
  BY <1>4, <1>5 DEF Blocks
<1>7. /\ commit \in SUBSET Votes
      /\ h # 0 => VerifyCommit(store[h])
  <2>1. ASSUME h # 0
        PROVE  store[h].commit \in SUBSET Votes /\ VerifyCommit(store[h])
    <3>1. h \in 1..h /\ h \in 1..Len(s.lastBlock)
      BY <1>1, <1>2, <2>1
    <3>. QED
      BY <1>1, <1>3, <3>1 DEF StoreOK
  <2>. QED
    BY <2>1
<1>8. StoreOK(Votes, last, store)
  <2> SUFFICES ASSUME NEW i \in 1..h
               PROVE  /\ store[i].block = SubSeq(last, 1, i)
                      /\ store[i].commit \subseteq Votes
                      /\ VerifyCommit(store[i])
    BY <1>3, <1>6 DEF StoreOK
  <2>1. i \in 1..Len(s.lastBlock) /\ i <= h /\ i \in Nat
    BY <1>1, <1>2
  <2>2. /\ store[i].block = SubSeq(s.lastBlock, 1, i)
        /\ store[i].commit \subseteq Votes
        /\ VerifyCommit(store[i])
    BY <1>1, <1>3, <2>1 DEF StoreOK
  <2>3. SubSeq(SubSeq(s.lastBlock, 1, h), 1, i) = SubSeq(s.lastBlock, 1, i)
    <3>1. \A j \in 1..i : SubSeq(s.lastBlock, 1, h)[j] = s.lastBlock[j]
      BY <1>1, <1>2, <2>1
    <3>2. SubSeq(SubSeq(s.lastBlock, 1, h), 1, i)
              = [j \in 1..i |-> SubSeq(s.lastBlock, 1, h)[j]]
      BY <1>4, <2>1
    <3>3. SubSeq(s.lastBlock, 1, i) = [j \in 1..i |-> s.lastBlock[j]]
      BY <1>1, <2>1
    <3>. QED
      BY <3>1, <3>2, <3>3
  <2>. QED
    BY <1>5, <2>2, <2>3
<1>9. LastCommitOK(last, commit)
  BY <1>7 DEF LastCommitOK, VerifyCommit
<1>10. ti \in Ticks
  BY <1>2, StepTypes DEF Ticks
<1>11. t = [NewConsensusState EXCEPT
               !.height = h + 1, !.lastBlock = last, !.lastCommit = commit,
               !.blockStore = store, !.ticks = {ti}, !.signed = signed]
  BY <1>3 DEF Restarted
<1> HIDE DEF store, last, commit, ti, t
<1>12. /\ t.height = h + 1 /\ t.lastBlock = last /\ t.lastCommit = commit
       /\ t.blockStore = store /\ t.votes = {}
  BY <1>11 DEF NewConsensusState
<1>13. t \in ConsensusStates
  <2>1. -1 \in Rounds /\ <<>> \in Seq(Messages) /\ RoundStepNewHeight \in RoundStepType
    BY StepTypes DEF Rounds
  <2>. QED
    BY <1>2, <1>3, <1>6, <1>7, <1>10, <1>11, <2>1, NilType
       DEF NewConsensusState, ConsensusStates
<1>14. VotesOK(Votes, t.votes, t.height)
  BY <1>12 DEF VotesOK
<1>15. ChainOK(t)
  BY <1>6, <1>8, <1>9, <1>12, <1>13, <1>14 DEF ChainOK
<1>. QED
  BY <1>15 DEF t, store

(* The inductive invariant of all nodes.                                    *)
RestartInv == TypeOK /\ \A n \in Correct : ChainOK(cs[n])

(* New nodes have the empty chain.                                          *)
LEMMA InitRestart == Init => RestartInv
<1> SUFFICES ASSUME Init
             PROVE  RestartInv
  OBVIOUS
<1>1. TypeOK
  BY InitInv DEF Inv, TypeOK
<1>2. ASSUME NEW n \in Correct
      PROVE  ChainOK(cs[n])
  <2>1. cs[n] = NewConsensusState /\ cs[n] \in ConsensusStates
    BY <1>1 DEF Init, TypeOK
  <2>2. /\ cs[n].height = 1 /\ cs[n].lastBlock = <<>> /\ cs[n].votes = {}
        /\ cs[n].blockStore = <<>>
    BY <2>1 DEF NewConsensusState, InitialHeight, Nil
  <2>. QED
    BY <2>1, <2>2 DEF ChainOK, VotesOK, StoreOK, LastCommitOK, Nil
<1>. QED
  BY <1>1, <1>2 DEF RestartInv

(* One node moves, the others stay.                                         *)
LEMMA OneNodeMoves ==
    ASSUME RestartInv, NEW n \in Correct, NEW s, ChainOK(s),
           cs' = [cs EXCEPT ![n] = s], net' \subseteq Messages
    PROVE  RestartInv'
<1>1. cs \in [Correct -> ConsensusStates] /\ s \in ConsensusStates
  BY DEF RestartInv, TypeOK, ChainOK
<1>2. cs' \in [Correct -> ConsensusStates]
  BY <1>1
<1>3. ASSUME NEW m \in Correct
      PROVE  ChainOK(cs'[m])
  BY <1>1 DEF RestartInv
<1>. QED
  BY <1>2, <1>3 DEF RestartInv, TypeOK

(* Every action of Consensus keeps the invariant.                           *)
LEMMA NextRestart ==
    ASSUME RestartInv, Next
    PROVE  RestartInv'
<1>1. PICK n \in Correct :
          \/ \E m \in net \cup FaultyMsgs : HandlePeerMsg(n, m)
          \/ HandleInternalMsg(n)
          \/ \E ti \in cs[n].ticks : HandleTock(n, ti)
          \/ \E fb \in Stored(cs[n].height) \cup Justified(cs[n].height) :
                 HandleCommittedBlock(n, fb)
          \/ HandleSyncTimer(n)
  BY DEF Next
<1>2. /\ ChainOK(cs[n]) /\ cs[n] \in ConsensusStates
      /\ net \subseteq Messages /\ FaultyMsgs \subseteq Messages
  BY FaultyAssumption DEF RestartInv, TypeOK, ChainOK
<1>3. ASSUME NEW m \in net \cup FaultyMsgs, HandlePeerMsg(n, m)
      PROVE  RestartInv'
  <2>1. m \in Messages
    BY <1>2
  <2>2. ChainOK(HandleMsg(n, cs[n], m))
    BY <1>2, <2>1, HandleMsgChain
  <2>3. cs' = [cs EXCEPT ![n] = HandleMsg(n, cs[n], m)] /\ net' \in {net, net \cup {m}}
    BY <1>3 DEF HandlePeerMsg, TakeMsg, Becomes
  <2>. QED
    BY <1>2, <2>1, <2>2, <2>3, OneNodeMoves
<1>4. CASE HandleInternalMsg(n)
  <2> DEFINE s == [cs[n] EXCEPT !.internalMsgQueue = Tail(@)]
             m == Head(cs[n].internalMsgQueue)
  <2>1. m \in Messages /\ Keeps(cs[n], s)
    BY <1>2, <1>4, DequeueKeeps DEF HandleInternalMsg
  <2>2. cs' = [cs EXCEPT ![n] = HandleMsg(n, s, m)] /\ net' \in {net, net \cup {m}}
    BY <1>4 DEF HandleInternalMsg, TakeMsg, Becomes
  <2> HIDE DEF s, m
  <2>3. ChainOK(HandleMsg(n, s, m))
    BY <1>2, <2>1, KeepsChainOK, HandleMsgChain
  <2>. QED
    BY <1>2, <2>1, <2>2, <2>3, OneNodeMoves
<1>5. ASSUME NEW ti \in cs[n].ticks, HandleTock(n, ti)
      PROVE  RestartInv'
  <2>1. ti \in Ticks
    BY <1>2, FieldTypes
  <2>2. Keeps(cs[n], HandleTimeout(n, cs[n], ti))
    BY <1>2, <2>1, HandleTimeoutKeeps
  <2>3. ChainOK(HandleTimeout(n, cs[n], ti))
    BY <1>2, <2>2, KeepsChainOK
  <2>4. cs' = [cs EXCEPT ![n] = HandleTimeout(n, cs[n], ti)] /\ net' = net
    BY <1>5 DEF HandleTock, Becomes
  <2>. QED
    BY <1>2, <2>3, <2>4, OneNodeMoves
<1>6. ASSUME NEW fb \in Stored(cs[n].height) \cup Justified(cs[n].height),
             HandleCommittedBlock(n, fb)
      PROVE  RestartInv'
  <2>1. cs[n].height > 0
    BY <1>2, FieldTypes DEF ChainOK, Blocks
  <2>2. fb \in FullBlocks
    BY <2>1, CommittedBlockIsFull DEF RestartInv
  <2>3. ChainOK(ProcessCommittedBlock(n, cs[n], fb))
    BY <1>2, <2>2, ProcessCommittedBlockChain
  <2>4. cs' = [cs EXCEPT ![n] = ProcessCommittedBlock(n, cs[n], fb)] /\ net' = net
    BY <1>6 DEF HandleCommittedBlock, Becomes
  <2>. QED
    BY <1>2, <2>3, <2>4, OneNodeMoves
<1>7. CASE HandleSyncTimer(n)
  <2>1. ChainOK(Panic(cs[n]))
    BY <1>2, PanicKeeps, KeepsChainOK
  <2>2. cs' = [cs EXCEPT ![n] = Panic(cs[n])] /\ net' = net
    BY <1>7 DEF HandleSyncTimer, Becomes
  <2>. QED
    BY <1>2, <2>1, <2>2, OneNodeMoves
<1>. QED
  BY <1>1, <1>3, <1>4, <1>5, <1>6, <1>7

(* A restart keeps it.                                                      *)
LEMMA RestartStep ==
    ASSUME RestartInv, NEW n \in Correct, Restart(n)
    PROVE  RestartInv'
<1>0. PICK m \in Correct \ {n} : \E h \in 0..Len(cs[m].blockStore) :
          cs' = [cs EXCEPT ![n] =
                    Restarted(SubSeq(cs[m].blockStore, 1, h), cs[n].signed)]
  BY DEF Restart
<1>1. PICK h \in 0..Len(cs[m].blockStore) :
          cs' = [cs EXCEPT ![n] =
                    Restarted(SubSeq(cs[m].blockStore, 1, h), cs[n].signed)]
  BY <1>0
<1>2. ChainOK(cs[m]) /\ cs[n].signed \in SUBSET Messages
  BY FieldTypes DEF RestartInv, TypeOK
<1>3. ChainOK(Restarted(SubSeq(cs[m].blockStore, 1, h), cs[n].signed))
  BY <1>2, RestartedChain
<1>4. net' = net /\ net \subseteq Messages
  BY DEF Restart, RestartInv, TypeOK
<1>. QED
  BY <1>1, <1>3, <1>4, OneNodeMoves

(* It holds however often the nodes crash and come back.                    *)
THEOREM RestartInvariance == RestartSpec => []RestartInv
<1>1. RestartInv /\ [\/ Next /\ UNCHANGED restarts
                     \/ \E n \in Correct : Restart(n)]_restartVars => RestartInv'
  <2> SUFFICES ASSUME RestartInv, [\/ Next /\ UNCHANGED restarts
                                   \/ \E n \in Correct : Restart(n)]_restartVars
               PROVE  RestartInv'
    OBVIOUS
  <2>1. CASE Next
    BY <2>1, NextRestart
  <2>2. CASE \E n \in Correct : Restart(n)
    BY <2>2, RestartStep
  <2>3. CASE UNCHANGED restartVars
    BY <2>3 DEF restartVars, RestartInv, TypeOK, ChainOK
  <2>. QED
    BY <2>1, <2>2, <2>3
<1>. QED
  BY <1>1, InitRestart, PTL DEF RestartSpec

(* Block sync and the consensus that follows leave a restarted node with a  *)
(* store, a chain state and a LastCommit that fit: what a node has signed   *)
(* before the crash may make it equivocate, but it does not get into the    *)
(* way of its own next proposal.                                            *)
THEOREM StoreSurvivesRestarts == RestartSpec => [](TypeOK /\ StoreMatchesChain)
<1>1. ASSUME RestartInv
      PROVE  StoreMatchesChain
  <2> SUFFICES ASSUME NEW n \in Correct
               PROVE  LET s == cs[n]
                          k == Len(s.lastBlock)
                      IN  /\ Len(s.blockStore) = k /\ s.height = k + 1
                          /\ \A h \in 1..k :
                                 LET fb == s.blockStore[h]
                                 IN  /\ fb.block = SubSeq(s.lastBlock, 1, h)
                                     /\ fb.block \in TwoThirdsMajority(fb.commit)
                          /\ k > 0 => s.lastBlock \in TwoThirdsMajority(s.lastCommit)
    BY DEF StoreMatchesChain
  <2>1. ChainOK(cs[n])
    BY <1>1 DEF RestartInv
  <2>2. Len(cs[n].lastBlock) > 0 => cs[n].lastBlock # Nil
    BY DEF Nil
  <2>. QED
    BY <2>1, <2>2 DEF ChainOK, StoreOK, LastCommitOK, VerifyCommit
<1>2. RestartInv => TypeOK
  BY DEF RestartInv
<1>. QED
  BY <1>1, <1>2, RestartInvariance, PTL
=============================================================================

--------------------------- MODULE ConsensusState ---------------------------
(***************************************************************************)
(* The state machine of one node: consensus/consensus_state.go as          *)
(* operators from a node state to the next one.                            *)
(*                                                                         *)
(* receiveRoutine is the only goroutine that changes a RoundState, and one *)
(* message or one timeout makes it run a whole cascade (addVote, say,      *)
(* enters a round, proposes, prevotes, precommits and commits).  Each      *)
(* function of the code is therefore an operator Op(n, s, ...) that        *)
(* returns the state the function leaves node n in when it starts in s,    *)
(* and a cascade is the composition of operators.  A Go panic ends         *)
(* receiveRoutine: it sets s.halted, and every later operator of the       *)
(* cascade leaves a halted state alone.                                    *)
(*                                                                         *)
(* Data abstraction.  A block is the sequence of the contents of the       *)
(* blocks up to it, so its parent is its prefix and its number is its      *)
(* length; Nil is the nil block, the zero hash and the genesis state.      *)
(* A signature is the field val.  Times and durations are left out: a      *)
(* timer that runs may fire at any moment.                                 *)
(***************************************************************************)
EXTENDS Integers, Sequences, FiniteSets

CONSTANTS
    Validators,         \* addresses of the validator set (no epoch change)
    Correct,            \* nodes that run this code; some may be no validator
    Quorums,            \* validator sets with more than 2/3 of the power
    Proposer(_, _),     \* GetProposer at a height and a round
    ValidContents,      \* block contents that pass ValidateBlock
    InvalidContents,    \* block contents that do not
    SkipTimeoutCommit   \* ConsensusConfig.SkipTimeoutCommit

(* The VoteSet of the go-ethereum fork decides by voting power; any two     *)
(* sets above 2/3 meet in more than 1/3, hence in a correct validator.      *)
ASSUME QuorumAssumption ==
    /\ Quorums \subseteq SUBSET Validators
    /\ \A Q1, Q2 \in Quorums : Q1 \cap Q2 \cap Correct # {}
    /\ \A Q \in Quorums, S \in SUBSET Validators : Q \subseteq S => S \in Quorums

(* MakeBlock is a function of the chain state, LastCommit and the proposer, *)
(* and LastCommit is frozen once a node proposes: the content of the block  *)
(* a correct validator creates on a given parent is its own name.           *)
ASSUME ContentAssumption ==
    /\ Validators \cap Correct \subseteq ValidContents
    /\ ValidContents \cap InvalidContents = {}

ASSUME ConfigAssumption == SkipTimeoutCommit \in BOOLEAN

-----------------------------------------------------------------------------
(* Steps (RoundStepType), messages and the state of a node.                 *)

RoundStepNewHeight     == 1
RoundStepNewRound      == 2
RoundStepPropose       == 3
RoundStepPrevote       == 4
RoundStepPrevoteWait   == 5
RoundStepPrecommit     == 6
RoundStepPrecommitWait == 7
RoundStepCommit        == 8

RoundStepType == 1..8

InitialHeight == 1

Blocks == Seq(ValidContents \cup InvalidContents)
Nil == <<>>

Rounds == Nat \cup {-1}

Votes == [type : {"prevote", "precommit"}, height : Nat, round : Nat,
          block : Blocks, val : Validators]

Proposals == [type : {"proposal"}, height : Nat, round : Nat,
              polRound : Rounds, block : Blocks, val : Validators]

NoProposal == [type |-> "none"]

Messages == Votes \cup Proposals

Ticks == [height : Nat, round : Nat, step : RoundStepType]

FullBlocks == [block : Blocks, commit : SUBSET Votes]

ConsensusStates ==
    [height : Nat, round : Nat, step : RoundStepType,
     proposal : Proposals \cup {NoProposal}, proposalBlock : Blocks,
     lockedRound : Rounds, lockedBlock : Blocks,
     validRound : Rounds, validBlock : Blocks,
     votes : SUBSET Votes, commitRound : Rounds, lastCommit : SUBSET Votes,
     triggeredTimeoutPrecommit : BOOLEAN,
     lastBlock : Blocks, blockStore : Seq(FullBlocks),
     internalMsgQueue : Seq(Messages), ticks : SUBSET Ticks,
     signed : SUBSET Messages, halted : BOOLEAN]

(* NewConsensusState on the genesis state, then OnStart's scheduleRound0.   *)
(* signed is what privValidator has signed for this node so far.            *)
NewConsensusState ==
    [height |-> InitialHeight, round |-> 0, step |-> RoundStepNewHeight,
     proposal |-> NoProposal, proposalBlock |-> Nil,
     lockedRound |-> -1, lockedBlock |-> Nil,
     validRound |-> -1, validBlock |-> Nil,
     votes |-> {}, commitRound |-> -1, lastCommit |-> {},
     triggeredTimeoutPrecommit |-> FALSE,
     lastBlock |-> Nil, blockStore |-> <<>>, internalMsgQueue |-> <<>>,
     ticks |-> {[height |-> InitialHeight, round |-> 0,
                 step |-> RoundStepNewHeight]},
     signed |-> {}, halted |-> FALSE]

Panic(s) == [s EXCEPT !.halted = TRUE]

-----------------------------------------------------------------------------
(* Vote sets: one vote per validator, the first one wins.                   *)

Prevotes(s, r)   == {v \in s.votes : v.type = "prevote" /\ v.round = r}
Precommits(s, r) == {v \in s.votes : v.type = "precommit" /\ v.round = r}

Signers(voteSet) == {v.val : v \in voteSet}

(* The blocks (or nil) with more than 2/3 of the votes: at most one.        *)
TwoThirdsMajority(voteSet) ==
    {b \in {v.block : v \in voteSet} :
        Signers({v \in voteSet : v.block = b}) \in Quorums}

HasTwoThirdsAny(voteSet) == Signers(voteSet) \in Quorums

HasAll(voteSet) == Signers(voteSet) = Validators

HasVoteOf(voteSet, val) == \E v \in voteSet : v.val = val

(* FullBlock.HashTo: FALSE on a nil receiver.                               *)
HashTo(b, majority) == b # Nil /\ b \in majority

(* DefaultBlockExecutor.ValidateBlock without the block times.              *)
ValidateBlock(s, b) == \E c \in ValidContents : b = Append(s.lastBlock, c)

-----------------------------------------------------------------------------
(* Signing and scheduling.                                                  *)

(* The own message queue, first in first out while it is not full.          *)
SendInternalMessage(s, m) ==
    [s EXCEPT !.internalMsgQueue = Append(@, m), !.signed = @ \cup {m}]

SignAddVote(n, s, type, b) ==
    IF n \notin Validators THEN s
    ELSE SendInternalMessage(s, [type |-> type, height |-> s.height,
                                 round |-> s.round, block |-> b, val |-> n])

(* timeoutRoutine ignores a tick that is not later than the last one.       *)
Later(ti, t) ==
    \/ ti.height > t.height
    \/ ti.height = t.height /\ ti.round > t.round
    \/ ti.height = t.height /\ ti.round = t.round /\ ti.step > t.step

(* ticks holds every tick the ticker accepted: a superseded one may already *)
(* have fired and wait in tockChan.                                         *)
ScheduleTimeout(s, h, r, step) ==
    LET ti == [height |-> h, round |-> r, step |-> step]
    IN  IF \A t \in s.ticks : Later(ti, t)
        THEN [s EXCEPT !.ticks = @ \cup {ti}]
        ELSE s

(* Mutant of Stale: the step may be entered again.                          *)
StaleOffByOne(s, h, r, step) ==
    \/ s.halted \/ s.height # h \/ r < s.round
    \/ s.round = r /\ step < s.step

(* The early return that the enter functions share.                         *)
Stale(s, h, r, step) ==
    \/ s.halted
    \/ s.height # h
    \/ r < s.round
    \/ s.round = r /\ step <= s.step

-----------------------------------------------------------------------------
(* Prevote and precommit.                                                   *)

(* The proposal block is complete, and so is the POL it claims.             *)
IsProposalComplete(s) ==
    /\ s.proposal # NoProposal
    /\ s.proposalBlock # Nil
    /\ \/ s.proposal.polRound < 0
       \/ TwoThirdsMajority(Prevotes(s, s.proposal.polRound)) # {}

(* Mutants of PrevoteValue: the lock is forgotten; the block not validated. *)
PrevoteValueUnlocked(s) ==
    IF ValidateBlock(s, s.proposalBlock) THEN s.proposalBlock ELSE Nil
PrevoteValueUnchecked(s) ==
    IF s.lockedBlock # Nil THEN s.lockedBlock ELSE s.proposalBlock

(* What defaultDoPrevote votes for.                                         *)
PrevoteValue(s) ==
    IF s.lockedBlock # Nil THEN s.lockedBlock
    ELSE IF ValidateBlock(s, s.proposalBlock) THEN s.proposalBlock
    ELSE Nil

EnterPrevote(n, s, h, r) ==
    IF Stale(s, h, r, RoundStepPrevote) THEN s
    ELSE [SignAddVote(n, s, "prevote", PrevoteValue(s)) EXCEPT
             !.round = r, !.step = RoundStepPrevote]

EnterPrevoteWait(s, h, r) ==
    IF Stale(s, h, r, RoundStepPrevoteWait) THEN s
    ELSE IF ~HasTwoThirdsAny(Prevotes(s, r)) THEN Panic(s)
    ELSE [ScheduleTimeout(s, h, r, RoundStepPrevoteWait) EXCEPT
             !.round = r, !.step = RoundStepPrevoteWait]

(* Mutant of PrecommitValue: a lock is precommitted whatever the polka is.  *)
PrecommitValueKeepsLock(s, polka) ==
    IF s.lockedBlock # Nil THEN s.lockedBlock
    ELSE IF HashTo(s.proposalBlock, polka) THEN s.proposalBlock
    ELSE Nil

(* The block enterPrecommit precommits on a polka, and Nil if there is no   *)
(* polka, the polka is for nil, or its block is unknown here.               *)
PrecommitValue(s, polka) ==
    IF HashTo(s.lockedBlock, polka) THEN s.lockedBlock
    ELSE IF HashTo(s.proposalBlock, polka) THEN s.proposalBlock
    ELSE Nil

(* Lock on the precommitted block; unlock on any other polka.               *)
UpdateLock(s, r, polka) ==
    LET b == PrecommitValue(s, polka)
    IN  IF polka = {} THEN s
        ELSE [s EXCEPT !.lockedRound = IF b = Nil THEN -1 ELSE r,
                       !.lockedBlock = b]

EnterPrecommit(n, s, h, r) ==
    LET polka == TwoThirdsMajority(Prevotes(s, r))
        b == PrecommitValue(s, polka)
    IN  IF Stale(s, h, r, RoundStepPrecommit) THEN s
        ELSE IF b # Nil /\ b # s.lockedBlock /\ ~ValidateBlock(s, b) THEN Panic(s)
        ELSE [SignAddVote(n, UpdateLock(s, r, polka), "precommit", b) EXCEPT
                 !.round = r, !.step = RoundStepPrecommit]

EnterPrecommitWait(s, h, r) ==
    IF \/ s.halted \/ s.height # h \/ r < s.round
       \/ s.round = r /\ s.triggeredTimeoutPrecommit
    THEN s
    ELSE IF ~HasTwoThirdsAny(Precommits(s, r)) THEN Panic(s)
    ELSE [ScheduleTimeout(s, h, r, RoundStepPrecommitWait) EXCEPT
             !.triggeredTimeoutPrecommit = TRUE]

-----------------------------------------------------------------------------
(* New round and propose.                                                   *)

(* Nil when there is no commit for the previous block.                      *)
CreateProposalBlock(n, s) ==
    IF s.height = InitialHeight \/ TwoThirdsMajority(s.lastCommit) # {}
    THEN Append(s.lastBlock, n)
    ELSE Nil

(* Mutant of DecideProposal: the POL round is one off.                      *)
DecideProposalOffByOne(n, s, h, r) ==
    SendInternalMessage(s, [type |-> "proposal", height |-> h, round |-> r,
        polRound |-> s.validRound - 1, block |-> CreateProposalBlock(n, s),
        val |-> n])

DecideProposal(n, s, h, r) ==
    LET b == IF s.validBlock # Nil THEN s.validBlock
             ELSE CreateProposalBlock(n, s)
    IN  IF b = Nil THEN s
        ELSE SendInternalMessage(s, [type |-> "proposal", height |-> h,
                 round |-> r, polRound |-> s.validRound, block |-> b, val |-> n])

EnterPropose(n, s, h, r) ==
    LET s1 == ScheduleTimeout(s, h, r, RoundStepPropose)
        s2 == IF n \in Validators /\ Proposer(h, r) = n
              THEN DecideProposal(n, s1, h, r) ELSE s1
        s3 == [s2 EXCEPT !.round = r, !.step = RoundStepPropose]
    IN  IF Stale(s, h, r, RoundStepPropose) THEN s
        ELSE IF IsProposalComplete(s3) THEN EnterPrevote(n, s3, h, r)
        ELSE s3

(* Mutants of SetupNewRound: the lock ends with its round; the mark of an   *)
(* earlier round stays.                                                     *)
SetupNewRoundUnlocks(s, r) ==
    [s EXCEPT !.round = r, !.step = RoundStepNewRound,
              !.proposal = IF r = 0 THEN @ ELSE NoProposal,
              !.proposalBlock = IF r = 0 THEN @ ELSE Nil,
              !.lockedRound = -1, !.lockedBlock = Nil,
              !.triggeredTimeoutPrecommit = FALSE]
SetupNewRoundStillTriggered(s, r) ==
    [s EXCEPT !.round = r, !.step = RoundStepNewRound,
              !.proposal = IF r = 0 THEN @ ELSE NoProposal,
              !.proposalBlock = IF r = 0 THEN @ ELSE Nil]

(* What enterNewRound resets: a proposal for round 0 may have come early.   *)
SetupNewRound(s, r) ==
    [s EXCEPT !.round = r, !.step = RoundStepNewRound,
              !.proposal = IF r = 0 THEN @ ELSE NoProposal,
              !.proposalBlock = IF r = 0 THEN @ ELSE Nil,
              !.triggeredTimeoutPrecommit = FALSE]

(* Mutant of EnterNewRound: an earlier round is entered again.              *)
EnterNewRoundAnyRound(n, s, h, r) ==
    IF s.halted \/ s.height # h \/ (s.round = r /\ s.step # RoundStepNewHeight)
    THEN s
    ELSE EnterPropose(n, SetupNewRound(s, r), h, r)

EnterNewRound(n, s, h, r) ==
    IF \/ s.halted \/ s.height # h \/ r < s.round
       \/ s.round = r /\ s.step # RoundStepNewHeight
    THEN s
    ELSE EnterPropose(n, SetupNewRound(s, r), h, r)

-----------------------------------------------------------------------------
(* Commit.                                                                  *)

(* The panics of updateToState.                                             *)
UpdateToStatePanics(s, b) ==
    \/ s.lastBlock # Nil /\ Len(s.lastBlock) + 1 # s.height
    \/ s.commitRound > -1 /\ s.height # Len(b)
    \/ s.commitRound > -1 /\ TwoThirdsMajority(Precommits(s, s.commitRound)) = {}
    \/ s.commitRound = -1 /\ s.lastCommit = {}

(* Mutant of UpdateToState: LastCommit stays when there is one.             *)
UpdateToStateKeepsCommit(s, b) ==
    IF UpdateToStatePanics(s, b) THEN Panic(s)
    ELSE [NewConsensusState EXCEPT
            !.lastCommit = IF s.lastCommit = {}
                           THEN Precommits(s, s.commitRound) ELSE s.lastCommit,
            !.height = Len(b) + 1, !.lastBlock = b, !.blockStore = s.blockStore,
            !.internalMsgQueue = s.internalMsgQueue, !.ticks = s.ticks,
            !.signed = s.signed]

UpdateToState(s, b) ==
    IF UpdateToStatePanics(s, b) THEN Panic(s)
    ELSE [s EXCEPT
            !.lastCommit = IF s.commitRound > -1
                           THEN Precommits(s, s.commitRound) ELSE @,
            !.height = Len(b) + 1, !.round = 0, !.step = RoundStepNewHeight,
            !.proposal = NoProposal, !.proposalBlock = Nil,
            !.lockedRound = -1, !.lockedBlock = Nil,
            !.validRound = -1, !.validBlock = Nil,
            !.votes = {}, !.commitRound = -1,
            !.triggeredTimeoutPrecommit = FALSE,
            !.lastBlock = b]

ScheduleRound0(s) ==
    IF s.halted THEN s ELSE ScheduleTimeout(s, s.height, 0, RoundStepNewHeight)

(* BlockStore.SaveBlock, unless the store has the height already.           *)
SaveBlock(s, b, commit) ==
    IF Len(s.blockStore) < Len(b)
    THEN [s EXCEPT !.blockStore = Append(@, [block |-> b, commit |-> commit])]
    ELSE s

(* VoteSet.MakeCommit: a precommit for another block than the decided one   *)
(* is left out of the commit, one for nil is not.                           *)
MakeCommit(precommits) ==
    {v \in precommits : v.block \in TwoThirdsMajority(precommits) \cup {Nil}}

FinalizeCommit(s) ==
    LET b == s.proposalBlock
    IN  IF ~ValidateBlock(s, b) THEN Panic(s)
        ELSE ScheduleRound0(UpdateToState(
                 SaveBlock(s, b, MakeCommit(Precommits(s, s.commitRound))), b))

(* Mutant of TryFinalizeCommit: any proposal block is finalized.            *)
TryFinalizeCommitUnchecked(s) ==
    IF s.halted \/ s.proposalBlock = Nil THEN s ELSE FinalizeCommit(s)

TryFinalizeCommit(s) ==
    IF s.halted \/ ~HashTo(s.proposalBlock,
                           TwoThirdsMajority(Precommits(s, s.commitRound)))
    THEN s
    ELSE FinalizeCommit(s)

(* The block to commit, if it is known here.                                *)
CommitValue(s, majority) ==
    IF HashTo(s.lockedBlock, majority) THEN s.lockedBlock
    ELSE IF HashTo(s.proposalBlock, majority) THEN s.proposalBlock
    ELSE Nil

EnterCommit(s, h, r) ==
    LET majority == TwoThirdsMajority(Precommits(s, r))
    IN  IF s.halted \/ s.height # h \/ RoundStepCommit <= s.step THEN s
        ELSE IF majority = {} THEN Panic(s)
        ELSE TryFinalizeCommit([s EXCEPT
                 !.proposalBlock = CommitValue(s, majority),
                 !.step = RoundStepCommit, !.commitRound = r])

-----------------------------------------------------------------------------
(* The handlers of receiveRoutine.                                          *)

(* defaultSetProposal returns early on these.                               *)
ProposalApplies(s, p) ==
    /\ s.proposal = NoProposal
    /\ p.height = s.height /\ p.round = s.round
    /\ p.polRound >= -1 /\ p.polRound < p.round
    /\ p.val = Proposer(s.height, s.round)

SetProposal(n, s, p) ==
    LET polka == TwoThirdsMajority(Prevotes(s, s.round))
        s1 == [s EXCEPT !.proposal = p, !.proposalBlock = p.block]
        s2 == IF HashTo(p.block, polka) /\ s.validRound < s.round
              THEN [s1 EXCEPT !.validRound = s.round, !.validBlock = p.block]
              ELSE s1
        s3 == EnterPrevote(n, s2, s.height, s.round)
    IN  IF s.step <= RoundStepPropose /\ IsProposalComplete(s2)
        THEN IF polka # {} THEN EnterPrecommit(n, s3, s.height, s.round) ELSE s3
        ELSE IF s.step = RoundStepCommit THEN TryFinalizeCommit(s2)
        ELSE s2

(* Mutant of UnlockOnPOL: an older polka unlocks as well.                   *)
UnlockOnAnyPOL(s, vote, polka) ==
    /\ s.lockedBlock # Nil
    /\ vote.round <= s.round
    /\ polka # {} /\ s.lockedBlock \notin polka

(* A polka newer than the lock, in a round already reached, for another     *)
(* block or for nil.                                                        *)
UnlockOnPOL(s, vote, polka) ==
    /\ s.lockedBlock # Nil
    /\ s.lockedRound < vote.round
    /\ vote.round <= s.round
    /\ polka # {} /\ s.lockedBlock \notin polka

(* A polka of this round for a block: it becomes the valid block, or the    *)
(* proposal block is dropped.                                               *)
UpdateValid(s, vote, polka) ==
    IF polka \ {Nil} = {} \/ s.validRound >= vote.round \/ vote.round # s.round
    THEN s
    ELSE IF HashTo(s.proposalBlock, polka)
    THEN [s EXCEPT !.validRound = vote.round, !.validBlock = s.proposalBlock]
    ELSE [s EXCEPT !.proposalBlock = Nil]

AddedPrevote(n, s, vote) ==
    LET prevotes == Prevotes(s, vote.round)
        polka == TwoThirdsMajority(prevotes)
        s1 == IF UnlockOnPOL(s, vote, polka)
              THEN [s EXCEPT !.lockedRound = -1, !.lockedBlock = Nil] ELSE s
        s2 == UpdateValid(s1, vote, polka)
    IN  IF s2.round < vote.round /\ HasTwoThirdsAny(prevotes)
        THEN EnterNewRound(n, s2, s2.height, vote.round)
        ELSE IF s2.round = vote.round /\ RoundStepPrevote <= s2.step
        THEN IF polka # {} /\ (IsProposalComplete(s2) \/ Nil \in polka)
             THEN EnterPrecommit(n, s2, s2.height, vote.round)
             ELSE IF HasTwoThirdsAny(prevotes)
             THEN EnterPrevoteWait(s2, s2.height, vote.round)
             ELSE s2
        ELSE IF /\ s2.proposal # NoProposal
                /\ s2.proposal.polRound = vote.round
                /\ IsProposalComplete(s2)
        THEN EnterPrevote(n, s2, s2.height, s2.round)
        ELSE s2

(* After enterCommit the height may be the next one, and with every         *)
(* precommit at hand its round 0 starts at once.                            *)
AddedPrecommit(n, s, vote) ==
    LET precommits == Precommits(s, vote.round)
        majority == TwoThirdsMajority(precommits)
        s1 == EnterNewRound(n, s, s.height, vote.round)
        s2 == EnterPrecommit(n, s1, s.height, vote.round)
        s3 == EnterCommit(s2, s.height, vote.round)
    IN  IF majority \ {Nil} # {}
        THEN IF SkipTimeoutCommit /\ HasAll(precommits)
             THEN EnterNewRound(n, s3, s3.height, 0) ELSE s3
        ELSE IF majority # {}
        THEN EnterPrecommitWait(s2, s.height, vote.round)
        ELSE IF s.round <= vote.round /\ HasTwoThirdsAny(precommits)
        THEN EnterPrecommitWait(s1, s.height, vote.round)
        ELSE s

(* A precommit of the previous height that comes while the node waits       *)
(* timeoutCommit.  LastCommit holds the precommits of one round.            *)
IsLateCommit(s, vote) ==
    /\ vote.height + 1 = s.height
    /\ vote.type = "precommit"
    /\ s.step = RoundStepNewHeight
    /\ \A v \in s.lastCommit : v.round = vote.round

VoteApplies(s, vote) ==
    \/ IsLateCommit(s, vote) /\ ~HasVoteOf(s.lastCommit, vote.val)
    \/ /\ vote.height = s.height
       /\ vote.type = "prevote"
       /\ ~HasVoteOf(Prevotes(s, vote.round), vote.val)
    \/ /\ vote.height = s.height
       /\ vote.type = "precommit"
       /\ ~HasVoteOf(Precommits(s, vote.round), vote.val)

(* LastCommit is nil at the initial height: AddVote of a nil VoteSet is the *)
(* panic that a precommit for height 0 runs into, if ValidateBasic of the   *)
(* fork lets it through.                                                    *)
AddVote(n, s, vote) ==
    LET late == [s EXCEPT !.lastCommit = @ \cup {vote}]
        s1 == [s EXCEPT !.votes = @ \cup {vote}]
    IN  IF IsLateCommit(s, vote)
        THEN IF s.lastCommit = {} THEN Panic(s)
             ELSE IF SkipTimeoutCommit /\ HasAll(late.lastCommit)
             THEN EnterNewRound(n, late, s.height, 0) ELSE late
        ELSE IF vote.type = "prevote" THEN AddedPrevote(n, s1, vote)
        ELSE AddedPrecommit(n, s1, vote)

(* handleMsg: MessageApplies is the result "added" of the two setters, on   *)
(* which the message is broadcast; when it is FALSE they change nothing.    *)
MessageApplies(s, m) ==
    IF m.type = "proposal" THEN ProposalApplies(s, m) ELSE VoteApplies(s, m)

HandleMsg(n, s, m) ==
    IF ~MessageApplies(s, m) THEN s
    ELSE IF m.type = "proposal" THEN SetProposal(n, s, m)
    ELSE AddVote(n, s, m)

(* handleTimeout ignores a tock when the node is ahead of it.               *)
TockApplies(s, ti) ==
    /\ ti.height = s.height
    /\ \/ ti.round > s.round
       \/ ti.round = s.round /\ ti.step >= s.step

HandleTimeout(n, s, ti) ==
    IF ~TockApplies(s, ti) THEN s
    ELSE CASE ti.step = RoundStepNewHeight -> EnterNewRound(n, s, ti.height, 0)
           [] ti.step = RoundStepNewRound -> EnterPropose(n, s, ti.height, 0)
           [] ti.step = RoundStepPropose -> EnterPrevote(n, s, ti.height, ti.round)
           [] ti.step = RoundStepPrevoteWait ->
                EnterPrecommit(n, s, ti.height, ti.round)
           [] ti.step = RoundStepPrecommitWait ->
                EnterNewRound(n, EnterPrecommit(n, s, ti.height, ti.round),
                              ti.height, ti.round + 1)
           [] OTHER -> Panic(s)

(* The round createSyncRequest asks for; of round -1 there is no vote set.  *)
SyncRound(s) ==
    IF s.proposal # NoProposal /\ s.proposal.polRound # -1 /\ ~IsProposalComplete(s)
    THEN s.lockedRound
    ELSE s.round

(* VerifyCommit: precommits of one round for the block by 2/3+.             *)
VerifyCommit(fb) ==
    /\ \A v, w \in fb.commit : v.type = "precommit" /\ v.round = w.round
    /\ \A v \in fb.commit : v.height = Len(fb.block)
    /\ fb.block \in TwoThirdsMajority(fb.commit)

(* The fast path: a block with its commit from block sync or from a         *)
(* consensus sync reply.  CommitRound is reset and LastCommit replaced.     *)
ProcessCommittedBlock(n, s, fb) ==
    LET s1 == [s EXCEPT !.step = RoundStepCommit, !.commitRound = -1,
                        !.lastCommit = fb.commit]
        s2 == UpdateToState(SaveBlock(s1, fb.block, fb.commit), fb.block)
    IN  IF \/ Len(fb.block) # s.height
           \/ ~ValidateBlock(s, fb.block) \/ ~VerifyCommit(fb)
        THEN s
        ELSE IF SkipTimeoutCommit /\ HasAll(fb.commit)
        THEN EnterNewRound(n, s2, s2.height, 0)
        ELSE ScheduleRound0(s2)
=============================================================================

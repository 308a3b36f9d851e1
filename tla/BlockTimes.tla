----------------------------- MODULE BlockTimes -----------------------------
(***************************************************************************)
(* The times of the blocks: each precommit carries the clock of its        *)
(* signer, and the next block's time is the weighted median of the         *)
(* signatures in its LastCommit.  Rounds, locks and the network are left   *)
(* to Consensus; here a height is a proposal, precommits for it or for     *)
(* nil, and a commit.                                                      *)
(***************************************************************************)
EXTENDS Integers, FiniteSets, FiniteSetsExt, Functions

CONSTANTS
    Validators,
    Correct,
    VotingPower,    \* VotingPower[v]: the power of validator v
    GenesisTime,
    MaxTime,        \* bound: the last time, in ms, of any clock
    MaxHeight       \* bound: the height of the last block

ASSUME BlockTimesAssumption ==
    /\ IsFiniteSet(Validators) /\ Correct \subseteq Validators
    /\ VotingPower \in [Validators -> Nat \ {0}]
    /\ GenesisTime \in Nat /\ MaxTime \in Nat /\ MaxHeight \in Nat

VARIABLES
    clock,          \* clock[v]: the clock of correct validator v
    chainState,     \* the height and time of the last block, genesis at first
    proposal,       \* the block proposed for the next height
    precommits,     \* the precommits for it, by signer
    lastPrecommits  \* the precommits of the last height, by signer

timeVars == <<clock, chainState, proposal, precommits, lastPrecommits>>

Times == 0..MaxTime

(* The signatures of a commit, by signer: those of the absent are left out. *)
Commits == UNION {[S -> [time : Times, forBlock : BOOLEAN]] : S \in SUBSET Validators}

NoCommit == [v \in {} |-> [time |-> 0, forBlock |-> FALSE]]

NoBlock == [time |-> -1, lastCommit |-> NoCommit]

Power(S) == MapThenSumSet(LAMBDA v : VotingPower[v], S)

(* Less than a third of the power is faulty, as the rule of 2/3 presumes.   *)
ASSUME FaultyAssumption == 3 * Power(Validators \ Correct) < Power(Validators)

(* More than 2/3 of all power has signed for the block.                     *)
VerifyCommit(commit) ==
    3 * Power({v \in DOMAIN commit : commit[v].forBlock}) > 2 * Power(Validators)

-----------------------------------------------------------------------------
(* Mutant of ByTime: the latest signatures first.                           *)
ByTimeDescending(commit) ==
    {order \in Bijection(1..Cardinality(DOMAIN commit), DOMAIN commit) :
        \A i, j \in DOMAIN order :
            i < j => commit[order[i]].time >= commit[order[j]].time}

(* The signatures sorted by time, those of equal time in any order: the     *)
(* sort of the code is not stable.                                          *)
ByTime(commit) ==
    {order \in Bijection(1..Cardinality(DOMAIN commit), DOMAIN commit) :
        \A i, j \in DOMAIN order :
            i < j => commit[order[i]].time <= commit[order[j]].time}

(* What is left of half of the power once the first i signatures of order   *)
(* have been counted down.                                                  *)
Left(commit, order) ==
    LET left[i \in 0..Cardinality(DOMAIN commit)] ==
            IF i = 0 THEN Power(DOMAIN commit) \div 2
            ELSE left[i - 1] - VotingPower[order[i]]
    IN  left

(* Mutant of WeightedMedian: a signature with just what is left is passed.  *)
WeightedMedianStrict(commit, order) ==
    LET left == Left(commit, order)
        covering == {i \in DOMAIN order : left[i - 1] < VotingPower[order[i]]}
    IN  IF covering = {} THEN 0 ELSE commit[order[Min(covering)]].time

(* The loop of weightedMedian stops at the first signature that covers what *)
(* is left.                                                                 *)
WeightedMedian(commit, order) ==
    LET left == Left(commit, order)
        covering == {i \in DOMAIN order : left[i - 1] <= VotingPower[order[i]]}
    IN  IF covering = {} THEN 0 ELSE commit[order[Min(covering)]].time

MedianTime(commit) == WeightedMedian(commit, CHOOSE order \in ByTime(commit) : TRUE)

(* Mutant of MakeBlock: the earliest signature gives the time.              *)
MakeBlockEarliest(state, commit) ==
    [time |-> IF state.lastBlockHeight = 0 THEN state.lastBlockTime
              ELSE Min({commit[v].time : v \in DOMAIN commit}),
     lastCommit |-> commit]

MakeBlock(state, commit) ==
    [time |-> IF state.lastBlockHeight = 0 THEN state.lastBlockTime
              ELSE MedianTime(commit),
     lastCommit |-> commit]

(* The conditions of validateBlock on the commit and the time.              *)
ValidateBlock(state, block) ==
    IF state.lastBlockHeight = 0
    THEN block.lastCommit = NoCommit /\ block.time = state.lastBlockTime
    ELSE /\ VerifyCommit(block.lastCommit)
         /\ block.time > state.lastBlockTime
         /\ block.time = MedianTime(block.lastCommit)

(* voteTime is past the block that the vote is for, when it is set; SignVote *)
(* then replaces it by the time of the clock.                               *)
VoteTime(now, block) ==
    IF block # NoBlock /\ block.time + 1 > now THEN block.time + 1 ELSE now

SignVote(now, vote) == [vote EXCEPT !.time = now]

SignedVote(n, forBlock) ==
    SignVote(clock[n], [time |-> VoteTime(clock[n], proposal), forBlock |-> forBlock])

-----------------------------------------------------------------------------

(* No clock is behind genesis, which has passed when the network starts.    *)
Init ==
    /\ clock \in [Correct -> {t \in Times : t >= GenesisTime}]
    /\ chainState = [lastBlockHeight |-> 0, lastBlockTime |-> GenesisTime]
    /\ proposal = NoBlock
    /\ precommits = NoCommit
    /\ lastPrecommits = NoCommit

Tick(n) ==
    /\ clock[n] < MaxTime
    /\ clock' = [clock EXCEPT ![n] = @ + 1]
    /\ UNCHANGED <<chainState, proposal, precommits, lastPrecommits>>

(* What the LastCommit of a proposer can be: of the precommits of the last  *)
(* height those that have reached it, more than 2/3 for the block.          *)
LastCommits ==
    IF chainState.lastBlockHeight = 0 THEN {NoCommit}
    ELSE {commit \in {[v \in S |-> lastPrecommits[v]] :
                          S \in SUBSET DOMAIN lastPrecommits} : VerifyCommit(commit)}

(* A proposer of a later round may propose another block while nobody has   *)
(* precommitted the one before.                                             *)
Propose ==
    /\ chainState.lastBlockHeight < MaxHeight
    /\ \A v \in DOMAIN precommits : ~precommits[v].forBlock
    /\ \E commit \in LastCommits : proposal' = MakeBlock(chainState, commit)
    /\ precommits' = NoCommit
    /\ UNCHANGED <<clock, chainState, lastPrecommits>>

(* A validator that has the block and a polka precommits it, another nil.   *)
Precommit(n, forBlock) ==
    /\ proposal # NoBlock
    /\ n \notin DOMAIN precommits
    /\ forBlock => ValidateBlock(chainState, proposal)
    /\ precommits' = [v \in DOMAIN precommits \cup {n} |->
                          IF v = n THEN SignedVote(n, forBlock) ELSE precommits[v]]
    /\ UNCHANGED <<clock, chainState, proposal, lastPrecommits>>

(* A faulty validator writes any time into its precommit.                   *)
FaultyPrecommit(n, forBlock) ==
    /\ proposal # NoBlock
    /\ n \notin DOMAIN precommits
    /\ \E t \in Times :
           precommits' = [v \in DOMAIN precommits \cup {n} |->
                              IF v = n THEN [time |-> t, forBlock |-> forBlock]
                              ELSE precommits[v]]
    /\ UNCHANGED <<clock, chainState, proposal, lastPrecommits>>

(* updateState                                                              *)
Commit ==
    /\ proposal # NoBlock
    /\ VerifyCommit(precommits)
    /\ ValidateBlock(chainState, proposal)
    /\ chainState' = [lastBlockHeight |-> chainState.lastBlockHeight + 1,
                      lastBlockTime |-> proposal.time]
    /\ lastPrecommits' = precommits
    /\ precommits' = NoCommit
    /\ proposal' = NoBlock
    /\ UNCHANGED clock

(* A precommit of the last height that comes late joins LastCommit.         *)
LatePrecommit(n, vote) ==
    /\ chainState.lastBlockHeight > 0
    /\ n \notin DOMAIN lastPrecommits
    /\ lastPrecommits' = [v \in DOMAIN lastPrecommits \cup {n} |->
                              IF v = n THEN vote ELSE lastPrecommits[v]]
    /\ UNCHANGED <<clock, chainState, proposal, precommits>>

Next ==
    \/ \E n \in Correct : Tick(n)
    \/ Propose
    \/ \E n \in Correct, forBlock \in BOOLEAN : Precommit(n, forBlock)
    \/ \E n \in Validators \ Correct, forBlock \in BOOLEAN : FaultyPrecommit(n, forBlock)
    \/ Commit
    \/ \E n \in Correct, forBlock \in BOOLEAN :
           LatePrecommit(n, [time |-> clock[n], forBlock |-> forBlock])
    \/ \E n \in Validators \ Correct, t \in Times, forBlock \in BOOLEAN :
           LatePrecommit(n, [time |-> t, forBlock |-> forBlock])

Spec == Init /\ [][Next]_timeVars

-----------------------------------------------------------------------------

(* The least time of a signature by which half of the power has signed.     *)
ReferenceMedian(commit) ==
    Min({t \in {commit[v].time : v \in DOMAIN commit} :
            Power({v \in DOMAIN commit : commit[v].time <= t})
                >= Power(DOMAIN commit) \div 2})

(* weightedMedian, which counts down over sorted signatures, finds the      *)
(* median of any commit a proposer can hold, whatever the powers, the ties  *)
(* and the absent; and as all must find the same, it does so however the    *)
(* sort leaves signatures of equal time.                                    *)
MedianIsReference ==
    \A commit \in LastCommits \ {NoCommit} :
        /\ MedianTime(commit) = ReferenceMedian(commit)
        /\ \A order \in ByTime(commit) :
               WeightedMedian(commit, order) = MedianTime(commit)

(* The times the correct validators wrote into a commit.                    *)
HonestTimes(commit) == {commit[v].time : v \in DOMAIN commit \cap Correct}

(* The rounding of the median matters: the faulty have just half of the     *)
(* power that signed, rounded down.                                         *)
FaultyHoldMedian(commit) ==
    Power(DOMAIN commit \ Correct) >= Power(DOMAIN commit) \div 2

(* MedianTime: the time of a valid block "is always between timestamps of   *)
(* the votes sent by honest processes".  The upper bound always holds; the  *)
(* lower one only if the faulty do not hold the rounded half, as one of     *)
(* three equal signers does.                                                *)
TimeWithinHonest ==
    (proposal # NoBlock /\ chainState.lastBlockHeight > 0)
        => /\ \E t \in HonestTimes(proposal.lastCommit) : proposal.time <= t
           /\ \/ FaultyHoldMedian(proposal.lastCommit)
              \/ \E t \in HonestTimes(proposal.lastCommit) : t <= proposal.time

(* Unless clocks are behind the block they vote for, or the rounding gives  *)
(* the faulty the median, no proposer can be left with a LastCommit from    *)
(* which it can only build a block that the others refuse.                  *)
TimelyVotesCarryOn ==
    \A commit \in LastCommits \ {NoCommit} :
        (/\ \A t \in HonestTimes(commit) : t > chainState.lastBlockTime
         /\ ~FaultyHoldMedian(commit))
            => ValidateBlock(chainState, MakeBlock(chainState, commit))

(* voteTime: "for a prior block with a BFT-timestamp of T, any vote from     *)
(* this validator will have time at least time T + 1ms", for "monotonicity  *)
(* of time is a guarantee that BFT time provides": the votes of correct     *)
(* validators always let the next block be after the last.                  *)
CorrectVotesCarryOn ==
    \A commit \in LastCommits \ {NoCommit} :
        DOMAIN commit \subseteq Correct
            => ValidateBlock(chainState, MakeBlock(chainState, commit))
=============================================================================

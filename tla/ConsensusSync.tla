---------------------------- MODULE ConsensusSync ---------------------------
(***************************************************************************)
(* The consensus sync requests by which a node asks a peer for what it     *)
(* misses: createSyncRequest, processSyncRequest and what becomes of the   *)
(* answer.  The answer of a peer at the same height is votes and a         *)
(* proposal, which the synchronous network of ConsensusLiveness delivers   *)
(* anyhow; the answer of a peer ahead may be the committed block.          *)
(***************************************************************************)
EXTENDS ConsensusLiveness

CONSTANT RoundModulus   \* 2^32, scaled down: the width of the round of a request

ASSUME RoundModulusAssumption ==
    RoundModulus \in Nat /\ RoundModulus > MaxRound + 1

(* appendDiffVotes: the votes whose signer is not in the bitmap.  The       *)
(* bitmap of a round without votes has the size of the validator set.       *)
AppendDiffVotes(voteSet, bitmap) == {v \in voteSet : v.val \notin bitmap}

(* createSyncRequest.  For round -1 it panics (HandleSyncTimer), or, should *)
(* the fork make up a vote set, it asks with empty bitmaps.                 *)
CreateSyncRequest(s) ==
    [height |-> s.height, round |-> SyncRound(s) % RoundModulus,
     hasProposal |-> s.proposal # NoProposal,
     prevotes |-> Signers(Prevotes(s, SyncRound(s))),
     precommits |-> Signers(Precommits(s, SyncRound(s)))]

(* The answer, as a set: a stored block with its commit, or messages.       *)
ProcessSyncRequest(s, req) ==
    IF req.height < InitialHeight \/ req.height > s.height THEN {}
    ELSE IF req.height < s.height
    THEN IF ~req.hasProposal
         THEN {s.blockStore[req.height]}
         ELSE s.blockStore[req.height].commit
    ELSE IF req.round > s.round THEN {}
    ELSE (IF ~req.hasProposal /\ s.proposal # NoProposal THEN {s.proposal} ELSE {})
         \cup AppendDiffVotes(Prevotes(s, req.round), req.prevotes)
         \cup AppendDiffVotes(Precommits(s, req.round), req.precommits)

(* consensSyncRoutine asks a peer and hands a block it gets to              *)
(* processCommitedBlock.                                                    *)
Fetched(n) ==
    {fb \in UNION {ProcessSyncRequest(cs[m], CreateSyncRequest(cs[n])) :
                       m \in Correct \ {n}} : fb \in FullBlocks}

FetchBlock(n) == \E fb \in Fetched(n) : HandleCommittedBlock(n, fb)

SyncNext == SynchronousNext \/ \E n \in Correct : FetchBlock(n)

(* A node asks again and again, a random peer each time: the sync timer of  *)
(* receiveRoutine and the loop of consensSyncRoutine.                       *)
SyncSpec ==
    /\ Init
    /\ [][SyncNext]_vars
    /\ Fairness
    /\ \A n \in Correct : WF_vars(FetchBlock(n))

(* enterCommit says "If we don't have the block being committed, set up to  *)
(* get it": a node in the Commit step gets the block and finishes the       *)
(* height, unless it panics.                                                *)
CommitGetsItsBlock ==
    \A n \in Correct, h \in 1..MaxHeight :
        (cs[n].height = h /\ cs[n].step = RoundStepCommit)
            ~> (cs[n].height > h \/ cs[n].halted)

(* createSyncRequest says "make sure we collect enough prevotes for         *)
(* POLRound so that we could vote in this round": with a proposal whose POL *)
(* is incomplete, the request is for the round of the POL.                  *)
RequestsPOLRound ==
    \A n \in Correct :
        LET s == cs[n]
        IN  (/\ s.proposal # NoProposal
             /\ s.proposal.polRound # -1
             /\ ~IsProposalComplete(s))
            => CreateSyncRequest(s).round = s.proposal.polRound
=============================================================================

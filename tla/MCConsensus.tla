----------------------------- MODULE MCConsensus ----------------------------
(***************************************************************************)
(* Small instances of Consensus: three validators of powers 2, 1, 1, as in *)
(* a network where one of them can decide with either of the others.  v3   *)
(* is the faulty one.                                                      *)
(***************************************************************************)
EXTENDS Consensus

CONSTANTS
    v1, v2, v3,
    forged,             \* the content of a block that is not valid
    Turns               \* the order in which the validators propose

ThreeValidators == {v1, v2, v3}

(* More than 2/3 of the power 4.                                            *)
WeightedQuorums == {{v1, v2}, {v1, v3}, ThreeValidators}

(* The proposers rotate with the rounds and the heights.                    *)
TurnsV1V2 == <<v1, v2, v3>>
TurnsV1V3 == <<v1, v3, v2>>
Rotation(h, r) == Turns[((h - 1 + r) % Len(Turns)) + 1]

-----------------------------------------------------------------------------
(* What the faulty v3 may say at height 1.                                  *)

FaultyVote(type, r, b) ==
    [type |-> type, height |-> 1, round |-> r, block |-> b, val |-> v3]

FaultyProposal(r, polRound, b) ==
    [type |-> "proposal", height |-> 1, round |-> r, polRound |-> polRound,
     block |-> b, val |-> v3]

Silent == {}

(* It completes a polka and a commit for v1's block that some node may      *)
(* miss, and a polka for nil in the next round.                             *)
HiddenPolka ==
    {FaultyVote("prevote", 0, <<v1>>), FaultyVote("precommit", 0, <<v1>>),
     FaultyVote("prevote", 1, Nil)}

(* It proposes v1's block again in round 1, claiming a POL of round 0.      *)
ClaimedPOL ==
    {FaultyVote("prevote", 0, <<v1>>), FaultyProposal(1, 0, <<v1>>),
     FaultyVote("prevote", 1, <<v1>>)}

(* On top of v1's block it proposes a valid and an invalid one, and votes   *)
(* for the valid one, perhaps after the others are done with the height.    *)
(* Its precommit for height 0 meets the nil LastCommit of height 1.         *)
TwoChildren ==
    {[type |-> "precommit", height |-> 0, round |-> 0, block |-> Nil, val |-> v3]} \cup
    {[type |-> "proposal", height |-> 2, round |-> 0, polRound |-> -1,
      block |-> <<v1, c>>, val |-> v3] : c \in {v3, forged}} \cup
    {[type |-> t, height |-> 2, round |-> 0, block |-> <<v1, v3>>, val |-> v3] :
        t \in {"prevote", "precommit"}}
=============================================================================

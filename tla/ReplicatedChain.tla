--------------------------- MODULE ReplicatedChain --------------------------
(***************************************************************************)
(* What consensus promises, without messages, rounds or votes: the nodes   *)
(* extend one chain.  A node may lag behind the others, and it takes one   *)
(* valid block at a time; nobody ever takes a block beside the chain.      *)
(***************************************************************************)
EXTENDS Integers, Sequences

CONSTANTS Nodes, Contents

VARIABLE chain      \* chain[n]: the contents of the blocks n has committed

IsPrefixOf(s, t) == Len(s) <= Len(t) /\ s = SubSeq(t, 1, Len(s))

Init == chain = [n \in Nodes |-> <<>>]

Extend(n) ==
    \E c \in Contents :
        LET longer == Append(chain[n], c)
        IN  /\ \A m \in Nodes :
                   IsPrefixOf(longer, chain[m]) \/ IsPrefixOf(chain[m], longer)
            /\ chain' = [chain EXCEPT ![n] = longer]

Next == \E n \in Nodes : Extend(n)

Spec == Init /\ [][Next]_chain
=============================================================================

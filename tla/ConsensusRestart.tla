-------------------------- MODULE ConsensusRestart --------------------------
(***************************************************************************)
(* Consensus with nodes that crash and come back.  runNode opens its       *)
(* database with ErrorIfExist, so a restarted node has nothing but its     *)
(* validator key: it syncs the blocks of a peer and joins with a fresh     *)
(* ConsensusState.  PrivValidatorLocal keeps no record of what it has      *)
(* signed; signed survives here as the history of the key.                 *)
(***************************************************************************)
EXTENDS Consensus

CONSTANT MaxRestarts    \* bound: the restarts of all nodes together

VARIABLE restarts

restartVars == <<cs, net, restarts>>

(* Mutant of Restarted: LastCommit is not reconstructed from the store.     *)
RestartedWithoutCommit(store, signed) ==
    LET h == Len(store)
    IN  [NewConsensusState EXCEPT
            !.height = h + 1,
            !.lastBlock = IF h = 0 THEN Nil ELSE store[h].block,
            !.blockStore = store,
            !.ticks = {[height |-> h + 1, round |-> 0,
                        step |-> RoundStepNewHeight]},
            !.signed = signed]

(* NewConsensusState after block sync took the blocks of store.             *)
Restarted(store, signed) ==
    LET h == Len(store)
    IN  [NewConsensusState EXCEPT
            !.height = h + 1,
            !.lastBlock = IF h = 0 THEN Nil ELSE store[h].block,
            !.lastCommit = IF h = 0 THEN {} ELSE store[h].commit,
            !.blockStore = store,
            !.ticks = {[height |-> h + 1, round |-> 0,
                        step |-> RoundStepNewHeight]},
            !.signed = signed]

(* Block sync ends at the height the peer gave last, and at genesis when no *)
(* peer answered.  A node that has panicked may be restarted as well.       *)
Restart(n) ==
    /\ restarts < MaxRestarts
    /\ restarts' = restarts + 1
    /\ \E m \in Correct \ {n} : \E h \in 0..Len(cs[m].blockStore) :
           cs' = [cs EXCEPT ![n] =
                     Restarted(SubSeq(cs[m].blockStore, 1, h), cs[n].signed)]
    /\ UNCHANGED net

RestartSpec ==
    /\ Init /\ restarts = 0
    /\ [][\/ Next /\ UNCHANGED restarts
          \/ \E n \in Correct : Restart(n)]_restartVars

(* PrivValidator "signs votes and proposals, and never double signs".       *)
NeverDoubleSigns ==
    \A n \in Correct : \A v, w \in cs[n].signed :
        (v.type = w.type /\ v.height = w.height /\ v.round = w.round) => v = w
=============================================================================

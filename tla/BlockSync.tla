------------------------------ MODULE BlockSync -----------------------------
(***************************************************************************)
(* Block stores and block sync.  A node that starts asks its peers for     *)
(* their heights, then the peer with the greatest one for block after      *)
(* block, until its store is as high; then it runs consensus, and its      *)
(* store grows with the chain.  A store is written in three steps, each of *)
(* which may fail, while the stream handlers answer other nodes from it.   *)
(*                                                                         *)
(* The chain is decided: a block is its number and whether it is the one   *)
(* of the chain, and only that one can have a commit of +2/3.  A faulty    *)
(* peer answers anything, and any peer may be gone.                        *)
(***************************************************************************)
EXTENDS Integers, Sequences, FiniteSets

CONSTANTS
    Nodes,
    Correct,
    SkipBlockSync,  \* the correct nodes that run consensus from the start
    NoPeer,
    MaxHeight,      \* bound: the height of the chain
    MaxFails        \* bound: the writes to a database that fail

ASSUME BlockSyncAssumption ==
    /\ Correct \subseteq Nodes /\ SkipBlockSync \subseteq Correct
    /\ NoPeer \notin Nodes
    /\ MaxHeight \in Nat /\ MaxFails \in Nat

Heights == 1..MaxHeight

FullBlocks == [number : Heights, onChain : BOOLEAN, commit : BOOLEAN]

NoBlock == [number |-> 0, onChain |-> FALSE, commit |-> FALSE]

VARIABLES
    db,         \* db[n]: the height, the blocks and the commits that n has written
    chainState, \* the last height that n has applied
    mode,       \* idle, hello, fetch, running, or how n ended: failed or panicked
    writes,     \* what SaveBlock has still to write, in this order
    saving,     \* the block it saves
    sync,       \* the local variables of sync
    fails

vars == <<db, chainState, mode, writes, saving, sync, fails>>

(* ps: the peers, read once; toAsk: those still to be asked in this round.  *)
NotStarted == [ps |-> {}, toAsk |-> {}, maxPeer |-> NoPeer, maxHeight |-> 0, height |-> 0]

TypeOK ==
    /\ db \in [Correct -> [height : Heights \cup {0}, blocks : SUBSET FullBlocks,
                           commits : SUBSET Heights]]
    /\ chainState \in [Correct -> Heights \cup {0}]
    /\ mode \in [Correct -> {"idle", "hello", "fetch", "running", "failed", "panicked"}]
    /\ writes \in [Correct -> Seq({"block", "commit", "height"})]
    /\ saving \in [Correct -> FullBlocks \cup {NoBlock}]
    /\ sync \in [Correct -> [ps : SUBSET Nodes, toAsk : SUBSET Nodes,
                             maxPeer : Nodes \cup {NoPeer},
                             maxHeight : 0..MaxHeight + 1, height : 0..MaxHeight + 1]]
    /\ fails \in 0..MaxFails

Init ==
    /\ db = [n \in Correct |-> [height |-> 0, blocks |-> {}, commits |-> {}]]
    /\ chainState = [n \in Correct |-> 0]
    /\ mode = [n \in Correct |-> IF n \in SkipBlockSync THEN "running" ELSE "idle"]
    /\ writes = [n \in Correct |-> <<>>]
    /\ saving = [n \in Correct |-> NoBlock]
    /\ sync = [n \in Correct |-> NotStarted]
    /\ fails = 0

Saves(n) == writes[n] # <<>>

-----------------------------------------------------------------------------
(* The block store.                                                         *)

(* Mutant of WriteOrder: the height is written first.                       *)
WriteOrderHeightFirst == <<"height", "block", "commit">>

WriteOrder == <<"block", "commit", "height">>

(* LoadBlock and LoadBlockCommit, together as the full block handler does.  *)
Loaded(m, h) ==
    {[b EXCEPT !.commit = h \in db[m].commits] : b \in {c \in db[m].blocks : c.number = h}}

(* SaveBlock begins: it panics unless the block is the next one.            *)
SaveBlock(n, b) ==
    IF b.number # db[n].height + 1
    THEN /\ mode' = [mode EXCEPT ![n] = "panicked"]
         /\ UNCHANGED <<writes, saving>>
    ELSE /\ writes' = [writes EXCEPT ![n] = WriteOrder]
         /\ saving' = [saving EXCEPT ![n] = b]
         /\ UNCHANGED mode

(* After SaveBlock, whether it wrote all or not: block sync goes on with    *)
(* the next height, or with a new round of hellos.                          *)
SaveBlockReturns(n) ==
    /\ chainState' = [chainState EXCEPT ![n] = saving[n].number]
    /\ writes' = [writes EXCEPT ![n] = <<>>]
    /\ saving' = [saving EXCEPT ![n] = NoBlock]
    /\ IF mode[n] = "running" THEN UNCHANGED <<mode, sync>>
       ELSE IF sync[n].height < sync[n].maxHeight
       THEN /\ sync' = [sync EXCEPT ![n].height = @ + 1]
            /\ UNCHANGED mode
       ELSE /\ sync' = [sync EXCEPT ![n].toAsk = sync[n].ps, ![n].height = 0]
            /\ mode' = [mode EXCEPT ![n] = "hello"]

Written(n, key) ==
    CASE key = "block"  -> [db[n] EXCEPT !.blocks =
                               {b \in @ : b.number # saving[n].number} \cup {saving[n]}]
      [] key = "commit" -> [db[n] EXCEPT !.commits = @ \cup {saving[n].number}]
      [] key = "height" -> [db[n] EXCEPT !.height = saving[n].number]

Put(n) ==
    /\ Saves(n)
    /\ db' = [db EXCEPT ![n] = Written(n, Head(writes[n]))]
    /\ IF Len(writes[n]) = 1 THEN SaveBlockReturns(n)
       ELSE /\ writes' = [writes EXCEPT ![n] = Tail(@)]
            /\ UNCHANGED <<chainState, mode, saving, sync>>
    /\ UNCHANGED fails

(* A write fails: SaveBlock returns and tells nobody.                       *)
PutFails(n) ==
    /\ Saves(n)
    /\ fails < MaxFails /\ fails' = fails + 1
    /\ SaveBlockReturns(n)
    /\ UNCHANGED db

-----------------------------------------------------------------------------
(* Block sync.                                                              *)

(* The peers a node happens to be connected to.                             *)
StartSync(n) ==
    /\ mode[n] = "idle"
    /\ \E ps \in SUBSET (Nodes \ {n}) :
           sync' = [sync EXCEPT ![n] = [NotStarted EXCEPT !.ps = ps, !.toAsk = ps]]
    /\ mode' = [mode EXCEPT ![n] = "hello"]
    /\ UNCHANGED <<db, chainState, writes, saving, fails>>

HelloHeights(p) == IF p \in Correct THEN {db[p].height} ELSE 0..MaxHeight + 1

(* Mutant of MaxPeer: the last peer is asked, whatever its height.          *)
MaxPeerLast(s, p, h) ==
    IF h > s.maxHeight THEN [s EXCEPT !.maxHeight = h, !.maxPeer = p]
    ELSE [s EXCEPT !.maxPeer = p]

(* Mutant of MaxPeer: the height is taken for the next one.                 *)
MaxPeerOffByOne(s, p, h) ==
    IF h > s.maxHeight THEN [s EXCEPT !.maxHeight = h + 1, !.maxPeer = p]
    ELSE IF s.maxHeight = 0 THEN [s EXCEPT !.maxPeer = p]
    ELSE s

MaxPeer(s, p, h) ==
    IF h > s.maxHeight THEN [s EXCEPT !.maxHeight = h, !.maxPeer = p]
    ELSE IF s.maxHeight = 0 THEN [s EXCEPT !.maxPeer = p]
    ELSE s

(* One peer answers, or its request ends in an error.                       *)
Hello(n, p) ==
    /\ mode[n] = "hello" /\ p \in sync[n].toAsk
    /\ LET s == [sync[n] EXCEPT !.toAsk = @ \ {p}]
       IN  \/ sync' = [sync EXCEPT ![n] = s]
           \/ \E h \in HelloHeights(p) : sync' = [sync EXCEPT ![n] = MaxPeer(s, p, h)]
    /\ UNCHANGED <<db, chainState, mode, writes, saving, fails>>

(* Mutant of LocalHeight: what was applied, not what was stored.            *)
LocalHeightApplied(n) == chainState[n]

LocalHeight(n) == db[n].height

(* All have been asked: is the store as high as the highest of them?        *)
CompareHeights(n) ==
    /\ mode[n] = "hello" /\ sync[n].toAsk = {}
    /\ IF sync[n].maxHeight <= LocalHeight(n)
       THEN /\ mode' = [mode EXCEPT ![n] = "running"]
            /\ UNCHANGED sync
       ELSE /\ mode' = [mode EXCEPT ![n] = "fetch"]
            /\ sync' = [sync EXCEPT ![n].height = LocalHeight(n) + 1]
    /\ UNCHANGED <<db, chainState, writes, saving, fails>>

(* The full block handler of p: a correct peer answers from its store, and  *)
(* not at all for a block that it does not have.                            *)
FullBlockAnswers(p, h) == IF p \in Correct THEN Loaded(p, h) ELSE FullBlocks

ValidateBlock(n, b) == b.number = chainState[n] + 1

VerifyCommit(b) == b.commit /\ b.onChain

(* Mutant of FetchFails: the next round of the loop tries again.            *)
FetchFailsTriesAgain(n) ==
    /\ mode' = [mode EXCEPT ![n] = "hello"]
    /\ sync' = [sync EXCEPT ![n].toAsk = sync[n].ps, ![n].height = 0]
    /\ UNCHANGED <<writes, saving>>

(* Any error ends block sync with that error.                               *)
FetchFails(n) ==
    /\ mode' = [mode EXCEPT ![n] = "failed"]
    /\ UNCHANGED <<sync, writes, saving>>

(* The request fails, the answer is refused, or the block is saved.         *)
Fetch(n) ==
    /\ mode[n] = "fetch" /\ ~Saves(n)
    /\ \/ FetchFails(n)
       \/ \E b \in FullBlockAnswers(sync[n].maxPeer, sync[n].height) :
              IF ValidateBlock(n, b) /\ VerifyCommit(b)
              THEN SaveBlock(n, b) /\ UNCHANGED sync
              ELSE FetchFails(n)
    /\ UNCHANGED <<db, chainState, fails>>

(* Consensus commits the next block of the chain in a running node: the     *)
(* store may have it, or may be behind.                                     *)
CommitBlock(n) ==
    /\ mode[n] = "running" /\ ~Saves(n)
    /\ chainState[n] < MaxHeight
    /\ LET b == [number |-> chainState[n] + 1, onChain |-> TRUE, commit |-> TRUE]
       IN  IF db[n].height < b.number
           THEN SaveBlock(n, b) /\ UNCHANGED chainState
           ELSE /\ chainState' = [chainState EXCEPT ![n] = b.number]
                /\ UNCHANGED <<mode, writes, saving>>
    /\ UNCHANGED <<db, sync, fails>>

SyncStep(n) ==
    \/ Put(n)
    \/ \E p \in Nodes : Hello(n, p)
    \/ CompareHeights(n) \/ Fetch(n)

Next ==
    \E n \in Correct : SyncStep(n) \/ StartSync(n) \/ PutFails(n) \/ CommitBlock(n)

(* A node goes on with what it has begun, and its requests end, with an     *)
(* answer or an error: SendRPC itself has no timeout.                       *)
Spec == Init /\ [][Next]_vars /\ \A n \in Correct : WF_vars(SyncStep(n))

-----------------------------------------------------------------------------

(* What a node says in a hello it has: whatever writes have failed or are   *)
(* under way, every block up to the height is there, with its commit, and   *)
(* is the one of the chain.                                                 *)
HeightIsStored ==
    \A n \in Correct : \A h \in 1..db[n].height :
        [number |-> h, onChain |-> TRUE, commit |-> TRUE] \in Loaded(n, h)

(* Block sync asks a correct peer only for what that has, so its handler,   *)
(* which does not check, never loads a block that is not there: maxPeer is  *)
(* the peer that maxHeight comes from, over all the rounds of hellos.       *)
AsksForWhatIsThere ==
    \A n \in Correct :
        (mode[n] = "fetch" /\ sync[n].maxPeer \in Correct)
            => sync[n].height \in 1..db[sync[n].maxPeer].height

(* When block sync ends well the store is where the chain state is, and     *)
(* complete: consensus begins from there with the commit of the last block. *)
SyncEndsComplete ==
    [][\A n \in Correct :
           (mode[n] = "hello" /\ mode'[n] = "running")
               => /\ db[n].height = chainState[n]
                  /\ chainState[n] >= sync[n].maxHeight]_vars

(* A node runs consensus or stops with an error: no answer keeps it in      *)
(* block sync for ever.                                                     *)
SyncEnds ==
    \A n \in Correct :
        mode[n] = "hello" ~> mode[n] \in {"running", "failed", "panicked"}
=============================================================================

--------------------------- MODULE BlockSyncProofs ---------------------------
(***************************************************************************)
(* What holds of BlockSync for any nodes, any chain and any number of      *)
(* writes that fail: a store has what it tells, block sync asks a correct  *)
(* peer only for that, and it ends with the store where the chain state    *)
(* is.                                                                     *)
(*                                                                         *)
(* None of the three is inductive.  StoreOK follows the three writes: what *)
(* SaveBlock has still to write, and that the block it saves is the next   *)
(* one.  SyncOK follows the loop: the peer asked has had the greatest      *)
(* height since it said so, and a write that failed shows as a chain state *)
(* one above the store, which no round of hellos overlooks.                *)
(***************************************************************************)
EXTENDS BlockSync, TLAPS

BlockStoredAt(n, h) == \E b \in db[n].blocks : b.number = h /\ b.onChain

StoredAt(n, h) == h \in db[n].commits /\ BlockStoredAt(n, h)

(* What can be left to write: the rest of WriteOrder after some writes.     *)
StoreOK(n) ==
    /\ writes[n] \in {<<>>, WriteOrder, <<"commit", "height">>, <<"height">>}
    /\ \A h \in 1..db[n].height : StoredAt(n, h)
    /\ Saves(n) => /\ saving[n] \in FullBlocks /\ saving[n].onChain
                   /\ saving[n].number = db[n].height + 1
                   /\ chainState[n] = db[n].height
                   /\ mode[n] \in {"fetch", "running"}
    /\ writes[n] \in {<<"commit", "height">>, <<"height">>}
           => BlockStoredAt(n, db[n].height + 1)
    /\ writes[n] = <<"height">> => StoredAt(n, db[n].height + 1)

SyncOK(n) ==
    /\ sync[n].maxPeer \in Correct => sync[n].maxHeight <= db[sync[n].maxPeer].height
    /\ mode[n] = "fetch" => sync[n].height \in 1..sync[n].maxHeight
    /\ mode[n] = "idle" => chainState[n] = db[n].height
    /\ (mode[n] \in {"hello", "fetch"} /\ ~Saves(n))
           => \/ chainState[n] = db[n].height
              \/ /\ chainState[n] = db[n].height + 1
                 /\ chainState[n] <= sync[n].maxHeight
    /\ (mode[n] = "fetch" /\ Saves(n)) => saving[n].number = sync[n].height
    /\ (mode[n] = "fetch" /\ ~Saves(n) /\ chainState[n] = db[n].height)
           => sync[n].height = chainState[n] + 1

(* The type of the local variables of sync.                                 *)
Syncs == [ps : SUBSET Nodes, toAsk : SUBSET Nodes, maxPeer : Nodes \cup {NoPeer},
          maxHeight : 0..MaxHeight + 1, height : 0..MaxHeight + 1]

Inv == TypeOK /\ \A n \in Correct : StoreOK(n) /\ SyncOK(n)

(* No node but n changes, and the store of n does not shrink.               *)
OnlyOf(n) ==
    /\ db[n].height <= db'[n].height
    /\ \A m \in Correct \ {n} :
           /\ db'[m] = db[m] /\ chainState'[m] = chainState[m] /\ mode'[m] = mode[m]
           /\ writes'[m] = writes[m] /\ saving'[m] = saving[m] /\ sync'[m] = sync[m]

-----------------------------------------------------------------------------

LEMMA InitInv == Init => Inv
<1> SUFFICES ASSUME Init PROVE Inv
    OBVIOUS
<1> USE BlockSyncAssumption
<1>1. TypeOK
    BY DEF Init, TypeOK, NotStarted, NoBlock
<1>2. ASSUME NEW n \in Correct PROVE StoreOK(n) /\ SyncOK(n)
    BY <1>2 DEF Init, StoreOK, SyncOK, NotStarted, Saves
<1>3. QED
    BY <1>1, <1>2 DEF Inv

(* A step of one node that leaves it in order leaves all in order: the      *)
(* others only depend on its store, which has not shrunk.                   *)
LEMMA StepOfOne ==
  ASSUME Inv, TypeOK', NEW n \in Correct, OnlyOf(n), StoreOK(n)', SyncOK(n)'
  PROVE  Inv'
<1>1. ASSUME NEW m \in Correct, m # n PROVE StoreOK(m)' /\ SyncOK(m)'
  <2>1. /\ db'[m] = db[m] /\ chainState'[m] = chainState[m] /\ mode'[m] = mode[m]
        /\ writes'[m] = writes[m] /\ saving'[m] = saving[m] /\ sync'[m] = sync[m]
        /\ StoreOK(m) /\ SyncOK(m)
      BY <1>1 DEF OnlyOf, Inv
  <2>2. StoreOK(m)'
      BY <2>1 DEF StoreOK, StoredAt, BlockStoredAt, Saves
  <2>3. \A p \in Correct : db[p].height <= db'[p].height
    <3>1. \A p \in Correct : db[p].height \in Heights \cup {0}
        BY DEF Inv, TypeOK
    <3>2. \A p \in Correct : db[p].height \in Int
        BY <3>1, BlockSyncAssumption DEF Heights
    <3>3. QED
        BY <3>2 DEF OnlyOf
  <2>4. sync'[m].maxPeer \in Correct
            => sync'[m].maxHeight <= db'[sync'[m].maxPeer].height
    <3>1. /\ sync[m].maxHeight \in 0..MaxHeight + 1
          /\ \A p \in Correct : db[p].height \in Heights \cup {0}
        BY DEF Inv, TypeOK
    <3>2. \A p \in Correct : db'[p].height \in Heights \cup {0}
        BY DEF TypeOK
    <3>3. /\ sync[m].maxHeight \in Int
          /\ \A p \in Correct : db[p].height \in Int /\ db'[p].height \in Int
        BY <3>1, <3>2, BlockSyncAssumption DEF Heights
    <3>4. QED
        BY <2>1, <2>3, <3>3 DEF SyncOK
  <2>5. SyncOK(m)'
      BY <2>1, <2>4 DEF SyncOK, Saves
  <2>6. QED
      BY <2>2, <2>5
<1>2. QED
    BY <1>1 DEF Inv

-----------------------------------------------------------------------------
(* The store.                                                               *)

(* SaveBlock returns, in a node that has stored all, or failed to: the      *)
(* store is in order, and sync where it should be.                          *)
LEMMA Returns ==
  ASSUME Inv, NEW n \in Correct, Saves(n), SaveBlockReturns(n), TypeOK',
         \/ db' = db
         \/ db' = [db EXCEPT ![n].height = saving[n].number]
            /\ StoredAt(n, saving[n].number)
  PROVE  OnlyOf(n) /\ StoreOK(n)' /\ SyncOK(n)'
<1> USE BlockSyncAssumption
<1>1. /\ db \in [Correct -> [height : Heights \cup {0}, blocks : SUBSET FullBlocks,
                             commits : SUBSET Heights]]
      /\ chainState \in [Correct -> Heights \cup {0}]
      /\ mode \in [Correct -> {"idle", "hello", "fetch", "running", "failed", "panicked"}]
      /\ writes \in [Correct -> Seq({"block", "commit", "height"})]
      /\ saving \in [Correct -> FullBlocks \cup {NoBlock}]
      /\ sync \in [Correct -> [ps : SUBSET Nodes, toAsk : SUBSET Nodes,
                               maxPeer : Nodes \cup {NoPeer},
                               maxHeight : 0..MaxHeight + 1, height : 0..MaxHeight + 1]]
      /\ StoreOK(n) /\ SyncOK(n)
    BY DEF Inv, TypeOK
<1>2. /\ saving[n] \in FullBlocks
      /\ saving[n].number \in Nat /\ saving[n].number = db[n].height + 1
      /\ db[n].height \in Nat /\ chainState[n] = db[n].height
      /\ mode[n] \in {"fetch", "running"}
    BY <1>1 DEF StoreOK, FullBlocks, Heights
<1>3. /\ db'[n].height \in {db[n].height, saving[n].number}
      /\ db'[n].blocks = db[n].blocks /\ db'[n].commits = db[n].commits
      /\ \A m \in Correct \ {n} : db'[m] = db[m]
      /\ db'[n].height = saving[n].number => StoredAt(n, saving[n].number)
    BY <1>1, <1>2
<1>4. /\ chainState'[n] = saving[n].number /\ writes'[n] = <<>>
      /\ \A m \in Correct \ {n} :
             /\ chainState'[m] = chainState[m] /\ writes'[m] = writes[m]
             /\ saving'[m] = saving[m] /\ mode'[m] = mode[m] /\ sync'[m] = sync[m]
    BY <1>1 DEF SaveBlockReturns
<1>5. OnlyOf(n)
    BY <1>2, <1>3, <1>4 DEF OnlyOf
<1>6. \A h \in 1..db'[n].height : StoredAt(n, h)'
  <2>1. \A h \in 1..db'[n].height : StoredAt(n, h)
      BY <1>1, <1>2, <1>3 DEF StoreOK
  <2>2. QED
      BY <1>3, <2>1 DEF StoredAt, BlockStoredAt
<1>7. StoreOK(n)'
    BY <1>4, <1>6 DEF StoreOK, Saves
<1>8. sync'[n].maxPeer = sync[n].maxPeer /\ sync'[n].maxHeight = sync[n].maxHeight
    BY <1>1 DEF SaveBlockReturns
<1>9. sync'[n].maxPeer \in Correct => sync'[n].maxHeight <= db'[sync'[n].maxPeer].height
  <2>1. /\ sync[n].maxHeight \in Int
        /\ \A p \in Correct : /\ db[p].height \in Int
                              /\ db'[p].height \in Int
                              /\ db[p].height <= db'[p].height
      BY <1>1, <1>2, <1>3 DEF Heights
  <2>2. QED
      BY <1>1, <1>8, <2>1 DEF SyncOK
<1>10. CASE mode[n] = "running"
  <2>1. mode'[n] = "running"
      BY <1>10 DEF SaveBlockReturns
  <2>2. QED
      BY <1>5, <1>7, <1>9, <2>1 DEF SyncOK
<1>11. CASE mode[n] = "fetch"
  <2>1. /\ sync[n].height = saving[n].number /\ sync[n].height \in 1..sync[n].maxHeight
        /\ sync[n].maxHeight \in Nat
      BY <1>1, <1>11 DEF SyncOK
  <2>2. \/ /\ sync[n].height < sync[n].maxHeight
           /\ sync'[n].height = sync[n].height + 1 /\ mode'[n] = "fetch"
        \/ mode'[n] = "hello"
      BY <1>1, <1>11 DEF SaveBlockReturns
  <2>3. /\ mode'[n] # "idle" /\ ~Saves(n)'
        /\ mode'[n] = "fetch" => sync'[n].height \in 1..sync'[n].maxHeight
      BY <1>4, <1>8, <2>1, <2>2 DEF Saves
  <2>4. \/ chainState'[n] = db'[n].height
        \/ chainState'[n] = db'[n].height + 1 /\ chainState'[n] <= sync'[n].maxHeight
      BY <1>2, <1>3, <1>4, <1>8, <2>1
  <2>5. (mode'[n] = "fetch" /\ chainState'[n] = db'[n].height)
            => sync'[n].height = chainState'[n] + 1
      BY <1>4, <2>1, <2>2
  <2>6. QED
      BY <1>5, <1>7, <1>9, <2>3, <2>4, <2>5 DEF SyncOK
<1>12. QED
    BY <1>2, <1>10, <1>11

LEMMA SyncsUpdate ==
  ASSUME NEW s \in Syncs, NEW ps \in SUBSET Nodes, NEW h \in 0..MaxHeight + 1
  PROVE  [s EXCEPT !.toAsk = ps, !.height = h] \in Syncs
BY DEF Syncs

LEMMA TypeReturns ==
  ASSUME Inv, NEW n \in Correct, Saves(n), SaveBlockReturns(n),
         db' \in [Correct -> [height : Heights \cup {0}, blocks : SUBSET FullBlocks,
                              commits : SUBSET Heights]],
         fails' \in 0..MaxFails
  PROVE  TypeOK'
<1> USE BlockSyncAssumption
<1>1. saving[n].number \in Heights
    BY DEF Inv, StoreOK, FullBlocks
<1>2. chainState' \in [Correct -> Heights \cup {0}]
    BY <1>1 DEF Inv, TypeOK, SaveBlockReturns
<1>3. writes' \in [Correct -> Seq({"block", "commit", "height"})]
  <2>1. <<>> \in Seq({"block", "commit", "height"})
      OBVIOUS
  <2>2. QED
      BY <2>1 DEF Inv, TypeOK, SaveBlockReturns
<1>4. saving' \in [Correct -> FullBlocks \cup {NoBlock}]
    BY DEF Inv, TypeOK, SaveBlockReturns
<1>5. mode' \in [Correct -> {"idle", "hello", "fetch", "running", "failed", "panicked"}]
  <2>1. mode' = mode \/ mode' = [mode EXCEPT ![n] = "hello"]
      BY DEF SaveBlockReturns
  <2>2. QED
      BY <2>1 DEF Inv, TypeOK
<1>6. sync' \in [Correct -> Syncs]
  <2>1. sync \in [Correct -> Syncs] /\ sync[n] \in Syncs
      BY DEF Inv, TypeOK, Syncs
  <2>2. \/ sync' = sync
        \/ /\ sync' = [sync EXCEPT ![n] = [sync[n] EXCEPT !.height = @ + 1]]
           /\ sync[n].height < sync[n].maxHeight
        \/ sync' = [sync EXCEPT ![n] = [sync[n] EXCEPT !.toAsk = sync[n].ps, !.height = 0]]
      BY <2>1 DEF SaveBlockReturns
  <2>3. sync[n].height < sync[n].maxHeight
            => [sync[n] EXCEPT !.height = @ + 1] \in Syncs
      BY <2>1 DEF Syncs
  <2>4. [sync[n] EXCEPT !.toAsk = sync[n].ps, !.height = 0] \in Syncs
    <3>1. sync[n].ps \in SUBSET Nodes /\ 0 \in 0..MaxHeight + 1
        BY <2>1 DEF Syncs
    <3>2. QED
        BY <2>1, <3>1, SyncsUpdate
  <2>5. QED
      BY <2>1, <2>2, <2>3, <2>4
<1>7. QED
    BY <1>2, <1>3, <1>4, <1>5, <1>6 DEF TypeOK, Syncs

(* What can be left to write after a first write.                           *)
LEMMA Rests ==
  ASSUME NEW rest \in {<<"commit", "height">>, <<"height">>}
  PROVE  rest \in Seq({"block", "commit", "height"}) /\ rest # <<>> /\ rest # WriteOrder
<1>1. CASE rest = <<"height">>
  <2>1. rest \in Seq({"block", "commit", "height"})
      BY <1>1
  <2>2. Len(rest) = 1 /\ Len(<<>>) = 0 /\ Len(WriteOrder) = 3
      BY <1>1 DEF WriteOrder
  <2>3. QED
      BY <2>1, <2>2
<1>2. CASE rest = <<"commit", "height">>
  <2>1. rest \in Seq({"block", "commit", "height"})
      BY <1>2
  <2>2. Len(rest) = 2 /\ Len(<<>>) = 0 /\ Len(WriteOrder) = 3
      BY <1>2 DEF WriteOrder
  <2>3. QED
      BY <2>1, <2>2
<1>3. QED
    BY <1>1, <1>2

LEMMA PutInv ==
  ASSUME Inv, NEW n \in Correct, Put(n)
  PROVE  Inv'
<1> USE BlockSyncAssumption
<1>1. /\ TypeOK /\ StoreOK(n) /\ SyncOK(n) /\ Saves(n)
      /\ saving[n] \in FullBlocks /\ saving[n].number \in Heights
      /\ saving[n].onChain /\ saving[n].number = db[n].height + 1
      /\ chainState[n] = db[n].height /\ mode[n] \in {"fetch", "running"}
    BY DEF Inv, Put, StoreOK, FullBlocks
<1>2. /\ db \in [Correct -> [height : Heights \cup {0}, blocks : SUBSET FullBlocks,
                             commits : SUBSET Heights]]
      /\ writes \in [Correct -> Seq({"block", "commit", "height"})]
    BY <1>1 DEF TypeOK
<1>3. CASE writes[n] = <<"height">>
  <2>1. db' = [db EXCEPT ![n].height = saving[n].number] /\ SaveBlockReturns(n)
        /\ fails' = fails
      BY <1>3 DEF Put, Written
  <2>2. StoredAt(n, saving[n].number)
      BY <1>1, <1>3 DEF StoreOK
  <2>3. db' \in [Correct -> [height : Heights \cup {0}, blocks : SUBSET FullBlocks,
                             commits : SUBSET Heights]]
      BY <1>1, <1>2, <2>1
  <2>4. TypeOK'
      BY <1>1, <2>1, <2>3, TypeReturns DEF TypeOK
  <2>5. QED
      BY <1>1, <2>1, <2>2, <2>4, Returns, StepOfOne
<1>4. ASSUME writes[n] \in {WriteOrder, <<"commit", "height">>},
             writes' = [writes EXCEPT ![n] = writes'[n]],
             writes'[n] \in {<<"commit", "height">>, <<"height">>},
             UNCHANGED <<chainState, mode, saving, sync, fails>>,
             db' \in [Correct -> [height : Heights \cup {0}, blocks : SUBSET FullBlocks,
                                  commits : SUBSET Heights]],
             \A m \in Correct \ {n} : db'[m] = db[m] /\ writes'[m] = writes[m],
             db'[n].height = db[n].height,
             \A h \in 1..db[n].height : StoredAt(n, h)',
             BlockStoredAt(n, saving[n].number)',
             writes'[n] = <<"height">> => StoredAt(n, saving[n].number)'
      PROVE  Inv'
  <2>1. writes' \in [Correct -> Seq({"block", "commit", "height"})] /\ Saves(n)'
    <3>1. writes'[n] \in Seq({"block", "commit", "height"}) /\ writes'[n] # <<>>
        BY <1>4, Rests
    <3>2. QED
        BY <1>2, <1>4, <3>1 DEF Saves
  <2>2. TypeOK'
      BY <1>1, <1>4, <2>1 DEF TypeOK
  <2>3. OnlyOf(n)
      BY <1>2, <1>4 DEF OnlyOf, Heights
  <2>4. StoreOK(n)'
    <3>1. \A h \in 1..db'[n].height : StoredAt(n, h)'
        BY <1>4
    <3>2. /\ saving'[n] = saving[n] /\ chainState'[n] = chainState[n] /\ mode'[n] = mode[n]
          /\ saving[n].number = db'[n].height + 1 /\ db'[n].height = db[n].height
        BY <1>1, <1>4
    <3>3. writes'[n] # WriteOrder /\ writes'[n] # <<>>
        BY <1>4, Rests
    <3>4. BlockStoredAt(n, db[n].height + 1)'
        BY <1>4, <3>2
    <3>5. writes'[n] = <<"height">> => StoredAt(n, db[n].height + 1)'
        BY <1>4, <2>1, <3>2
    <3>6. QED
        BY <1>1, <1>4, <2>1, <3>1, <3>2, <3>3, <3>4, <3>5 DEF StoreOK
  <2>5. SyncOK(n)'
    <3>1. sync'[n].maxPeer \in Correct
              => sync'[n].maxHeight <= db'[sync'[n].maxPeer].height
        BY <1>1, <1>2, <1>4 DEF SyncOK
    <3>2. QED
        BY <1>1, <1>4, <2>1, <3>1 DEF SyncOK, Saves
  <2>6. QED
      BY <2>2, <2>3, <2>4, <2>5, StepOfOne
<1>5. CASE writes[n] = WriteOrder
  <2>1. /\ Head(writes[n]) = "block" /\ Len(writes[n]) # 1
        /\ Tail(writes[n]) = <<"commit", "height">>
      BY <1>5 DEF WriteOrder
  <2>2. /\ db' = [db EXCEPT ![n].blocks =
                      {b \in @ : b.number # saving[n].number} \cup {saving[n]}]
        /\ writes' = [writes EXCEPT ![n] = <<"commit", "height">>]
        /\ UNCHANGED <<chainState, mode, saving, sync, fails>>
      BY <2>1 DEF Put, Written
  <2>3. /\ db'[n].height = db[n].height /\ db'[n].commits = db[n].commits
        /\ db'[n].blocks = {b \in db[n].blocks : b.number # saving[n].number} \cup {saving[n]}
        /\ \A m \in Correct \ {n} : db'[m] = db[m]
      BY <1>2, <2>2
  <2>4. db' \in [Correct -> [height : Heights \cup {0}, blocks : SUBSET FullBlocks,
                             commits : SUBSET Heights]]
      BY <1>1, <1>2, <2>2
  <2>5. ASSUME NEW h \in 1..db[n].height PROVE StoredAt(n, h)'
    <3>1. StoredAt(n, h) /\ h # saving[n].number
        BY <1>1, <1>2 DEF StoreOK, Heights
    <3>2. QED
        BY <2>3, <3>1 DEF StoredAt, BlockStoredAt
  <2>6. BlockStoredAt(n, saving[n].number)'
      BY <1>1, <2>2, <2>3 DEF BlockStoredAt
  <2>7. /\ writes'[n] = <<"commit", "height">> /\ writes' = [writes EXCEPT ![n] = writes'[n]]
        /\ \A m \in Correct \ {n} : writes'[m] = writes[m]
        /\ UNCHANGED <<chainState, mode, saving, sync, fails>>
      BY <1>2, <2>2
  <2>8. QED
      BY <1>4, <1>5, <2>3, <2>4, <2>5, <2>6, <2>7
<1>6. CASE writes[n] = <<"commit", "height">>
  <2>1. /\ Head(writes[n]) = "commit" /\ Len(writes[n]) # 1
        /\ Tail(writes[n]) = <<"height">>
      BY <1>6
  <2>2. /\ db' = [db EXCEPT ![n].commits = @ \cup {saving[n].number}]
        /\ writes' = [writes EXCEPT ![n] = <<"height">>]
        /\ UNCHANGED <<chainState, mode, saving, sync, fails>>
      BY <2>1 DEF Put, Written
  <2>3. /\ db'[n].height = db[n].height /\ db'[n].blocks = db[n].blocks
        /\ db'[n].commits = db[n].commits \cup {saving[n].number}
        /\ \A m \in Correct \ {n} : db'[m] = db[m]
      BY <1>2, <2>2
  <2>4. db' \in [Correct -> [height : Heights \cup {0}, blocks : SUBSET FullBlocks,
                             commits : SUBSET Heights]]
      BY <1>1, <1>2, <2>2
  <2>5. ASSUME NEW h \in 1..db[n].height PROVE StoredAt(n, h)'
      BY <1>1, <2>3 DEF StoreOK, StoredAt, BlockStoredAt
  <2>6. StoredAt(n, saving[n].number)'
      BY <1>1, <1>6, <2>2, <2>3 DEF StoreOK, StoredAt, BlockStoredAt
  <2>7. BlockStoredAt(n, saving[n].number)'
      BY <2>6 DEF StoredAt
  <2>8. /\ writes'[n] = <<"height">> /\ writes' = [writes EXCEPT ![n] = writes'[n]]
        /\ \A m \in Correct \ {n} : writes'[m] = writes[m]
        /\ UNCHANGED <<chainState, mode, saving, sync, fails>>
      BY <1>2, <2>2
  <2>9. QED
      BY <1>4, <1>6, <2>3, <2>4, <2>5, <2>6, <2>7, <2>8
<1>7. QED
    BY <1>1, <1>3, <1>5, <1>6 DEF StoreOK, Saves

LEMMA PutFailsInv ==
  ASSUME Inv, NEW n \in Correct, PutFails(n)
  PROVE  Inv'
<1> USE BlockSyncAssumption
<1>1. /\ Saves(n) /\ SaveBlockReturns(n) /\ db' = db /\ fails' \in 0..MaxFails
      /\ db' \in [Correct -> [height : Heights \cup {0}, blocks : SUBSET FullBlocks,
                              commits : SUBSET Heights]]
    BY DEF PutFails, Inv, TypeOK
<1>2. TypeOK'
    BY <1>1, TypeReturns
<1>3. QED
    BY <1>1, <1>2, Returns, StepOfOne

(* A step of n that leaves the stores alone.                                *)
LEMMA QuietStep ==
  ASSUME Inv, NEW n \in Correct,
         UNCHANGED <<db, writes, saving>>,
         chainState' \in [Correct -> Heights \cup {0}],
         mode' \in [Correct -> {"idle", "hello", "fetch", "running", "failed", "panicked"}],
         sync' \in [Correct -> Syncs],
         fails' \in 0..MaxFails,
         \A m \in Correct \ {n} :
             chainState'[m] = chainState[m] /\ mode'[m] = mode[m] /\ sync'[m] = sync[m],
         Saves(n) => chainState'[n] = chainState[n] /\ mode'[n] = mode[n],
         SyncOK(n)'
  PROVE  Inv'
<1>1. TypeOK'
    BY DEF Inv, TypeOK, Syncs
<1>2. OnlyOf(n)
  <2>1. db[n].height \in Int
      BY BlockSyncAssumption DEF Inv, TypeOK, Heights
  <2>2. QED
      BY <2>1 DEF OnlyOf
<1>3. StoreOK(n)'
  <2>1. StoreOK(n)
      BY DEF Inv
  <2>2. /\ writes'[n] = writes[n] /\ saving'[n] = saving[n] /\ db'[n] = db[n]
        /\ \A h : StoredAt(n, h)' <=> StoredAt(n, h)
        /\ \A h : BlockStoredAt(n, h)' <=> BlockStoredAt(n, h)
        /\ Saves(n)' <=> Saves(n)
      BY DEF StoredAt, BlockStoredAt, Saves
  <2>3. QED
      BY <2>1, <2>2 DEF StoreOK
<1>4. QED
    BY <1>1, <1>2, <1>3, StepOfOne

(* SaveBlock of the next block of the chain begins.                         *)
LEMMA SaveBlockInv ==
  ASSUME Inv, NEW n \in Correct, ~Saves(n), mode[n] \in {"fetch", "running"},
         NEW b \in FullBlocks, b.onChain, b.number = chainState[n] + 1,
         SaveBlock(n, b), UNCHANGED <<db, chainState, sync, fails>>
  PROVE  Inv'
<1> USE BlockSyncAssumption
<1>1. /\ TypeOK /\ StoreOK(n) /\ SyncOK(n)
      /\ db[n].height \in Nat /\ chainState[n] \in Nat /\ b.number \in Heights
    BY DEF Inv, TypeOK, Heights, FullBlocks
<1>2. /\ sync \in [Correct -> Syncs] /\ chainState \in [Correct -> Heights \cup {0}]
      /\ mode \in [Correct -> {"idle", "hello", "fetch", "running", "failed", "panicked"}]
      /\ writes \in [Correct -> Seq({"block", "commit", "height"})]
      /\ saving \in [Correct -> FullBlocks \cup {NoBlock}]
      /\ fails \in 0..MaxFails
    BY <1>1 DEF TypeOK, Syncs
<1>3. CASE b.number # db[n].height + 1
  <2>1. mode' = [mode EXCEPT ![n] = "panicked"] /\ UNCHANGED <<writes, saving>>
      BY <1>3 DEF SaveBlock
  <2>2. SyncOK(n)'
      BY <1>1, <1>2, <2>1 DEF SyncOK
  <2>3. /\ mode' \in [Correct -> {"idle", "hello", "fetch", "running", "failed", "panicked"}]
        /\ \A m \in Correct \ {n} : mode'[m] = mode[m]
      BY <1>2, <2>1
  <2>4. QED
      BY <1>2, <2>1, <2>2, <2>3, QuietStep
<1>4. CASE b.number = db[n].height + 1
  <2>1. /\ writes' = [writes EXCEPT ![n] = WriteOrder]
        /\ saving' = [saving EXCEPT ![n] = b] /\ UNCHANGED mode
      BY <1>4 DEF SaveBlock
  <2>2. WriteOrder \in Seq({"block", "commit", "height"}) /\ WriteOrder # <<>>
    <3>1. ASSUME WriteOrder = <<>> PROVE FALSE
      <4>1. Len(WriteOrder) = 0
          BY <3>1
      <4>2. QED
          BY <4>1 DEF WriteOrder
    <3>2. WriteOrder \in Seq({"block", "commit", "height"})
        BY DEF WriteOrder
    <3>3. QED
        BY <3>1, <3>2
  <2>3. /\ writes' \in [Correct -> Seq({"block", "commit", "height"})]
        /\ saving' \in [Correct -> FullBlocks \cup {NoBlock}]
        /\ writes'[n] = WriteOrder /\ saving'[n] = b
        /\ \A m \in Correct \ {n} : writes'[m] = writes[m] /\ saving'[m] = saving[m]
      BY <1>2, <2>1, <2>2
  <2>4. TypeOK'
      BY <1>1, <2>1, <2>3 DEF TypeOK
  <2>5. OnlyOf(n)
      BY <1>1, <2>1, <2>3 DEF OnlyOf
  <2>6. StoreOK(n)'
    <3>1. \A h \in 1..db'[n].height : StoredAt(n, h)'
        BY <1>1 DEF StoreOK, StoredAt, BlockStoredAt
    <3>2. writes'[n] \notin {<<"commit", "height">>, <<"height">>}
        BY <2>3, Rests
    <3>3. /\ saving'[n] \in FullBlocks /\ saving'[n].onChain
          /\ saving'[n].number = db'[n].height + 1 /\ chainState'[n] = db'[n].height
          /\ mode'[n] \in {"fetch", "running"}
        BY <1>1, <1>4, <2>1, <2>3
    <3>4. QED
        BY <2>3, <3>1, <3>2, <3>3 DEF StoreOK
  <2>7. SyncOK(n)'
    <3>1. Saves(n)' /\ chainState[n] = db[n].height
        BY <1>1, <1>4, <2>2, <2>3 DEF Saves
    <3>2. QED
        BY <1>1, <2>1, <2>3, <3>1 DEF SyncOK
  <2>8. QED
      BY <2>4, <2>5, <2>6, <2>7, StepOfOne
<1>5. QED
    BY <1>3, <1>4

-----------------------------------------------------------------------------
(* Block sync.                                                              *)

(* What a step of sync uses of Inv.                                         *)
LEMMA InvOf ==
  ASSUME Inv, NEW n \in Correct
  PROVE  /\ TypeOK /\ StoreOK(n) /\ SyncOK(n)
         /\ sync \in [Correct -> Syncs] /\ sync[n] \in Syncs
         /\ chainState \in [Correct -> Heights \cup {0}]
         /\ mode \in [Correct -> {"idle", "hello", "fetch", "running", "failed", "panicked"}]
         /\ fails \in 0..MaxFails
         /\ chainState[n] \in Nat /\ MaxHeight \in Nat
         /\ \A m \in Correct : db[m].height \in Heights \cup {0}
         /\ Saves(n) => mode[n] \in {"fetch", "running"}
BY BlockSyncAssumption DEF Inv, TypeOK, Syncs, Heights, StoreOK

LEMMA StartSyncInv ==
  ASSUME Inv, NEW n \in Correct, StartSync(n)
  PROVE  Inv'
<1> USE BlockSyncAssumption
<1>1. /\ mode[n] = "idle" /\ mode' = [mode EXCEPT ![n] = "hello"]
      /\ UNCHANGED <<db, chainState, writes, saving, fails>>
    BY DEF StartSync
<1>2. PICK ps \in SUBSET (Nodes \ {n}) :
          sync' = [sync EXCEPT ![n] = [NotStarted EXCEPT !.ps = ps, !.toAsk = ps]]
    BY DEF StartSync
<1> DEFINE s == [NotStarted EXCEPT !.ps = ps, !.toAsk = ps]
<1>3. s \in Syncs /\ s.maxPeer = NoPeer
  <2>1. NotStarted \in Syncs /\ NotStarted.maxPeer = NoPeer
      BY DEF NotStarted, Syncs
  <2>2. QED
      BY <2>1 DEF Syncs
<1> HIDE DEF s
<1>4. /\ sync' \in [Correct -> Syncs] /\ sync'[n] = s /\ mode'[n] = "hello"
      /\ mode' \in [Correct -> {"idle", "hello", "fetch", "running", "failed", "panicked"}]
      /\ \A m \in Correct \ {n} : mode'[m] = mode[m] /\ sync'[m] = sync[m]
    BY <1>1, <1>2, <1>3, InvOf DEF s
<1>5. ~Saves(n) /\ chainState[n] = db[n].height
    BY <1>1, InvOf DEF SyncOK
<1>6. s.maxPeer \notin Correct
    BY <1>3
<1>7. SyncOK(n)'
    BY <1>1, <1>4, <1>5, <1>6 DEF SyncOK
<1>8. QED
    BY <1>1, <1>4, <1>5, <1>7, InvOf, QuietStep

(* What an answer to a hello can make of the variables of sync: nothing, or *)
(* a peer with the height that it has.                                      *)
LEMMA MaxPeerOf ==
  ASSUME Inv, NEW n \in Correct, NEW p \in Nodes, NEW h \in HelloHeights(p),
         NEW s \in Syncs
  PROVE  /\ MaxPeer(s, p, h) \in Syncs
         /\ MaxPeer(s, p, h).maxHeight >= s.maxHeight
         /\ \/ /\ MaxPeer(s, p, h).maxPeer = s.maxPeer
               /\ MaxPeer(s, p, h).maxHeight = s.maxHeight
            \/ /\ MaxPeer(s, p, h).maxPeer = p
               /\ p \in Correct => MaxPeer(s, p, h).maxHeight <= db[p].height
<1> USE BlockSyncAssumption
<1>1. h \in 0..MaxHeight + 1 /\ (p \in Correct => h = db[p].height)
  <2>1. p \in Correct => db[p].height \in 0..MaxHeight + 1
      BY DEF Inv, TypeOK, Heights
  <2>2. QED
      BY <2>1 DEF HelloHeights
<1>2. /\ s = [ps |-> s.ps, toAsk |-> s.toAsk, maxPeer |-> s.maxPeer,
              maxHeight |-> s.maxHeight, height |-> s.height]
      /\ s.ps \in SUBSET Nodes /\ s.toAsk \in SUBSET Nodes
      /\ s.maxPeer \in Nodes \cup {NoPeer}
      /\ s.maxHeight \in 0..MaxHeight + 1 /\ s.height \in 0..MaxHeight + 1
    BY DEF Syncs
<1>3. CASE h > s.maxHeight
  <2>1. MaxPeer(s, p, h) = [ps |-> s.ps, toAsk |-> s.toAsk, maxPeer |-> p,
                            maxHeight |-> h, height |-> s.height]
      BY <1>2, <1>3 DEF MaxPeer
  <2>2. QED
      BY <1>1, <1>2, <1>3, <2>1 DEF Syncs
<1>4. CASE ~(h > s.maxHeight) /\ s.maxHeight = 0
  <2>1. MaxPeer(s, p, h) = [ps |-> s.ps, toAsk |-> s.toAsk, maxPeer |-> p,
                            maxHeight |-> s.maxHeight, height |-> s.height]
      BY <1>2, <1>4 DEF MaxPeer
  <2>2. QED
      BY <1>1, <1>2, <1>4, <2>1 DEF Syncs
<1>5. CASE ~(h > s.maxHeight) /\ s.maxHeight # 0
    BY <1>2, <1>5 DEF MaxPeer
<1>6. QED
    BY <1>3, <1>4, <1>5

LEMMA HelloInv ==
  ASSUME Inv, NEW n \in Correct, NEW p \in Nodes, Hello(n, p)
  PROVE  Inv'
<1> USE BlockSyncAssumption
<1>1. mode[n] = "hello" /\ UNCHANGED <<db, chainState, mode, writes, saving, fails>>
    BY DEF Hello
<1> DEFINE s == [sync[n] EXCEPT !.toAsk = @ \ {p}]
<1>2. /\ s \in Syncs /\ s.maxPeer = sync[n].maxPeer
      /\ s.maxHeight = sync[n].maxHeight /\ s.maxHeight \in Nat
    BY InvOf DEF Syncs
<1>3. PICK t : /\ sync' = [sync EXCEPT ![n] = t]
               /\ t = s \/ \E h \in HelloHeights(p) : t = MaxPeer(s, p, h)
  <2>1. \/ sync' = [sync EXCEPT ![n] = s]
        \/ \E h \in HelloHeights(p) : sync' = [sync EXCEPT ![n] = MaxPeer(s, p, h)]
      BY DEF Hello
  <2>2. QED
      BY <2>1
<1> HIDE DEF s
<1>4. /\ t \in Syncs /\ t.maxHeight >= s.maxHeight
      /\ \/ t.maxPeer = s.maxPeer /\ t.maxHeight = s.maxHeight
         \/ t.maxPeer = p /\ (p \in Correct => t.maxHeight <= db[p].height)
    BY <1>2, <1>3, MaxPeerOf
<1>5. /\ sync' \in [Correct -> Syncs] /\ sync'[n] = t
      /\ \A m \in Correct \ {n} : sync'[m] = sync[m]
    BY <1>3, <1>4, InvOf
<1>6. ~Saves(n) /\ SyncOK(n) /\ mode' = mode /\ db' = db /\ chainState' = chainState
      /\ ~Saves(n)' /\ t.maxHeight \in Nat
  <2>1. ~Saves(n) /\ SyncOK(n) /\ MaxHeight \in Nat
      BY <1>1, InvOf
  <2>2. ~Saves(n)'
      BY <1>1, <2>1 DEF Saves
  <2>3. t.maxHeight \in Nat
      BY <1>4, <2>1 DEF Syncs
  <2>4. QED
      BY <1>1, <2>1, <2>2, <2>3
<1>7. t.maxPeer \in Correct => t.maxHeight <= db[t.maxPeer].height
    BY <1>2, <1>4, <1>6 DEF SyncOK
<1>8. \/ chainState[n] = db[n].height
      \/ chainState[n] = db[n].height + 1 /\ chainState[n] <= t.maxHeight
  <2>1. \/ chainState[n] = db[n].height
        \/ chainState[n] = db[n].height + 1 /\ chainState[n] <= sync[n].maxHeight
      BY <1>1, <1>6 DEF SyncOK
  <2>2. QED
      BY <1>2, <1>4, <1>6, <2>1, InvOf
<1>9. SyncOK(n)'
    BY <1>1, <1>5, <1>6, <1>7, <1>8 DEF SyncOK
<1>10. QED
    BY <1>1, <1>5, <1>6, <1>9, InvOf, QuietStep

(* A write that failed in the last round has left the chain state one above *)
(* the store, and the greatest height above that: block sync does not end.  *)
LEMMA CompareHeightsInv ==
  ASSUME Inv, NEW n \in Correct, CompareHeights(n)
  PROVE  Inv'
<1> USE BlockSyncAssumption
<1>1. mode[n] = "hello" /\ UNCHANGED <<db, chainState, writes, saving, fails>>
    BY DEF CompareHeights
<1>2. /\ ~Saves(n) /\ ~Saves(n)' /\ SyncOK(n)
      /\ sync[n].maxHeight \in 0..MaxHeight + 1 /\ db[n].height \in Nat
  <2>1. ~Saves(n) /\ SyncOK(n) /\ sync[n] \in Syncs /\ db[n].height \in Heights \cup {0}
      BY <1>1, InvOf
  <2>2. ~Saves(n)'
      BY <1>1, <2>1 DEF Saves
  <2>3. QED
      BY <2>1, <2>2 DEF Syncs, Heights
<1>3. CASE sync[n].maxHeight <= db[n].height
  <2>1. mode' = [mode EXCEPT ![n] = "running"] /\ sync' = sync
      BY <1>3 DEF CompareHeights, LocalHeight
  <2>2. /\ mode' \in [Correct -> {"idle", "hello", "fetch", "running", "failed", "panicked"}]
        /\ mode'[n] = "running" /\ \A m \in Correct \ {n} : mode'[m] = mode[m]
      BY <2>1, InvOf
  <2>3. SyncOK(n)'
      BY <1>1, <1>2, <2>1, <2>2 DEF SyncOK
  <2>4. QED
      BY <1>1, <1>2, <2>1, <2>2, <2>3, InvOf, QuietStep
<1>4. CASE ~(sync[n].maxHeight <= db[n].height)
  <2> DEFINE t == [sync[n] EXCEPT !.height = db[n].height + 1]
  <2>1. mode' = [mode EXCEPT ![n] = "fetch"] /\ sync' = [sync EXCEPT ![n] = t]
      BY <1>4 DEF CompareHeights, LocalHeight
  <2>2. /\ t \in Syncs /\ t.maxPeer = sync[n].maxPeer /\ t.maxHeight = sync[n].maxHeight
        /\ t.height = db[n].height + 1 /\ t.height \in 1..t.maxHeight
      BY <1>2, <1>4, InvOf DEF Syncs
  <2> HIDE DEF t
  <2>3. /\ mode' \in [Correct -> {"idle", "hello", "fetch", "running", "failed", "panicked"}]
        /\ mode'[n] = "fetch" /\ sync'[n] = t /\ sync' \in [Correct -> Syncs]
        /\ \A m \in Correct \ {n} : mode'[m] = mode[m] /\ sync'[m] = sync[m]
      BY <2>1, <2>2, InvOf
  <2>4. SyncOK(n)'
      BY <1>1, <1>2, <2>2, <2>3 DEF SyncOK
  <2>5. QED
      BY <1>1, <1>2, <2>3, <2>4, InvOf, QuietStep
<1>5. QED
    BY <1>3, <1>4

LEMMA FetchFailsInv ==
  ASSUME Inv, NEW n \in Correct, FetchFails(n), ~Saves(n),
         UNCHANGED <<db, chainState, fails>>
  PROVE  Inv'
<1>1. mode' = [mode EXCEPT ![n] = "failed"] /\ UNCHANGED <<sync, writes, saving>>
    BY DEF FetchFails
<1>2. /\ mode' \in [Correct -> {"idle", "hello", "fetch", "running", "failed", "panicked"}]
      /\ mode'[n] = "failed" /\ \A m \in Correct \ {n} : mode'[m] = mode[m]
    BY <1>1, InvOf
<1>3. SyncOK(n)'
    BY <1>1, <1>2, InvOf DEF SyncOK
<1>4. QED
    BY <1>1, <1>2, <1>3, InvOf, QuietStep

(* Whoever answers, a full block is one.                                    *)
LEMMA AnswersAreFullBlocks ==
  ASSUME Inv, NEW p, NEW h
  PROVE  FullBlockAnswers(p, h) \subseteq FullBlocks
<1>1. ASSUME p \in Correct, NEW b \in Loaded(p, h) PROVE b \in FullBlocks
  <2>1. PICK c \in db[p].blocks : b = [c EXCEPT !.commit = h \in db[p].commits]
      BY <1>1 DEF Loaded
  <2>2. c \in FullBlocks
      BY <1>1 DEF Inv, TypeOK
  <2>3. (h \in db[p].commits) \in BOOLEAN
      OBVIOUS
  <2>4. b = [number |-> c.number, onChain |-> c.onChain, commit |-> h \in db[p].commits]
      BY <2>1, <2>2 DEF FullBlocks
  <2>5. QED
      BY <2>2, <2>3, <2>4 DEF FullBlocks
<1>2. QED
    BY <1>1 DEF FullBlockAnswers

LEMMA FetchInv ==
  ASSUME Inv, NEW n \in Correct, Fetch(n)
  PROVE  Inv'
<1>1. mode[n] = "fetch" /\ ~Saves(n) /\ UNCHANGED <<db, chainState, fails>>
    BY DEF Fetch
<1>2. CASE FetchFails(n)
    BY <1>1, <1>2, FetchFailsInv
<1>3. ASSUME NEW b \in FullBlockAnswers(sync[n].maxPeer, sync[n].height),
             IF ValidateBlock(n, b) /\ VerifyCommit(b)
             THEN SaveBlock(n, b) /\ UNCHANGED sync
             ELSE FetchFails(n)
      PROVE  Inv'
  <2>1. CASE ~(ValidateBlock(n, b) /\ VerifyCommit(b))
      BY <1>1, <1>2, <1>3, <2>1
  <2>2. CASE ValidateBlock(n, b) /\ VerifyCommit(b)
    <3>1. b \in FullBlocks /\ b.onChain /\ b.number = chainState[n] + 1
        BY <2>2, AnswersAreFullBlocks DEF ValidateBlock, VerifyCommit
    <3>2. SaveBlock(n, b) /\ UNCHANGED sync
        BY <1>3, <2>2
    <3>3. QED
        BY <1>1, <3>1, <3>2, SaveBlockInv
  <2>3. QED
      BY <2>1, <2>2
<1>4. QED
    BY <1>2, <1>3 DEF Fetch

LEMMA CommitBlockInv ==
  ASSUME Inv, NEW n \in Correct, CommitBlock(n)
  PROVE  Inv'
<1> USE BlockSyncAssumption
<1> DEFINE b == [number |-> chainState[n] + 1, onChain |-> TRUE, commit |-> TRUE]
<1>1. /\ mode[n] = "running" /\ ~Saves(n) /\ chainState[n] < MaxHeight
      /\ UNCHANGED <<db, sync, fails>>
    BY DEF CommitBlock
<1>2. b \in FullBlocks /\ b.onChain /\ b.number = chainState[n] + 1 /\ b.number \in Heights
    BY <1>1, InvOf DEF FullBlocks, Heights
<1>3. CASE db[n].height < chainState[n] + 1
  <2>1. SaveBlock(n, b) /\ UNCHANGED chainState
      BY <1>2, <1>3 DEF CommitBlock
  <2>2. QED
      BY <1>1, <1>2, <2>1, SaveBlockInv
<1>4. CASE ~(db[n].height < chainState[n] + 1)
  <2>1. /\ chainState' = [chainState EXCEPT ![n] = chainState[n] + 1]
        /\ UNCHANGED <<mode, writes, saving>>
      BY <1>4 DEF CommitBlock
  <2>2. /\ chainState' \in [Correct -> Heights \cup {0}]
        /\ \A m \in Correct \ {n} : chainState'[m] = chainState[m]
      BY <1>2, <2>1, InvOf
  <2>3. SyncOK(n)'
      BY <1>1, <2>1, InvOf DEF SyncOK
  <2>4. QED
      BY <1>1, <2>1, <2>2, <2>3, InvOf, QuietStep
<1>5. QED
    BY <1>3, <1>4

-----------------------------------------------------------------------------

LEMMA NextInv == Inv /\ [Next]_vars => Inv'
<1> SUFFICES ASSUME Inv, [Next]_vars PROVE Inv'
    OBVIOUS
<1>1. CASE UNCHANGED vars
    BY <1>1 DEF vars, Inv, TypeOK, StoreOK, SyncOK, StoredAt, BlockStoredAt, Saves
<1>2. ASSUME NEW n \in Correct,
             SyncStep(n) \/ StartSync(n) \/ PutFails(n) \/ CommitBlock(n)
      PROVE  Inv'
    BY <1>2, PutInv, HelloInv, CompareHeightsInv, FetchInv, StartSyncInv, PutFailsInv,
       CommitBlockInv DEF SyncStep
<1>3. QED
    BY <1>1, <1>2 DEF Next

LEMMA InvHolds == Spec => []Inv
BY InitInv, NextInv, PTL DEF Spec

(* The state of block sync and of the stores stays what TypeOK says:        *)
(* whatever the peers answer, sync asks for no height past what they told.  *)
THEOREM TypeCorrectness == Spec => []TypeOK
BY InvHolds, PTL DEF Inv

(* SaveBlock writes the height last: whatever write fails, and between the  *)
(* writes, LoadBlock and LoadBlockCommit have every block of the chain up   *)
(* to Height.                                                               *)
THEOREM HeightIsStoredHolds == Spec => []HeightIsStored
<1>1. Inv => HeightIsStored
  <2> SUFFICES ASSUME Inv, NEW n \in Correct, NEW h \in 1..db[n].height
               PROVE  [number |-> h, onChain |-> TRUE, commit |-> TRUE] \in Loaded(n, h)
      BY DEF HeightIsStored
  <2>1. h \in db[n].commits
      BY DEF Inv, StoreOK, StoredAt
  <2>2. PICK b \in db[n].blocks : b.number = h /\ b.onChain
      BY DEF Inv, StoreOK, StoredAt, BlockStoredAt
  <2>3. b \in FullBlocks
      BY DEF Inv, TypeOK
  <2>4. (h \in db[n].commits) = TRUE /\ b.onChain = TRUE
      BY <2>1, <2>2, <2>3 DEF FullBlocks
  <2>5. [b EXCEPT !.commit = h \in db[n].commits]
            = [number |-> h, onChain |-> TRUE, commit |-> TRUE]
    <3>1. [b EXCEPT !.commit = h \in db[n].commits]
              = [number |-> b.number, onChain |-> b.onChain, commit |-> h \in db[n].commits]
        BY <2>3 DEF FullBlocks
    <3>2. QED
        BY <2>2, <2>4, <3>1, Zenon
  <2>6. QED
      BY <2>2, <2>5 DEF Loaded
<1>2. QED
    BY <1>1, InvHolds, PTL

(* maxPeer is the peer that maxHeight comes from, over all the rounds of    *)
(* hellos, and no store shrinks: the full block handler of a correct peer   *)
(* is never asked for a block that is not there.                            *)
THEOREM AsksForWhatIsThereHolds == Spec => []AsksForWhatIsThere
<1>1. Inv => AsksForWhatIsThere
  <2> SUFFICES ASSUME Inv, NEW n \in Correct, mode[n] = "fetch", sync[n].maxPeer \in Correct
               PROVE  sync[n].height \in 1..db[sync[n].maxPeer].height
      BY DEF AsksForWhatIsThere
  <2>1. /\ sync[n].maxHeight <= db[sync[n].maxPeer].height
        /\ sync[n].height \in 1..sync[n].maxHeight
      BY InvOf DEF SyncOK
  <2>2. sync[n].maxHeight \in Int /\ db[sync[n].maxPeer].height \in Int
    <3>1. /\ sync[n] \in Syncs /\ MaxHeight \in Nat
          /\ db[sync[n].maxPeer].height \in Heights \cup {0}
        BY InvOf
    <3>2. QED
        BY <3>1 DEF Syncs, Heights
  <2>3. QED
      BY <2>1, <2>2
<1>2. QED
    BY <1>1, InvHolds, PTL

(* sync returns to main without an error only with the store complete and   *)
(* level with the chain state: after a write that failed it asks again, and *)
(* ends with an error.                                                      *)
THEOREM SyncEndsCompleteHolds == Spec => SyncEndsComplete
<1>1. ASSUME Inv, [Next]_vars, NEW n \in Correct, mode[n] = "hello", mode'[n] = "running"
      PROVE  db[n].height = chainState[n] /\ chainState[n] >= sync[n].maxHeight
  <2>1. mode' # mode /\ ~Saves(n) /\ SyncOK(n)
        /\ mode \in [Correct -> {"idle", "hello", "fetch", "running", "failed", "panicked"}]
      BY <1>1, InvOf
  <2>2. PICK m \in Correct : SyncStep(m) \/ StartSync(m) \/ PutFails(m) \/ CommitBlock(m)
      BY <1>1, <2>1 DEF Next, vars
  <2>3. \A s : mode' = [mode EXCEPT ![m] = s] => m = n /\ s = "running"
      BY <1>1, <2>1
  <2>4. ~StartSync(m) /\ ~Fetch(m) /\ ~(\E p \in Nodes : Hello(m, p))
    <3>1. ~StartSync(m)
        BY <2>3 DEF StartSync
    <3>2. ~Fetch(m)
      <4>1. ASSUME NEW b, SaveBlock(m, b) PROVE FALSE
          BY <2>1, <2>3, <4>1 DEF SaveBlock
      <4>2. ~FetchFails(m)
          BY <2>3 DEF FetchFails
      <4>3. QED
          BY <4>1, <4>2 DEF Fetch
    <3>3. QED
        BY <2>1, <3>1, <3>2 DEF Hello
  <2>5. ~CommitBlock(m)
    <3>1. ASSUME NEW b, SaveBlock(m, b) PROVE FALSE
        BY <2>1, <2>3, <3>1 DEF SaveBlock
    <3>2. QED
        BY <2>1, <3>1 DEF CommitBlock
  <2>6. ~Put(m) /\ ~PutFails(m)
    <3>1. ASSUME SaveBlockReturns(m) PROVE FALSE
        BY <2>1, <2>3, <3>1 DEF SaveBlockReturns
    <3>2. QED
        BY <2>1, <3>1 DEF Put, PutFails
  <2>7. CompareHeights(m)
      BY <2>2, <2>4, <2>5, <2>6 DEF SyncStep
  <2>8. m = n /\ sync[n].maxHeight <= db[n].height
      BY <2>3, <2>7 DEF CompareHeights, LocalHeight
  <2>9. /\ sync[n].maxHeight \in Int /\ db[n].height \in Int /\ chainState[n] \in Int
        /\ \/ chainState[n] = db[n].height
           \/ chainState[n] = db[n].height + 1 /\ chainState[n] <= sync[n].maxHeight
    <3>1. /\ sync[n] \in Syncs /\ MaxHeight \in Nat /\ chainState[n] \in Nat
          /\ db[n].height \in Heights \cup {0}
        BY <1>1, InvOf
    <3>2. QED
        BY <1>1, <2>1, <3>1 DEF SyncOK, Syncs, Heights
  <2>10. QED
      BY <2>8, <2>9
<1> DEFINE Ends == \A n \in Correct :
                       (mode[n] = "hello" /\ mode'[n] = "running")
                           => /\ db[n].height = chainState[n]
                              /\ chainState[n] >= sync[n].maxHeight
<1>2. Inv /\ [Next]_vars => [Ends]_vars
    BY <1>1
<1>3. Spec => [][Ends]_vars
    BY <1>2, InvHolds, PTL DEF Spec
<1>4. QED
    BY <1>3 DEF SyncEndsComplete
=============================================================================

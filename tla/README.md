# go-minimal-pbft in TLA+

go-minimal-pbft is a small blockchain node built around Tendermint's
consensus algorithm.  This directory holds TLA+ modules translated from its Go
source, TLC configurations that check them on small instances, and theorems
about them that TLAPS has checked for every instance.

- [The system](#the-system)
- [The modules](#the-modules)
- [From code to model](#from-code-to-model)
- [What is left out of the data](#what-is-left-out-of-the-data)
- [The runs](#the-runs)
- [Fairness](#fairness)
- [The proofs](#the-proofs)
- [Where code and comments disagree](#where-code-and-comments-disagree)
- [Not modelled](#not-modelled)
- [Plan](#plan)

## The system

A node is one process with a few goroutines.  `runNode` (cmd/main/node.go)
opens a new database, starts the p2p server, fetches the blocks that its peers
have (block sync) and then starts consensus.

| Part | State it keeps | Operations | What is hard about it |
|---|---|---|---|
| **Consensus state machine** `consensus/consensus_state.go`, `round_state.go` | height, round, step, proposal, locked and valid block with their rounds, votes of all rounds, LastCommit, commit round, the triggered mark | the cases of `receiveRoutine`: peer message, own message, tock, sync timer, sync request, committed block; each runs a cascade of `enter...` functions | order: votes of other rounds, late proposals, superseded timeouts, round skips, commits without the block; panics that stop the node |
| **Chain state, executor** `chain_state.go`, `default_block_executor.go` | last block, validators | `ValidateBlock`, `ApplyBlock`, `MakeBlock`, `MedianTime` | moves with store and round state or not at all; block times |
| **Timeout ticker** `timeout_ticker.go` | the newest tick, a timer | `ScheduleTimeout`, `timeoutRoutine` | old ticks are dropped; the timer fires while it is stopped; each tock is handed over by a goroutine of its own |
| **Private validator** `priv_validator_local.go` | a key | `SignVote`, `SignProposal` | keeps no record of what it signed; sets the time of a vote anew |
| **Consensus sync** `createSyncRequest`, `processSyncRequest`, `p2p/consensus_sync.go` | none: each request is built from the round state | request to a random peer, answer with votes, a proposal or a committed block | the answer must hold what is missing |
| **Block store** `cmd/main/default_block_store.go` | a database: height, blocks, commits | `SaveBlock`, `LoadBlock`, `LoadBlockCommit` | three writes that may fail one by one; contiguous heights only |
| **Block sync** `p2p/block_sync.go` | chain state reached so far, best peer | `Hello` to every peer, then blocks from the best one | the list of peers and the best height get old |
| **P2P server** `p2p/p2p.go` | queues, streams, the subscription | relays gossip to `obsvC`, publishes `sendC`, answers requests | channels that fill or have no reader, goroutines that wait for each other |
| **Services** `service.go` | two atomics and a channel | `Start`, `Stop` | the ticker is stopped from two sides; starts that fail |
| **Safe arithmetic** `safe_math.go` | none | overflow checks | boundaries |
| devp2p transport, key generation, command line, public keys | | | I/O and library calls, not modelled |

How they talk: gossip and sync answers arrive on `obsvC` (`peerInMsgQueue`);
the node's own proposals and votes go through `internalMsgQueue`, so a vote
counts only when `receiveRoutine` takes it again; the ticker sends tocks;
`ProcessCommittedBlock` and `ProcessSyncRequest` are called from p2p goroutines
and hand their argument to `receiveRoutine` over a channel.  What
`receiveRoutine` broadcasts goes to `sendC`, and from there to gossip or, for a
sync request, to one random peer.  Only `receiveRoutine` changes a round state.

What makes the parts correct:

- *consensus*: no two correct nodes commit different blocks; a node signs one
  vote of a kind in a round; it never drops a lock that may be a decision; what
  it locks, holds valid or precommits rests on a polka it has seen; it never
  goes back; it does not panic; on a synchronous network it decides.
- *chain state and store*: store, chain state, height and LastCommit agree
  after each handler, whichever way the block came.
- *executor*: a block's time is the weighted median of its LastCommit, within
  the times of the honest, and always after that of its parent.
- *block store and block sync*: a store has every block up to the height it
  tells, whatever write fails; block sync ends, complete or with an error.
- *consensus sync*: a node gets what it misses.
- *private validator*: no double signing, restarts included.
- *ticker*: only ticks that count fire, and the newest one does.
- *services*: each stops once, when the context is done.
- *goroutines of a node*: whatever channel is full, a message that was sent is
  taken, a request answered, and nobody waits for himself.

`PROJECT.json` lists the hazards of the code line by line, with the property
that would catch each, or why none does yet.

## The modules

| Module | What it is |
|---|---|
| `ConsensusState` | one node: each function of `consensus_state.go` as an operator from a node state to the next |
| `Consensus` | the nodes together: gossip, timeouts, committed blocks, faulty validators; the safety properties |
| `ReplicatedChain` | the abstract specification: nodes that extend one chain |
| `ConsensusLiveness` | `Consensus` on a synchronous network, with fairness; termination |
| `ConsensusSync` | consensus sync requests and answers on top of it |
| `ConsensusRestart` | `Consensus` with nodes that lose everything but their key |
| `ConsensusSafety` | the inductive invariant of agreement |
| `ConsensusProofs`, `ConsensusSafetyProofs` | the theorems about `Consensus`: types, signatures and steps; agreement, locks, store and the refinement |
| `SyncProofs`, `RoutinesProofs`, `BlockSyncProofs`, `ServiceProofs`, `BlockTimesProofs` | the theorems about `ConsensusSync` and `ConsensusRestart`, `NodeRoutines`, `BlockSync`, `ConsensusService` and `BlockTimes` |
| `BlockTimes` | `MedianTime`, `MakeBlock`, the time rules of `validateBlock`, `voteTime` and `SignVote`, over heights of precommits with clocks |
| `Timeouts` | the abstract ticker, what `ConsensusState` takes for granted |
| `TimeoutTicker` | the ticker: the goroutine, the timer, the channels, the goroutines of the tocks |
| `ConsensusService` | `BaseService` of the consensus state and of the ticker inside it, with the context |
| `BlockSync` | block stores and block sync: nodes that sync from others that grow, writes that fail, peers that lie |
| `NodeRoutines` | the goroutines of one node and the channels between them |
| `SafeMath` | `safe_math.go` over wrapping integers, with theorems |
| `MCConsensus`, `MCConsensusSafety`, `MCConsensusSync`, `MCConsensusRestart`, `MCBlockTimes`, `MCBlockSync` | small instances |

`Consensus` extends `ConsensusState`; `ConsensusSafety`, `ConsensusLiveness`
and `ConsensusRestart` extend `Consensus`, `ConsensusSync` extends
`ConsensusLiveness`, `ConsensusService` extends `TimeoutTicker`.  Two
refinements tie the layers together.  `Consensus` implements `ReplicatedChain`
under `chain[n] = cs[n].lastBlock` (`ImplementsChain`).  `ConsensusService`
implements `Timeouts` under `ticks` = the ticks that the goroutine has accepted
or will accept of those in `tickChan` (`ImplementsTimeouts`); `Timeouts` is just
what the field `ticks` of `ConsensusState` does, so the state machine is checked
against a ticker that the real one is shown to be.

The other modules stand beside `Consensus`: they take up what it leaves out of
its data (times), of its environment (the store's three writes, block sync) or
of its scheduling (the channels), and leave out what it has.

## From code to model

One message makes `receiveRoutine` run a whole cascade: a single precommit may
enter a round, propose, prevote, precommit, commit the block and start the next
height.  The code is a set of methods that change `cs` and call each other;
the model is a set of operators `Op(n, s, ...)` that return the node state in
which the method leaves node `n`, so that a cascade is their composition and a
handler is one step, as it is for an observer outside the goroutine.  A panic
sets `halted`, after which no operator changes anything and no handler runs,
which is what the `recover` of `receiveRoutine` does.

The variables of `Consensus` are `cs`, one record per correct node, and `net`.

| Field of `cs[n]` | In the code |
|---|---|
| `height`, `round`, `step`, `proposal`, `proposalBlock`, `lockedRound`, `lockedBlock`, `validRound`, `validBlock`, `commitRound`, `lastCommit`, `triggeredTimeoutPrecommit` | the field of `RoundState` of that name |
| `votes` | `RoundState.Votes`, the votes of all rounds of the height |
| `lastBlock` | `chainState` (its height is the length) |
| `blockStore` | the database of `DefaultBlockStore` |
| `internalMsgQueue` | the channel of that name |
| `ticks` | the ticks that `timeoutRoutine` accepted; any of them may be a tock that waits in `tockChan` |
| `signed` | all that `privValidator` has signed for this node (a history) |
| `halted` | `receiveRoutine` has ended with `CONSENSUS FAILURE` |

| Action | In the code |
|---|---|
| `HandlePeerMsg`, `HandleInternalMsg` | the two message cases of `receiveRoutine`: `handleMsg`, then the broadcast if the message was added |
| `HandleTock` | the timeout case: `handleTimeout` |
| `HandleCommittedBlock` | the committed block case: `processCommitedBlock` |
| `HandleSyncTimer` | the sync timer, when `createSyncRequest` follows a vote set that does not exist; otherwise it changes no state |
| `FetchBlock` (`ConsensusSync`) | the request of the sync timer, `processSyncRequest` at a peer and the committed block it may send |
| `Restart` (`ConsensusRestart`) | the process dies, `runNode` starts it anew |

The modules beside it:

| Module | Variables | Actions |
|---|---|---|
| `BlockTimes` | the clocks, `chainState`, the proposal, the precommits of this height and the last by signer | `Propose` (`createProposalBlock`, `MakeBlock`), `Precommit` (`signVote`, `SignVote`), `Commit` (`updateState`), `LatePrecommit`, `Tick` of a clock |
| `TimeoutTicker` | `tickChan`, `ti`, the timer (runs, its value on the way or in `C`), `tocks` (goroutines that wait), `tockChan` | the cases of `timeoutRoutine`, the goroutine of a tock, the runtime's timer, `ScheduleTimeout` |
| `ConsensusService` | the flags, `quit` channels and goroutines of both services, where `Start` and each `Stop` is | the steps of `Start`, `OnStart`, `Stop` and `OnStop` between which others can come |
| `BlockSync` | each store (`db`), what `SaveBlock` has still to write, `chainState`, the locals of `sync` | `Hello`, `CompareHeights`, `Fetch`, each `Put` or its failure, `CommitBlock` of consensus |
| `NodeRoutines` | every channel, and where each goroutine is | the cases of `receiveRoutine`, the subscription, the sender, sync requests out and in |

`NodeRoutines` leaves the content of messages to `Consensus`: a handler signs up
to two votes, whatever it takes.  `ConsensusService` has `receiveRoutine` only as
a user of the ticker that schedules with the mutex held.

`PROJECT.json` maps each definition to its lines.

**Network.**  `net` is the set of all messages that a correct node has
broadcast.  A node may take any of them at any time, again, or never: that is
loss, delay, repetition and reordering at once.

**Faulty validators.**  A faulty validator has no state; the constant
`FaultyMsgs` is what it may sign, and each node may get any of it at any time.
`HandleCommittedBlock` takes what a correct peer has stored, or any block with
a commit that can be put together from the precommits there are.

**Restart.**  `runNode` opens its database with `ErrorIfExist`, so a node that
starts again has a new one: nothing survives but the key.  It has the blocks of
a peer, as many of them as block sync took, and a fresh round state.

## What is left out of the data

- A block is the sequence of the contents of the blocks up to it: the parent is
  the prefix, the number is the length, and equal blocks have equal hashes.
  `Nil` stands for a nil block, the zero hash and the genesis state.
- The content of the block that a correct validator makes is its own name:
  `MakeBlock` is a function of the chain state, LastCommit and the proposer, and
  LastCommit no longer changes when the node proposes.
- Times are left out of the state machine: of the block, of the votes, and of
  the timers.  A timer that runs may fire at any moment.  What `MedianTime` and
  `voteTime` do is `BlockTimes`.  There the signatures of one time are counted in
  any order, since `sort.Slice` is not stable.
- `VoteSet`, `HeightVoteSet`, `ValidatorSet` and `VerifyCommit` belong to a fork
  of go-ethereum that the repository imports; they are modelled as the code
  uses them: one vote per validator, the first wins; more than 2/3 of the power
  is a set of `Quorums` (that such sets meet `QuorumAssumption` is the theorem
  `PowerQuorumsIntersect`); the proposer is a function of height and round.
  `MakeCommit` keeps the precommits for the decided block and those for nil.  The
  limit on the rounds a peer may make a `HeightVoteSet` keep is a lost message.
- Where the code calls a method of a vote set that is nil, the outcome is up to
  that fork.  Two places do: `addVote` with `LastCommit` at the initial height
  (consensus_state.go:1823; nil since line 771), for a precommit of the height
  before, unless `ValidateBasic` refuses it; and `createSyncRequest` with the vote
  sets of round -1 (513-516), unless `Prevotes(-1)` makes one up.  The first is a
  panic in the model.  For the second it has both outcomes: `HandleSyncTimer`
  panics, `CreateSyncRequest` sends the request with empty bitmaps.
- In the state machine `internalMsgQueue` never fills (1000 entries), so own
  messages are taken in order; `NodeRoutines` has the queue that fills.
- A tick of `TimeoutTicker` is the number of its place in the order of height,
  round and step.  The timer is that of go 1.17 (go.mod): a value of the old run
  may reach `C` after `Stop` and `Reset`, so the newest tick may fire early.
- Start and Stop of one service are never concurrent, as `BaseService` asks: the
  code calls Stop only from the goroutine that `Start` leaves and from `OnStop`.
  So the two atomic accesses of each are one step.
- In `BlockSync` the chain is decided, so a block is its number and whether it is
  on the chain, and only that one can carry a valid commit.
- The validator set does not change: `ApplyBlock` never changes it either, apart
  from the proposer.  `ApplyBlock` cannot fail after `ValidateBlock`.
- The bit arrays of a sync request are sets of validators.  For round -1 the
  code asks the `HeightVoteSet` for a vote set it does not have; what comes of
  it belongs to the fork, the model lets the request out with no votes.

## The runs

| Run | Question | Instance |
|---|---|---|
| `hidden_polka` | do locks hold (`LockHeld`) and rest on polkas (`JustifiedByPolka`), do commits agree (`Agreement`), and do the nodes extend one chain (`ImplementsChain`), when one node misses a polka or a commit? | `v3` completes a polka and a commit in round 0 that a node may never see, and a polka for nil in round 1 |
| `heights` | can a handler panic other than at a nil vote set (`PanicsAtNilOnly`), sign two votes in a round (`NoEquivocation`), or take a node back (`StepsForward`), and do store, chain state and LastCommit agree (`StoreMatchesChain`)? | two heights, `SkipTimeoutCommit`; `v3` proposes a valid and an invalid block at height 2, votes for the valid one, and has a precommit for height 0 |
| `termination` | does each node learn the decision (`Termination`), in states of the right type (`TypeOK`)? Does the invariant from which agreement is proved hold, through four rounds of locks and polkas (`SafetyInv`)? | synchronous network, the messages of `hidden_polka`, timeouts of round 0 at any moment, rounds 0 to 3 |
| `restart_sync` | do store and chain still agree at a node that joins again (`StoreMatchesChain`)? | two heights, one restart at any moment, with any prefix of a peer's blocks; `v3` is silent |
| `block_times` | is the weighted median the median (`MedianIsReference`), does it stay within honest times (`TimeWithinHonest`), and can the next block be built (`TimelyVotesCarryOn`)? | powers 2, 1, 1, the last one faulty; clocks 0 to 3, three heights |
| `consensus_service` | does the ticker keep its promise (`ImplementsTimeouts`), does the newest timeout fire (`NewestFires`), and does everything stop, once (`StopsOnce`, `AllStop`)? | two ticks, channels of size 1, two calls of Start |
| `block_sync` | is what a node tells there (`HeightIsStored`), does block sync ask for it where it is (`AsksForWhatIsThere`), and end (`SyncEnds`), complete (`SyncEndsComplete`)? | two nodes in consensus, one that syncs, a faulty one; two heights, two failing writes |
| `node_routines` | does what was sent get through (`OwnVotesTaken`, `OwnVotesPublished`, `IncomingTaken`, `RequestsAnswered`, `SyncRequestsGoOut`), own votes in order (`OwnVotesInOrder`), and is nothing lost on the way (`NothingLost`)? | two messages of gossip, two requests of peers, three own votes of which one may come too late to be added, one own request, room for two own votes and for one message in every other channel |
| `sync_commit`, `sync_pol_round`, `restart_signing`, `vote_time` | see [below](#where-code-and-comments-disagree) | |

The instances of the state machine have three validators.  `v1` has power 2 and
`v2`, `v3` power 1, so `v1` can decide with either of the others
(`WeightedQuorums`).  `v3` does not follow the code.  This is the smallest set
with two correct validators and a faulty one whose vote can decide, and with it
the hard cases need only two nodes.  Which block is proposed when is `Rotation`:
the proposer is a function of height and round, which is all that the state
machine sees of `IncrementProposerPriority`.

`MaxRound` and `MaxHeight` cut the behaviours: a step that would pass them is
not taken.  Two rounds are what a lock of one round and a polka of another
need.  Deadlock is not checked, since the bounds make the system stop and
messages that change nothing are no steps.

Nodes that are not validators do not occur in the instances: they run the same
handlers and sign nothing.  The theorems cover them.

Each property of a passing run has a mutant, an operator such as
`PrevoteValueUnlocked` that changes the definition it stands before as a bug
would; put in its place it makes TLC find the property violated.

Why the bounds are enough: a violation of `Agreement` needs a commit in one
round and a later round that ignores it; of `LockHeld` a lock and one later or
earlier polka; of `StepsForward` a late tock or vote of round 0 in round 1; of
`StoreMatchesChain` a second commit on top of the first.  All occur in two
rounds and two heights.  In `termination` round 0 may split the locks and round
1 may fail on the nil votes; the third and the fourth are there for the correct
nodes to decide.  A behaviour that needed a fifth would stop at the bound and
violate the property, and there is none.

In `block_times` four times hold every order and every tie of three signatures,
and the weights 2, 1, 1 make the power of those that sign odd, even and unequal.
Channels of size 1 are full as often as can be: what holds with them does not
rest on room.  `internalMsgQueue` alone has two places in `node_routines`, since
`OwnVotesInOrder` is about votes that are queued together, and three votes fill
it.  Gossip and the requests of peers have their names in the order they come
up.  Two ticks are an old and a new one, and two runs of the timer at
once.  In `block_sync` a failed write leaves a gap that the next height meets,
and a second one a gap in another store.

## Fairness

`Termination` is checked under `SynchronousSpec`.

- *Delivery.*  `receiveRoutine` selects over its channels, and Go's `select`
  picks any that is ready, so a channel that stays ready is served: weak
  fairness of `HandleInternalMsg` and of the delivery of what was broadcast.
  That a broadcast message arrives at all is the assumption of synchrony; the
  code stands for it with gossip and the sync timer.
- *Timeouts.*  A timer fires sooner or later (weak fairness of `PatientTock`),
  but only the newest tick of a node is sure to, since a new tick stops the
  timer.  In the rounds before `PatientRound` it may fire at any moment, so
  that nodes miss proposals and polkas.  `ConsensusConfig` makes the timeouts
  longer from round to round, so that in the end a timeout outlasts all
  delivery: from `PatientRound` on it fires when nothing that was broadcast is
  still to be taken (`Quiet`), and not before the timeouts of earlier steps
  that other nodes wait for (`Due`).
- *The faulty validator* owes nothing.  No fairness is put on its messages.

`Fairness` writes weak fairness out with hand-written enabledness predicates
(`CanDeliver`, `CanHandleInternal`, `CanTock`), each the guard of its action
with the bound; TLC would evaluate `ENABLED` of a cascade many times over.

`Termination` says that each node learns the decision for good: in the end it has
finished the height or waits for the block in the Commit step, and stays there,
though a timeout or later votes may take it out of that step on the way.  It is
excused once `HandleSyncTimer` has stopped a node, for the quorum may be gone
then; behaviours in which that timer does not fire at round -1 have no excuse.
That the block then comes is a
promise of its own, `CommitGetsItsBlock`, checked under `SyncSpec`, where the
sync timer adds weak fairness of `FetchBlock`; the code does not keep it (see
[below](#where-code-and-comments-disagree)).

- `ConsensusService`: goroutines run (weak fairness of each step of `Start`,
  `Stop` and the watchers), a timer that runs fires, `timeoutRoutine` serves its
  channels; `receiveRoutine` takes a tock, and sees that the context is done, if
  it can again and again (strong fairness: the `select` has other channels).
  Nobody need start the node, cancel its context or schedule anything.  `AllStop`
  has one exception, `TickerGone`: see below.
- `BlockSync`: a node goes on with what it has begun, and each request ends, in
  an answer or an error.  The second half is an assumption on the peers:
  `SendRPC` has no timeout.  Consensus need not commit and writes need not fail.
- `NodeRoutines`: weak fairness of each goroutine that has something to hand
  over, and of each case of `receiveRoutine`.  With the numbers of messages
  bounded, that is all the fairness a channel needs; without bounds a sender must
  be served in turn, as Go's channels do.  Block sync ends (`Start`).  A peer need
  not answer.  All promises end when `receiveRoutine` ends by a panic.

## The proofs

`ConsensusProofs` proves about `Consensus`, for every set of validators and
nodes, all quorums, proposers, faulty messages and bounds that meet the
assumptions named in the modules:

| Theorem | States |
|---|---|
| `TypeCorrectness` | `Spec => []TypeOK` |
| `OneVotePerRound` | `Spec => []NoEquivocation` |
| `NeverBackwards` | `Spec => StepsForward` |
| `Invariance` | `Spec => []Inv`, the inductive invariant they rest on |

`ConsensusSafetyProofs` goes on from there, under the same assumptions.  The one
that matters is `QuorumAssumption`: any two quorums share a correct validator,
and what contains a quorum is one.

| Theorem | States |
|---|---|
| `AgreementHolds` | `Spec => []Agreement` |
| `ConsensusImplementsChain` | `Spec => ImplementsChain`, the refinement of `ReplicatedChain` |
| `LocksAreHeld` | `Spec => []LockHeld` |
| `PolkasJustify` | `Spec => []JustifiedByPolka` |
| `StoreFollowsChain` | `Spec => []StoreMatchesChain` |
| `PanicsOnlyAtNil` | `Spec => []PanicsAtNilOnly`: no panic but at the two nil vote sets |
| `Safety` | `Spec => [](Inv /\ SafetyInv)`, the inductive invariant they rest on |

`SyncProofs` about the synchronous network, consensus sync and restarts, under the
assumptions of the two modules above:

| Theorem | States |
|---|---|
| `SynchronousImplementsConsensus` | `SynchronousSpec => Spec` |
| `SyncImplementsConsensus` | `SyncSpec => Spec` |
| `SyncIsSafe` | `SyncSpec => []` of types, agreement, locks, store and `PanicsAtNilOnly` |
| `StoreSurvivesRestarts` | `RestartSpec => [](TypeOK /\ StoreMatchesChain)`, for any number of restarts |
| `RestartInvariance` | `RestartSpec => []RestartInv`, the inductive invariant it rests on |

`RoutinesProofs` about `NodeRoutines`, for channels of any size and any numbers of
messages:

| Theorem | States |
|---|---|
| `OwnVotesInOrderHolds` | `Spec => []OwnVotesInOrder` |
| `NothingLostHolds` | `Spec => []NothingLost` |
| `RoutinesInvariance` | `Spec => []RoutinesInv`, the inductive invariant they rest on |

`BlockSyncProofs` about `BlockSync`, for any nodes, any height of the chain and
any number of failed writes:

| Theorem | States |
|---|---|
| `TypeCorrectness` | `Spec => []TypeOK` |
| `HeightIsStoredHolds` | `Spec => []HeightIsStored` |
| `AsksForWhatIsThereHolds` | `Spec => []AsksForWhatIsThere` |
| `SyncEndsCompleteHolds` | `Spec => SyncEndsComplete` |

`ServiceProofs` about `ConsensusService`, for channels of any size, any places
of ticks and any number of starts:

| Theorem | States |
|---|---|
| `StopsOnceHolds` | `Spec => []StopsOnce` |
| `TickerImplementsTimeouts` | `Spec => ImplementsTimeouts`, the refinement of `Timeouts` |

`BlockTimesProofs` about `BlockTimes`, for any validators, powers and clocks, from
the assumption that less than a third of the power is faulty (`FaultyAssumption`):

| Theorem | States |
|---|---|
| `MedianIsReferenceHolds` | `Spec => []MedianIsReference` |
| `TimeWithinHonestHolds` | `Spec => []TimeWithinHonest` |
| `TimelyVotesCarryOnHolds` | `Spec => []TimelyVotesCarryOn` |
| `PowerQuorumsIntersect` | sets with more than 2/3 of the power are quorums as `QuorumAssumption` asks |
| `TimesInvariant` | `Spec => []TimesInv`, the inductive invariant they rest on |

and `SafeMath`, for integers of every width:

| Theorem | States |
|---|---|
| `SafeAddIsExact`, `SafeSubIsExact`, `SafeConvertIsExact` | the exact result if the type has it, an overflow otherwise; the tests themselves never wrap |
| `RoundsNeverWrap` | `ti.Round+1` of `handleTimeout`, which is not checked, never wraps, for a node panics when it enters the last round; the differences of rounds never overflow |

`NoEquivocation` is not inductive: it says nothing of whether a vote that is
about to be signed has been signed before.  `Inv` adds that everything node `n`
has signed lies at or before the place it has reached (`SignedAt`: at the
present height and round a prevote needs step Prevote or later, a precommit
step Precommit or later), that no tick lies beyond that place (`TickReached`),
and that the height is that of the chain plus one.  A handler signs only when
it enters a later step, which the early returns of the `enter...` functions
ensure, so a new vote is never at a place where there is one.

A handler is a composition, and the proof follows it.  For each operator there
is a lemma that it takes a good node state (`NodeOK`) to a good one that is
not earlier; a lemma of a cascade cites those of its parts, so that no
definition is expanded twice.  `Handle...` actions then need one step each, and
the theorems are put together with PTL.

`Agreement` says nothing of the votes under way, so it is far from inductive.
`SafetyInv` (`ConsensusSafety`) speaks of `Cast`, all votes that correct nodes
have ever signed and all that the faulty may sign, delivered or not.

- `Grounded`, of one node: its votes were cast; what it locks, holds valid and
  precommits has a polka among them; what it prevotes is a valid child of a chain
  decided by votes cast (`OnTip`); the store holds the chain, with commits of
  votes cast.  A node that runs is `Safe`, grounded and not halted; any is
  `Accounted` for: if it has halted, it was at a nil vote set (`MeetsNil`).
- `Kept`: after a precommit for a block it prevotes for something else in a later
  round only if a polka for something else was cast in between.
- `NoRival`: while a block is `Choosable` in a round (every correct node of some
  quorum has precommitted it there or can still do so), no later round has a polka
  for another block or for nil.

`NoRival` is where locks, quorums and signatures meet.  Were there a rival polka
in a later round, its quorum and that of the choosable block would share a correct
node.  It prevoted in the later round, so it is past the earlier one, and has
precommitted the block there.  By `Kept` there was a rival polka in between, and
so on down: the first rival of all has nobody to let it through (`NoRivalFor`).
A commit makes its block choosable for good, so two commits of a height are for
one block (`OneDecision`, `TipsAgree`), which is `Agreement`; and no node can meet
the panics on conflicting commits, which leaves those at nil vote sets
(`PanicsAtNilOnly`): each operator takes a `Safe` node to a `Safe` one, except for
the two that may meet nil (`PanicAccounted`).

The votes that a handler signs are themselves cast.  The proof of a step therefore
first judges the whole cascade by the votes cast before it (the `...Safe` lemmas,
one for each operator, under `Sound(K)`: what those votes commit has a polka, and
what has a polka is a valid child of what is decided), then lets the set of votes grow (`AccountedGrows`) and shows that
the new votes leave `NoRival` intact (`NoRivalStep`).  The votes in one cascade never
depend on each other: own votes come back through `internalMsgQueue` only.

For the refinement every step of a node that lengthens its chain does so by one
valid block, and by `TipsAgree` that chain and all others are prefixes one of the
other, as `Extend` of `ReplicatedChain` asks.

`SyncSpec => Spec` needs the invariant too: that the only full block in an answer
is the one the peer has stored for the height of the node that asks
(`AnswerIsStored`) holds because the store of a peer that is ahead reaches that far.

With restarts neither `Inv` nor `SafetyInv` holds: a node that has forgotten what it
signed starts at an earlier place than its last signature, may sign against it, and
then two quorums no longer agree.  `RestartInv` therefore speaks of no signature.
Each node's `ChainOK` says that the height is that of the chain plus one, that the
votes it has collected are for that height, that every commit in the store passes
`VerifyCommit` for its block, and that LastCommit has 2/3 for the last one.  That is enough, handler by handler.
Most leave the chain alone (the `...Keeps` lemmas).  `finalizeCommit` and
`processCommitedBlock` are the two that do not (`FinalizeCommitChain`,
`ProcessCommittedBlockChain`), and the danger in them is the same: `saveBlock` comes
before `updateToState`, whose panic would leave the store a block ahead.  It cannot,
since the precommits of the node's height, or the commit that `VerifyCommit` has
accepted, are there to make LastCommit from.  A restarted node takes over the
invariant from the peer whose blocks it has synced (`RestartedChain`).

`RoutinesInv` says of each kind of message where those under way are: own votes in
the queue continue the numbering of those taken until the queue is full, those
added are in `sendC`, with a goroutine or published, requests are in their channel
once.  Only the channels that an action touches matter to it, so
each kind has its own part and its own lemma (`OwnStep`, `IncomingStep`,
`OutgoingStep`, `RequestStep`).

`HeightIsStored` needs what `SaveBlock` has written so far and that the block it
saves is the next one (`StoreOK`).  The other two need `SyncOK`: the peer that is
asked has had the greatest height since it said so, and after a write that
failed the chain state is one above the store and at most that height, so the
comparison of heights finds the store too low and block sync goes on, to end
with an error.  Every action changes one node, and the others only depend on its
store, which never shrinks (`StepOfOne`).

`StopsOnce` needs where each of the two goroutines is (`LifeInv`): at most one
of them is past the flag of the ticker.  For the refinement, `TocksOK` says that
what is on its way to the receiver has been accepted, and two lemmas on queues
(`AppendNew`, `TailNew`) that a tick counts from the moment it is put into
`tickChan`: `timeoutRoutine` only moves it.

The invariant of the block times (`TimesInv`) is simple: a proposed block above
the first height has a LastCommit that passes `VerifyCommit`, and its median as
time.  The work is in what a loop computes.  `Power` and the loop of
`weightedMedian` are recursive functions, and the induction theorems of the library
cannot be used; but a set of numbers, or of subsets of a finite set, that is not
empty has a least member (`LeastNumber`, `LeastSubset`), and that is all an
induction needs: the counterexamples to a lemma have no least one.  So `Power` is a
sum, whatever the order in which it is taken (`PowerRemove`, `PowerUnion`), every
commit can be sorted (`SortedOrderExists`), and after `i` signatures the loop has
half of the power less theirs left (`LeftIs`).  Hence it stops at the first
signature by which half has signed, which is the median in every order
(`LoopFindsMedian`).  More than 2/3 have signed and less than 1/3 are faulty, so the
correct signers hold more than half: the last of them is not before the median.

`PowerQuorumsIntersect` joins the two halves of the project: `ConsensusState` knows
quorums only by `QuorumAssumption`, and the sets that pass `VerifyCommit` meet it.

What is only model-checked:

- `Termination`, every `~>` property, `SyncEnds`, `AllStop`, `NewestFires` and what
  else rests on fairness or `ENABLED`, which the prover has no rules for.

Every invariant that a passing run checks is proved.

## Where code and comments disagree

- `sync_commit` (`CommitGetsItsBlock`).  A node misses the proposal of round 0
  and holds that of round 1 when the commit of round 0 comes; no fault is
  needed for it, only an early timeout.  It enters Commit, drops its block and
  keeps `Proposal`.  Each sync request says `HasProposal`, and the peer, a
  height ahead, answers with precommits the node has already
  (consensus_state.go:660-668).  The block never comes, though the comment at
  1539 promises it.
- `sync_pol_round` (`RequestsPOLRound`).  The request that should collect the
  prevotes of the POL round asks for `LockedRound` (consensus_state.go:503),
  which is -1 without a lock.  There lines 513-516 moreover follow the vote sets of
  round -1, which do not exist: unless the fork makes them up, this panic ends
  `receiveRoutine`, and no fault is needed to get there.
- `restart_signing` (`NeverDoubleSigns`).  `PrivValidator` is said never to
  double sign (priv_validator_local.go:12); `PrivValidatorLocal` keeps no
  record, and a restarted node signs again.
- `vote_time` (`CorrectVotesCarryOn`).  `voteTime` lets no vote have a time before
  the block it is for (consensus_state.go:2001-2004); `SignVote` then writes the
  clock over it (priv_validator_local.go:69).  Votes of correct validators whose
  clocks are behind leave a LastCommit from which every proposal has a time not
  after its parent's, and `validateBlock` refuses them all.  `TimelyVotesCarryOn`
  shows that clocks past the last block, and no faulty half, are enough.

Other things the models show, without a run of their own:

- A precommit for height 0 at height 1, in step NewHeight, reaches `AddVote` of a
  `LastCommit` that is nil (771, 1823), and nothing under `src/` is in its way.  It
  and round -1 above are the only panics within reach (`PanicsOnlyAtNil`).
- A node that leaves the Commit step for a later round and then gets the block
  does not finalize, though it has block and precommits: `enterNewRound` does not
  test for the Commit step, and `defaultSetProposal` finalizes only in it.
- A polka for the locked block, while the node has no proposal block of the
  round, moves `LockedRound` and leaves `ValidRound` behind.
- "Always between timestamps of the votes sent by honest processes"
  (default_block_executor.go:120) fails below when the power that signed is odd
  and the faulty hold its half, rounded down: of three equal signers one is
  enough (`FaultyHoldMedian`).
- After a failed `OnStart` (`checkDoubleSigningRisk`) the ticker stays started, so
  every further `Start` fails on it; `runNode` ignores the error of `Start`.
- When `timeoutRoutine` has ended and `tickChan` is full, a handler that schedules
  waits with the mutex held, and `OnStop` waits for the mutex (`TickerGone`).
- `OnStop` in the Commit step waits for `onStopCh`, to which nothing is sent, so it
  always waits for the whole of `TimeoutCommit`.
- A block write that fails is told to nobody; block sync then saves the next
  height and panics, and so does consensus.
- Block sync with no peer that answers ends well at height 0.
- `defaultDecideProposal` cancels its context when it returns, so its proposal is
  lost if `internalMsgQueue` was full.
- After a panic `receiveRoutine` is gone and the p2p server is not: peers' sync
  requests wait for ever, a goroutine each.

## Not modelled

- `devp2p.go`, an alternative transport that `runNode` does not start; the set up
  of the libp2p host; the message codec; key files and flags: I/O without a
  protocol.
- `pubkey.go`: a signature check by a library.
- Readers of the round state outside `receiveRoutine`, other than `OnStop`.
- Validator changes: `ApplyBlock` passes an empty list, so the epoch rule of
  `validateBlock` has nothing to act on.

## Plan

Done: the state machine with liveness, sync and restart; block times; the
ticker and the services; block store and block sync; the goroutines of a node;
safe arithmetic; the proofs listed above, with those of agreement and of the
refinement of the replicated chain.  Left:

- consensus sync on a lossy network, where votes that are lost come back only
  by sync requests;
- locks and panics after a restart: what of `SafetyInv` survives if only faulty
  nodes, or only nodes that had signed nothing at their height, restart.

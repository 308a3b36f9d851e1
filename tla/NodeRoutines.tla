---------------------------- MODULE NodeRoutines ----------------------------
(***************************************************************************)
(* The goroutines of one node around its consensus state, and the channels *)
(* between them: the subscription to gossip, the sender, the sync requests *)
(* it makes and those it answers, and receiveRoutine, which must never     *)
(* wait for any of them.  What the messages say is left to Consensus: a    *)
(* handler makes any few messages of its own and broadcasts any few.       *)
(***************************************************************************)
EXTENDS Integers, Sequences, FiniteSets, SequencesExt

CONSTANTS
    MaxGossip,      \* bound: the messages that come from gossip
    MaxRequests,    \* bound: the sync requests that come from peers
    MaxOwn,         \* bound: the votes this node signs
    MaxLate,        \* bound: those of them that are not added
    MaxSyncs,       \* bound: the sync requests it makes
    OwnQueueSize,   \* the size of internalMsgQueue
    QueueSize       \* the size of every other channel with a buffer

ASSUME RoutinesAssumption ==
    /\ {MaxGossip, MaxRequests, MaxOwn, MaxLate, MaxSyncs} \subseteq Nat
    /\ OwnQueueSize \in Nat \ {0} /\ QueueSize \in Nat \ {0}

(* Messages and requests have their names in the order they come up.        *)
Gossip == 1..MaxGossip
Requests == 1..MaxRequests
Own == 1..MaxOwn
Syncs == 1..MaxSyncs
None == <<>>

(* What peerInMsgQueue carries: a message of gossip or of a sync answer.    *)
Incoming == {<<"gossip", m>> : m \in Gossip} \cup {<<"sync", i>> : i \in Syncs}

VARIABLES
    receiver,           \* receiveRoutine: before (block sync), running, ended
    subscription,       \* the message that the subscription sends, or None
    arrived,            \* the messages that gossip has brought
    peerInMsgQueue,     \* obsvC
    internalMsgQueue,
    ownWaits,           \* own votes with a goroutine of theirs
    made,               \* own votes signed so far
    ownTaken,           \* history: own votes in the order they were taken
    ownAdded,           \* history: those of them that were added
    wasFull,            \* history: internalMsgQueue was full when it was sent to
    peerOutMsgQueue,    \* sendC: own votes to publish, and sync requests
    outWaits,           \* what has a goroutine to send it there
    sender,             \* the sync request that the sender hands over, or 0
    published,          \* history: own votes that were published
    syncs,              \* how many sync requests were made
    rpc,                \* the goroutine of each: none, asked, message, block, ended
    committedBlockChan,
    request,            \* of each request of a peer: none, sending, waiting, answered
    consensusSyncRequestAsyncChan,
    taken               \* history: what receiveRoutine has taken from peers

inVars == <<subscription, arrived, peerInMsgQueue>>
ownVars == <<internalMsgQueue, ownWaits, made, ownTaken, ownAdded, wasFull>>
outVars == <<peerOutMsgQueue, outWaits, sender, published>>
syncVars == <<syncs, rpc, committedBlockChan>>
requestVars == <<request, consensusSyncRequestAsyncChan>>
vars == <<receiver, inVars, ownVars, outVars, syncVars, requestVars, taken>>

Room(chan) == Len(chan) < QueueSize

Init ==
    /\ receiver = "before"
    /\ subscription = None /\ arrived = {} /\ peerInMsgQueue = <<>>
    /\ internalMsgQueue = <<>> /\ ownWaits = {} /\ made = 0
    /\ ownTaken = <<>> /\ ownAdded = {} /\ wasFull = FALSE
    /\ peerOutMsgQueue = <<>> /\ outWaits = {} /\ sender = 0 /\ published = {}
    /\ syncs = 0 /\ rpc = [i \in Syncs |-> "none"] /\ committedBlockChan = <<>>
    /\ request = [r \in Requests |-> "none"] /\ consensusSyncRequestAsyncChan = <<>>
    /\ taken = {}

-----------------------------------------------------------------------------
(* The goroutines of the p2p server.                                        *)

(* The subscription of Run: a message of a peer, which waits for obsvC.     *)
Arrive(m) ==
    /\ subscription = None /\ arrived = 1..m - 1
    /\ arrived' = arrived \cup {m}
    /\ subscription' = <<"gossip", m>>
    /\ UNCHANGED <<receiver, peerInMsgQueue, ownVars, outVars, syncVars, requestVars, taken>>

(* Mutant of ForwardGossip: a message that finds obsvC full is dropped.     *)
ForwardGossipDrops ==
    /\ subscription # None
    /\ peerInMsgQueue' = IF Room(peerInMsgQueue) THEN Append(peerInMsgQueue, subscription)
                         ELSE peerInMsgQueue
    /\ subscription' = None
    /\ UNCHANGED <<receiver, arrived, ownVars, outVars, syncVars, requestVars, taken>>

(* It is sent to obsvC when there is room.                                  *)
ForwardGossip ==
    /\ subscription # None /\ Room(peerInMsgQueue)
    /\ peerInMsgQueue' = Append(peerInMsgQueue, subscription)
    /\ subscription' = None
    /\ UNCHANGED <<receiver, arrived, ownVars, outVars, syncVars, requestVars, taken>>

(* The sender of Run publishes a vote, or takes up a sync request.          *)
Publish ==
    /\ sender = 0 /\ peerOutMsgQueue # <<>>
    /\ peerOutMsgQueue' = Tail(peerOutMsgQueue)
    /\ LET m == Head(peerOutMsgQueue)
       IN  IF m[1] = "sync" THEN sender' = m[2] /\ UNCHANGED published
           ELSE published' = published \cup {m[2]} /\ UNCHANGED sender
    /\ UNCHANGED <<receiver, inVars, ownVars, outWaits, syncVars, requestVars, taken>>

(* It hands the request over to consensSyncRoutine, which has nothing else  *)
(* to wait for: a goroutine asks a peer, if there is one.                   *)
ConsensSync ==
    /\ sender # 0
    /\ \E state \in {"asked", "ended"} : rpc' = [rpc EXCEPT ![sender] = state]
    /\ sender' = 0
    /\ UNCHANGED <<receiver, inVars, ownVars, peerOutMsgQueue, outWaits, published, syncs,
                   committedBlockChan, requestVars, taken>>

(* The answer: a message, a committed block, or nothing of use.             *)
Answer(i) ==
    /\ rpc[i] = "asked"
    /\ \E state \in {"message", "block", "ended"} : rpc' = [rpc EXCEPT ![i] = state]
    /\ UNCHANGED <<receiver, inVars, ownVars, outVars, syncs, committedBlockChan,
                   requestVars, taken>>

ForwardAnswer(i) ==
    /\ \/ /\ rpc[i] = "message" /\ Room(peerInMsgQueue)
          /\ peerInMsgQueue' = Append(peerInMsgQueue, <<"sync", i>>)
          /\ UNCHANGED committedBlockChan
       \/ /\ rpc[i] = "block" /\ Room(committedBlockChan)
          /\ committedBlockChan' = Append(committedBlockChan, <<"sync", i>>)
          /\ UNCHANGED peerInMsgQueue
    /\ rpc' = [rpc EXCEPT ![i] = "ended"]
    /\ UNCHANGED <<receiver, subscription, arrived, ownVars, outVars, syncs, requestVars, taken>>

(* The handler of a peer's sync request: ProcessSyncRequest sends it to     *)
(* receiveRoutine and waits for the answer.  The handler is there once      *)
(* SetConsensusState was called, just before Start.                         *)
RequestArrives(r) ==
    /\ receiver # "before"
    /\ request[r] = "none" /\ \A q \in 1..r - 1 : request[q] # "none"
    /\ request' = [request EXCEPT ![r] = "sending"]
    /\ UNCHANGED <<receiver, inVars, ownVars, outVars, syncVars,
                   consensusSyncRequestAsyncChan, taken>>

(* Mutant of SendRequest: the handler gives the request up when the channel *)
(* is full, and waits for its answer.                                       *)
SendRequestDrops(r) ==
    /\ request[r] = "sending"
    /\ request' = [request EXCEPT ![r] = "waiting"]
    /\ consensusSyncRequestAsyncChan' =
          IF Room(consensusSyncRequestAsyncChan) THEN Append(consensusSyncRequestAsyncChan, r)
          ELSE consensusSyncRequestAsyncChan
    /\ UNCHANGED <<receiver, inVars, ownVars, outVars, syncVars, taken>>

(* ProcessSyncRequest                                                       *)
SendRequest(r) ==
    /\ request[r] = "sending" /\ Room(consensusSyncRequestAsyncChan)
    /\ request' = [request EXCEPT ![r] = "waiting"]
    /\ consensusSyncRequestAsyncChan' = Append(consensusSyncRequestAsyncChan, r)
    /\ UNCHANGED <<receiver, inVars, ownVars, outVars, syncVars, taken>>

-----------------------------------------------------------------------------
(* receiveRoutine.                                                          *)

Start ==
    /\ receiver = "before" /\ receiver' = "running"
    /\ UNCHANGED <<inVars, ownVars, outVars, syncVars, requestVars, taken>>

(* Mutant of SendInternalMessage: what does not fit is dropped.             *)
SendInternalMessageDrops(queue, votes) ==
    LET room == OwnQueueSize - Len(queue)
        fit == SubSeq(votes, 1, IF room < Len(votes) THEN room ELSE Len(votes))
    IN  /\ internalMsgQueue' = queue \o fit
        /\ wasFull' = (wasFull \/ fit # votes)
        /\ UNCHANGED ownWaits

(* Mutant of SendInternalMessage: every vote has a goroutine.               *)
SendInternalMessageAsync(queue, votes) ==
    /\ internalMsgQueue' = queue
    /\ ownWaits' = ownWaits \cup Range(votes)
    /\ UNCHANGED wasFull

(* sendInternalMessage of the votes that a handler signs, one after the     *)
(* other: those that find the queue full get a goroutine each.              *)
SendInternalMessage(queue, votes) ==
    LET room == OwnQueueSize - Len(queue)
        fit == SubSeq(votes, 1, IF room < Len(votes) THEN room ELSE Len(votes))
    IN  /\ internalMsgQueue' = queue \o fit
        /\ ownWaits' = ownWaits \cup (Range(votes) \ Range(fit))
        /\ wasFull' = (wasFull \/ fit # votes)

(* Mutant of BroadcastMessageToPeers: what finds the channel full is lost.  *)
BroadcastMessageToPeersDrops(m) ==
    /\ peerOutMsgQueue' = IF Room(peerOutMsgQueue) THEN Append(peerOutMsgQueue, m)
                          ELSE peerOutMsgQueue
    /\ UNCHANGED outWaits

(* broadcastMessageToPeers                                                  *)
BroadcastMessageToPeers(m) ==
    IF Room(peerOutMsgQueue)
    THEN peerOutMsgQueue' = Append(peerOutMsgQueue, m) /\ UNCHANGED outWaits
    ELSE outWaits' = outWaits \cup {m} /\ UNCHANGED peerOutMsgQueue

(* A handler signs up to two votes.                                         *)
Signs(queue) ==
    \E k \in 0..2 :
        /\ made + k <= MaxOwn /\ made' = made + k
        /\ SendInternalMessage(queue, [i \in 1..k |-> made + i])

(* What comes from peers is added or not; its broadcast is left out, it is  *)
(* no other than that of an own vote.                                       *)
HandlePeerMsg ==
    /\ receiver = "running" /\ peerInMsgQueue # <<>>
    /\ peerInMsgQueue' = Tail(peerInMsgQueue)
    /\ taken' = taken \cup {Head(peerInMsgQueue)}
    /\ Signs(internalMsgQueue)
    /\ UNCHANGED <<receiver, subscription, arrived, ownTaken, ownAdded, outVars, syncVars,
                   requestVars>>

(* An own vote is broadcast when it is added; one that is not, because its  *)
(* height is over, goes nowhere.                                            *)
HandleInternalMsg ==
    /\ receiver = "running" /\ internalMsgQueue # <<>>
    /\ LET v == Head(internalMsgQueue)
       IN  /\ ownTaken' = Append(ownTaken, v)
           /\ \/ ownAdded' = ownAdded \cup {v} /\ BroadcastMessageToPeers(<<"own", v>>)
              \/ /\ Cardinality(Range(ownTaken) \ ownAdded) < MaxLate
                 /\ UNCHANGED <<ownAdded, peerOutMsgQueue, outWaits>>
    /\ Signs(Tail(internalMsgQueue))
    /\ UNCHANGED <<receiver, inVars, sender, published, syncVars, requestVars, taken>>

HandleTock ==
    /\ receiver = "running"
    /\ Signs(internalMsgQueue)
    /\ UNCHANGED <<receiver, inVars, ownTaken, ownAdded, outVars, syncVars, requestVars,
                   taken>>

SyncTimer ==
    /\ receiver = "running"
    /\ syncs < MaxSyncs /\ syncs' = syncs + 1
    /\ BroadcastMessageToPeers(<<"sync", syncs + 1>>)
    /\ UNCHANGED <<receiver, inVars, ownVars, sender, published, rpc, committedBlockChan,
                   requestVars, taken>>

(* The answer goes to the handler that waits for it.                        *)
AnswerRequest ==
    /\ receiver = "running" /\ consensusSyncRequestAsyncChan # <<>>
    /\ request' = [request EXCEPT ![Head(consensusSyncRequestAsyncChan)] = "answered"]
    /\ consensusSyncRequestAsyncChan' = Tail(consensusSyncRequestAsyncChan)
    /\ UNCHANGED <<receiver, inVars, ownVars, outVars, syncVars, taken>>

HandleCommittedBlock ==
    /\ receiver = "running" /\ committedBlockChan # <<>>
    /\ committedBlockChan' = Tail(committedBlockChan)
    /\ taken' = taken \cup {Head(committedBlockChan)}
    /\ Signs(internalMsgQueue)
    /\ UNCHANGED <<receiver, inVars, ownTaken, ownAdded, outVars, syncs, rpc, requestVars>>

(* A panic of a handler ends receiveRoutine, and nothing else.              *)
Panic ==
    /\ receiver = "running" /\ receiver' = "ended"
    /\ UNCHANGED <<inVars, ownVars, outVars, syncVars, requestVars, taken>>

(* The goroutines that a full queue left behind.                            *)
OwnGoes(v) ==
    /\ v \in ownWaits /\ Len(internalMsgQueue) < OwnQueueSize
    /\ internalMsgQueue' = Append(internalMsgQueue, v)
    /\ ownWaits' = ownWaits \ {v}
    /\ UNCHANGED <<receiver, inVars, made, ownTaken, ownAdded, wasFull, outVars, syncVars,
                   requestVars, taken>>

OutGoes(m) ==
    /\ m \in outWaits /\ Room(peerOutMsgQueue)
    /\ peerOutMsgQueue' = Append(peerOutMsgQueue, m)
    /\ outWaits' = outWaits \ {m}
    /\ UNCHANGED <<receiver, inVars, ownVars, sender, published, syncVars, requestVars, taken>>

Outgoing == {<<"own", v>> : v \in Own} \cup {<<"sync", i>> : i \in Syncs}

Next ==
    \/ \E m \in Gossip : Arrive(m)
    \/ ForwardGossip \/ Publish \/ ConsensSync
    \/ \E i \in Syncs : Answer(i) \/ ForwardAnswer(i)
    \/ \E r \in Requests : RequestArrives(r) \/ SendRequest(r)
    \/ Start \/ Panic \/ SyncTimer \/ HandleTock
    \/ HandlePeerMsg \/ HandleInternalMsg \/ AnswerRequest \/ HandleCommittedBlock
    \/ \E v \in Own : OwnGoes(v)
    \/ \E m \in Outgoing : OutGoes(m)

(* A goroutine that waits for room gets its turn, first come first served,  *)
(* and the select of receiveRoutine serves each channel that stays ready.   *)
(* A peer need not answer; gossip, timers and requests need not come; but   *)
(* block sync ends.                                                         *)
Fairness ==
    /\ WF_vars(Start) /\ WF_vars(ForwardGossip)
    /\ WF_vars(Publish) /\ WF_vars(ConsensSync)
    /\ \A i \in Syncs : WF_vars(ForwardAnswer(i))
    /\ \A r \in Requests : WF_vars(SendRequest(r))
    /\ WF_vars(HandlePeerMsg) /\ WF_vars(HandleInternalMsg)
    /\ WF_vars(AnswerRequest) /\ WF_vars(HandleCommittedBlock)
    /\ WF_vars(\E v \in Own : OwnGoes(v))
    /\ WF_vars(\E m \in Outgoing : OutGoes(m))

Spec == Init /\ [][Next]_vars /\ Fairness

-----------------------------------------------------------------------------

(* Own votes are taken in the order they were signed, unless the queue was  *)
(* full: sendInternalMessage says that they may then be out of order.       *)
OwnVotesInOrder ==
    \/ wasFull
    \/ ownTaken = [i \in 1..Len(ownTaken) |-> i]

(* Whatever channel is full, nothing is lost on its way: a vote that was     *)
(* signed is in the queue, with a goroutine or taken; one that was added is  *)
(* in sendC, with a goroutine or published; a message of gossip is with the  *)
(* subscription, in obsvC or taken; a sync request is in sendC, with a       *)
(* goroutine, with the sender or asked of a peer; and a handler that waits   *)
(* for an answer waits for one that receiveRoutine has yet to give.          *)
NothingLost ==
    /\ 1..made = Range(ownTaken) \cup Range(internalMsgQueue) \cup ownWaits
    /\ \A v \in ownAdded :
           \/ <<"own", v>> \in Range(peerOutMsgQueue) \cup outWaits
           \/ v \in published
    /\ \A m \in arrived :
           \/ subscription = <<"gossip", m>>
           \/ <<"gossip", m>> \in Range(peerInMsgQueue) \cup taken
    /\ \A i \in 1..syncs :
           \/ <<"sync", i>> \in Range(peerOutMsgQueue) \cup outWaits
           \/ sender = i
           \/ rpc[i] # "none"
    /\ \A r \in Requests :
           request[r] = "waiting" <=> r \in Range(consensusSyncRequestAsyncChan)

(* Every vote the node has signed is taken, also when the queues are full:  *)
(* no handler waits for a queue that only receiveRoutine empties.           *)
OwnVotesTaken ==
    \A v \in Own : made >= v ~> (v \in Range(ownTaken) \/ receiver = "ended")

(* Every own vote that handleMsg has added is published, though sendC is    *)
(* full when it broadcasts, though a sync request is before it and though   *)
(* receiveRoutine dies meanwhile.                                           *)
OwnVotesPublished ==
    \A v \in Own : v \in ownAdded ~> v \in published

(* What gossip or a sync answer has brought is taken, whatever else comes:  *)
(* obsvC may be full since before consensus started.                        *)
IncomingTaken ==
    /\ \A m \in Gossip : m \in arrived ~> (<<"gossip", m>> \in taken \/ receiver = "ended")
    /\ \A i \in Syncs : rpc[i] \in {"message", "block"}
                            ~> (<<"sync", i>> \in taken \/ receiver = "ended")

(* A peer's request is answered: receiveRoutine and the handlers of two     *)
(* nodes never wait for each other.                                         *)
RequestsAnswered ==
    \A r \in Requests : request[r] = "sending" ~> (request[r] = "answered" \/ receiver = "ended")

(* A sync request that the node makes goes out.                             *)
SyncRequestsGoOut ==
    \A i \in Syncs : syncs >= i ~> rpc[i] # "none"
=============================================================================

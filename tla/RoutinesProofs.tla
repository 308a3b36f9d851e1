---------------------------- MODULE RoutinesProofs ----------------------------
(***************************************************************************)
(* Proofs about NodeRoutines, for channels of any size and any numbers of  *)
(* messages and requests.  RoutinesInv is inductive; it says of each kind  *)
(* of message where those under way are.                                   *)
(***************************************************************************)
EXTENDS NodeRoutines, SequenceTheorems, TLAPS

-----------------------------------------------------------------------------
(* Queues.                                                                  *)

LEMMA RangeOfAppend ==
  ASSUME NEW S, NEW q \in Seq(S), NEW x \in S
  PROVE  Range(Append(q, x)) = Range(q) \cup {x}
<1>1. Append(q, x) \in Seq(S) /\ Len(Append(q, x)) = Len(q) + 1
      /\ \A i \in 1..Len(q) : Append(q, x)[i] = q[i]
      /\ Append(q, x)[Len(q) + 1] = x
  BY AppendProperties
<1>2. Range(Append(q, x)) = {Append(q, x)[i] : i \in 1..Len(q) + 1}
      /\ Range(q) = {q[i] : i \in 1..Len(q)}
  BY <1>1, RangeEquality
<1>3. Len(q) \in Nat
  BY LenProperties
<1>. QED
  BY <1>1, <1>2, <1>3

LEMMA RangeOfTail ==
  ASSUME NEW S, NEW q \in Seq(S), q # <<>>
  PROVE  Range(q) = {Head(q)} \cup Range(Tail(q))
<1>1. /\ Tail(q) \in Seq(S) /\ Head(q) = q[1]
      /\ Len(q) \in Nat \ {0} /\ Len(Tail(q)) = Len(q) - 1
      /\ \A i \in 1..Len(q) - 1 : Tail(q)[i] = q[i + 1]
  BY HeadTailProperties, EmptySeq
<1>2. Range(q) = {q[i] : i \in 1..Len(q)}
      /\ Range(Tail(q)) = {Tail(q)[i] : i \in 1..Len(q) - 1}
  BY <1>1, RangeEquality
<1>3. \A i \in 2..Len(q) : i - 1 \in 1..Len(q) - 1 /\ q[i] = Tail(q)[i - 1]
  BY <1>1
<1>4. \A i \in 1..Len(q) : i = 1 \/ i \in 2..Len(q)
  BY <1>1
<1>5. ASSUME NEW y \in Range(q)
      PROVE  y \in {Head(q)} \cup Range(Tail(q))
  BY <1>1, <1>2, <1>3, <1>4
<1>6. ASSUME NEW y \in {Head(q)} \cup Range(Tail(q))
      PROVE  y \in Range(q)
  <2>1. 1 \in 1..Len(q) /\ \A i \in 1..Len(q) - 1 : i + 1 \in 1..Len(q)
    BY <1>1
  <2>. QED
    BY <1>1, <1>2, <2>1
<1>. QED
  BY <1>5, <1>6

LEMMA RangeOfEmpty == Range(<<>>) = {}
BY DEF Range

-----------------------------------------------------------------------------
(* Own votes.                                                               *)

(* Until the queue is full votes are in it one after the other.             *)
InOrder(done, queue, waits, n) ==
    /\ waits = {}
    /\ Len(done) + Len(queue) = n
    /\ \A i \in 1..Len(done) : done[i] = i
    /\ \A i \in 1..Len(queue) : queue[i] = Len(done) + i

(* Of the n votes signed some are done, some in the queue, some wait.       *)
OwnOK(done, queue, waits, n, full) ==
    /\ n \in 0..MaxOwn
    /\ queue \in Seq(Own) /\ Len(queue) <= OwnQueueSize
    /\ done \in Seq(Own)
    /\ waits \in SUBSET Own
    /\ full \in BOOLEAN
    /\ full \/ InOrder(done, queue, waits, n)
    /\ 1..n = Range(done) \cup Range(queue) \cup waits

OwnInv == OwnOK(ownTaken, internalMsgQueue, ownWaits, made, wasFull)

(* What a handler signs goes to the queue as far as there is room, the rest *)
(* to goroutines.                                                           *)
LEMMA SignsOwn ==
  ASSUME NEW queue \in Seq(Own), Len(queue) <= OwnQueueSize, made \in 0..MaxOwn,
         ownWaits \in SUBSET Own, wasFull \in BOOLEAN, Signs(queue)
  PROVE  \E k \in 0..2, j \in 0..2 :
            /\ j <= k
            /\ made' = made + k /\ made + k <= MaxOwn
            /\ internalMsgQueue' = queue \o [i \in 1..j |-> made + i]
            /\ Len(queue) + j <= OwnQueueSize
            /\ ownWaits' = ownWaits \cup ((made + j + 1)..(made + k))
            /\ wasFull' = (wasFull \/ j < k)
<1>1. PICK k \in 0..2 :
        /\ made + k <= MaxOwn /\ made' = made + k
        /\ SendInternalMessage(queue, [i \in 1..k |-> made + i])
  BY DEF Signs
<1> DEFINE votes == [i \in 1..k |-> made + i]
           room == OwnQueueSize - Len(queue)
           j == IF room < k THEN room ELSE k
           fit == [i \in 1..j |-> made + i]
<1>2. Len(queue) \in Nat /\ OwnQueueSize \in Nat /\ MaxOwn \in Nat
  BY LenProperties, RoutinesAssumption
<1>3. votes \in Seq(Nat) /\ Len(votes) = k
  BY <1>2
<1>4. j \in 0..2 /\ j <= k /\ Len(queue) + j <= OwnQueueSize
  BY <1>2
<1>5. SubSeq(votes, 1, j) = fit
  BY <1>3, <1>4
<1>6. Range(votes) = (made + 1)..(made + k) /\ Range(fit) = (made + 1)..(made + j)
  <2>1. \A x \in (made + 1)..(made + k) : x - made \in 1..k /\ votes[x - made] = x
    BY <1>2
  <2>2. \A x \in (made + 1)..(made + j) : x - made \in 1..j /\ fit[x - made] = x
    BY <1>2, <1>4
  <2>3. DOMAIN votes = 1..k /\ DOMAIN fit = 1..j
    OBVIOUS
  <2>4. Range(votes) = {votes[x] : x \in 1..k} /\ Range(fit) = {fit[x] : x \in 1..j}
    BY <2>3 DEF Range
  <2>5. \A x \in 1..k : votes[x] \in (made + 1)..(made + k)
    BY <1>2
  <2>6. \A x \in 1..j : fit[x] \in (made + 1)..(made + j)
    BY <1>2, <1>4
  <2>7. Range(votes) = (made + 1)..(made + k)
    BY <2>1, <2>4, <2>5
  <2>8. Range(fit) = (made + 1)..(made + j)
    BY <2>2, <2>4, <2>6
  <2>. QED
    BY <2>7, <2>8
<1>7. fit # votes <=> j < k
  <2>1. CASE j = k
    BY <2>1, <1>4
  <2>2. CASE j < k
    <3>1. Len(fit) = j
      BY <1>4
    <3>. QED
      BY <3>1, <1>3, <1>4, <2>2
  <2>. QED
    BY <1>4, <2>1, <2>2
<1>8. /\ internalMsgQueue' = queue \o fit
      /\ ownWaits' = ownWaits \cup (Range(votes) \ Range(fit))
      /\ wasFull' = (wasFull \/ fit # votes)
  <2>1. j = IF room < Len(votes) THEN room ELSE Len(votes)
    BY <1>3
  <2>. HIDE DEF j, fit, votes
  <2>. QED
    BY <1>1, <1>5, <2>1, Zenon DEF SendInternalMessage, votes
<1>9. Range(votes) \ Range(fit) = (made + j + 1)..(made + k)
  <2>. HIDE DEF j, fit, votes
  <2>. QED
    BY <1>2, <1>4, <1>6
<1>. HIDE DEF j, votes
<1>. QED
  BY <1>1, <1>4, <1>7, <1>8, <1>9


LEMMA SignsKeep ==
  ASSUME NEW done, NEW queue, OwnOK(done, queue, ownWaits, made, wasFull), Signs(queue)
  PROVE  OwnOK(done, internalMsgQueue', ownWaits', made', wasFull')
<1>1. /\ queue \in Seq(Own) /\ Len(queue) <= OwnQueueSize /\ done \in Seq(Own)
      /\ made \in 0..MaxOwn /\ ownWaits \in SUBSET Own /\ wasFull \in BOOLEAN
  BY DEF OwnOK
<1>2. PICK k \in 0..2, j \in 0..2 :
        /\ j <= k
        /\ made' = made + k /\ made + k <= MaxOwn
        /\ internalMsgQueue' = queue \o [i \in 1..j |-> made + i]
        /\ Len(queue) + j <= OwnQueueSize
        /\ ownWaits' = ownWaits \cup ((made + j + 1)..(made + k))
        /\ wasFull' = (wasFull \/ j < k)
  BY <1>1, SignsOwn
<1> DEFINE fit == [i \in 1..j |-> made + i]
<1>3. MaxOwn \in Nat /\ made \in Nat /\ Len(queue) \in Nat /\ Len(done) \in Nat
      /\ OwnQueueSize \in Nat
  BY <1>1, LenProperties, RoutinesAssumption
<1>4. fit \in Seq(Own) /\ Len(fit) = j /\ \A i \in 1..j : fit[i] = made + i
  <2>1. \A i \in 1..j : made + i \in Own
    BY <1>2, <1>3 DEF Own
  <2>. QED
    BY <2>1
<1>5. Range(fit) = (made + 1)..(made + j)
  <2>1. Range(fit) = {fit[i] : i \in 1..j}
    BY <1>4, RangeEquality
  <2>2. \A x \in (made + 1)..(made + j) : x - made \in 1..j /\ fit[x - made] = x
    BY <1>3
  <2>3. \A i \in 1..j : fit[i] \in (made + 1)..(made + j)
    BY <1>3
  <2>. QED
    BY <2>1, <2>2, <2>3
<1>. HIDE DEF fit
<1>6. internalMsgQueue' = queue \o fit
  BY <1>2 DEF fit
<1>7. /\ internalMsgQueue' \in Seq(Own)
      /\ Len(internalMsgQueue') = Len(queue) + j
      /\ \A i \in 1..Len(queue) : internalMsgQueue'[i] = queue[i]
      /\ \A i \in Len(queue) + 1 .. Len(queue) + j :
             internalMsgQueue'[i] = fit[i - Len(queue)]
  BY <1>1, <1>3, <1>4, <1>6, ConcatProperties
<1>8. Range(internalMsgQueue') = Range(queue) \cup (made + 1)..(made + j)
  BY <1>1, <1>4, <1>5, <1>6, RangeConcatenation
<1>9. 1..made = Range(done) \cup Range(queue) \cup ownWaits
  BY DEF OwnOK
<1>10. 1..made' = Range(done) \cup Range(internalMsgQueue') \cup ownWaits'
  <2>1. 1..(made + k) = 1..made \cup (made + 1)..(made + j)
                            \cup (made + j + 1)..(made + k)
    BY <1>2, <1>3
  <2>2. /\ made' = made + k
        /\ ownWaits' = ownWaits \cup ((made + j + 1)..(made + k))
    BY <1>2
  <2>. QED
    BY <2>1, <2>2, <1>8, <1>9, Zenon
<1>11. ownWaits' \in SUBSET Own
  BY <1>1, <1>2, <1>3 DEF Own
<1>12. wasFull' \/ InOrder(done, internalMsgQueue', ownWaits', made')
  <2> SUFFICES ASSUME ~wasFull'
               PROVE  InOrder(done, internalMsgQueue', ownWaits', made')
    OBVIOUS
  <2>1. ~wasFull /\ j = k /\ ownWaits' = ownWaits
    <3>1. ~wasFull /\ ~(j < k)
      BY <1>2, Zenon
    <3>2. j = k /\ (made + j + 1)..(made + k) = {}
      BY <3>1, <1>2, <1>3
    <3>. QED
      BY <3>1, <3>2, <1>2
  <2>2. InOrder(done, queue, ownWaits, made)
    BY <2>1 DEF OwnOK
  <2>3. \A i \in 1..Len(internalMsgQueue') : internalMsgQueue'[i] = Len(done) + i
    <3> SUFFICES ASSUME NEW i \in 1..Len(internalMsgQueue')
                 PROVE  internalMsgQueue'[i] = Len(done) + i
      OBVIOUS
    <3>1. CASE i <= Len(queue)
      BY <3>1, <2>2, <1>3, <1>7 DEF InOrder
    <3>2. CASE i > Len(queue)
      <4>1. i \in Len(queue) + 1 .. Len(queue) + j /\ i - Len(queue) \in 1..j
        BY <3>2, <1>3, <1>7
      <4>2. internalMsgQueue'[i] = made + (i - Len(queue))
        BY <4>1, <1>4, <1>7
      <4>. QED
        BY <4>2, <2>2, <1>3 DEF InOrder
    <3>. QED
      BY <3>1, <3>2, <1>3, <1>7
  <2>4. Len(done) + Len(internalMsgQueue') = made'
    BY <2>1, <2>2, <1>2, <1>3, <1>7 DEF InOrder
  <2>5. ownWaits' = {} /\ \A i \in 1..Len(done) : done[i] = i
    BY <2>1, <2>2 DEF InOrder
  <2>. QED
    BY <2>3, <2>4, <2>5 DEF InOrder
<1>. QED
  BY <1>1, <1>2, <1>3, <1>7, <1>10, <1>11, <1>12 DEF OwnOK

(* The first vote of the queue is taken.                                    *)
LEMMA TakeKeep ==
  ASSUME NEW done, NEW queue, NEW waits, NEW n, NEW full,
         OwnOK(done, queue, waits, n, full), queue # <<>>
  PROVE  OwnOK(Append(done, Head(queue)), Tail(queue), waits, n, full)
<1> DEFINE doneNext == Append(done, Head(queue))
<1>1. /\ queue \in Seq(Own) /\ Len(queue) <= OwnQueueSize /\ done \in Seq(Own)
      /\ n \in 0..MaxOwn /\ OwnQueueSize \in Nat
      /\ 1..n = Range(done) \cup Range(queue) \cup waits
  BY RoutinesAssumption DEF OwnOK
<1>2. /\ Head(queue) = queue[1] /\ queue[1] \in Own /\ Tail(queue) \in Seq(Own)
      /\ Len(queue) \in Nat \ {0} /\ Len(Tail(queue)) = Len(queue) - 1
      /\ \A i \in 1..Len(queue) - 1 : Tail(queue)[i] = queue[i + 1]
  BY <1>1, HeadTailProperties, EmptySeq
<1>3. /\ doneNext \in Seq(Own) /\ Len(doneNext) = Len(done) + 1
      /\ \A i \in 1..Len(done) : doneNext[i] = done[i]
      /\ doneNext[Len(done) + 1] = queue[1]
      /\ Len(done) \in Nat
  BY <1>1, <1>2, AppendProperties, LenProperties
<1>4. /\ Range(doneNext) = Range(done) \cup {Head(queue)}
      /\ Range(queue) = {Head(queue)} \cup Range(Tail(queue))
  BY <1>1, <1>2, RangeOfAppend, RangeOfTail
<1>5. 1..n = Range(doneNext) \cup Range(Tail(queue)) \cup waits
  BY <1>1, <1>4
<1>6. ASSUME InOrder(done, queue, waits, n)
      PROVE  InOrder(doneNext, Tail(queue), waits, n)
  <2>1. queue[1] = Len(done) + 1
    BY <1>6, <1>2 DEF InOrder
  <2>2. \A i \in 1..Len(doneNext) : doneNext[i] = i
    BY <1>6, <2>1, <1>3 DEF InOrder
  <2>3. \A i \in 1..Len(Tail(queue)) : Tail(queue)[i] = Len(doneNext) + i
    BY <1>6, <1>2, <1>3 DEF InOrder
  <2>. QED
    BY <1>6, <2>2, <2>3, <1>2, <1>3 DEF InOrder
<1>7. Len(Tail(queue)) <= OwnQueueSize
  BY <1>1, <1>2
<1>. QED
  BY <1>1, <1>2, <1>3, <1>5, <1>6, <1>7 DEF OwnOK

(* A vote that waited finds room.                                           *)
LEMMA GoKeep ==
  ASSUME NEW done, NEW queue, NEW waits, NEW n, NEW full,
         OwnOK(done, queue, waits, n, full), NEW v \in waits,
         Len(queue) < OwnQueueSize
  PROVE  OwnOK(done, Append(queue, v), waits \ {v}, n, full)
<1>1. /\ queue \in Seq(Own) /\ Len(queue) < OwnQueueSize /\ v \in Own
      /\ 1..n = Range(done) \cup Range(queue) \cup waits
      /\ full
  BY DEF OwnOK, InOrder
<1>2. /\ Append(queue, v) \in Seq(Own) /\ Len(Append(queue, v)) = Len(queue) + 1
      /\ Len(queue) \in Nat /\ OwnQueueSize \in Nat
  BY <1>1, AppendProperties, LenProperties, RoutinesAssumption
<1>3. Range(Append(queue, v)) = Range(queue) \cup {v}
  BY <1>1, RangeOfAppend
<1>4. 1..n = Range(done) \cup Range(Append(queue, v)) \cup (waits \ {v})
  BY <1>1, <1>3
<1>. QED
  BY <1>1, <1>2, <1>4 DEF OwnOK

LEMMA OwnStep ==
  ASSUME OwnInv, [Next]_vars
  PROVE  OwnInv'
<1>1. CASE HandlePeerMsg \/ HandleTock \/ HandleCommittedBlock
  <2>1. Signs(internalMsgQueue) /\ ownTaken' = ownTaken
    BY <1>1 DEF HandlePeerMsg, HandleTock, HandleCommittedBlock
  <2>. QED
    BY <2>1, SignsKeep DEF OwnInv
<1>2. CASE HandleInternalMsg
  <2>1. /\ internalMsgQueue # <<>> /\ Signs(Tail(internalMsgQueue))
        /\ ownTaken' = Append(ownTaken, Head(internalMsgQueue))
    BY <1>2 DEF HandleInternalMsg
  <2>2. OwnOK(ownTaken', Tail(internalMsgQueue), ownWaits, made, wasFull)
    BY <2>1, TakeKeep DEF OwnInv
  <2>. QED
    BY <2>1, <2>2, SignsKeep DEF OwnInv
<1>3. CASE \E v \in Own : OwnGoes(v)
  <2>1. PICK v \in ownWaits :
          /\ Len(internalMsgQueue) < OwnQueueSize
          /\ internalMsgQueue' = Append(internalMsgQueue, v)
          /\ ownWaits' = ownWaits \ {v}
          /\ UNCHANGED <<made, ownTaken, wasFull>>
    BY <1>3 DEF OwnGoes
  <2>. QED
    BY <2>1, GoKeep DEF OwnInv
<1>4. ASSUME UNCHANGED ownVars
      PROVE  OwnInv'
  BY <1>4 DEF OwnInv, ownVars
<1>5. CASE \/ \E m \in Gossip : Arrive(m)
           \/ ForwardGossip \/ Publish \/ ConsensSync
           \/ \E i \in Syncs : Answer(i) \/ ForwardAnswer(i)
           \/ \E r \in Requests : RequestArrives(r) \/ SendRequest(r)
           \/ Start \/ Panic \/ SyncTimer \/ AnswerRequest
           \/ \E m \in Outgoing : OutGoes(m)
           \/ UNCHANGED vars
  BY <1>4, <1>5 DEF Arrive, ForwardGossip, Publish, ConsensSync, Answer, ForwardAnswer,
                    RequestArrives, SendRequest, Start, Panic, SyncTimer, AnswerRequest,
                    OutGoes, vars
<1>. QED
  BY <1>1, <1>2, <1>3, <1>5 DEF Next

-----------------------------------------------------------------------------
(* What peers send.                                                         *)

IncomingInv ==
    /\ subscription \in Incoming \cup {None}
    /\ peerInMsgQueue \in Seq(Incoming)
    /\ arrived \in SUBSET Gossip
    /\ \A m \in arrived :
           \/ subscription = <<"gossip", m>>
           \/ <<"gossip", m>> \in Range(peerInMsgQueue) \cup taken

LEMMA IncomingStep ==
  ASSUME IncomingInv, [Next]_vars
  PROVE  IncomingInv'
<1>1. CASE \E m \in Gossip : Arrive(m)
  <2>1. PICK m \in Gossip :
          /\ subscription = None /\ subscription' = <<"gossip", m>>
          /\ arrived' = arrived \cup {m}
          /\ UNCHANGED <<peerInMsgQueue, taken>>
    BY <1>1 DEF Arrive
  <2>2. <<"gossip", m>> \in Incoming
    BY DEF Incoming
  <2>3. \A x \in arrived : <<"gossip", x>> \in Range(peerInMsgQueue) \cup taken
    BY <2>1 DEF IncomingInv, None
  <2>. QED
    BY <2>1, <2>2, <2>3 DEF IncomingInv
<1>2. CASE ForwardGossip
  <2>1. /\ subscription # None
        /\ peerInMsgQueue' = Append(peerInMsgQueue, subscription)
        /\ subscription' = None
        /\ UNCHANGED <<arrived, taken>>
    BY <1>2 DEF ForwardGossip
  <2>2. subscription \in Incoming /\ peerInMsgQueue \in Seq(Incoming)
    BY <2>1 DEF IncomingInv
  <2>3. /\ peerInMsgQueue' \in Seq(Incoming)
        /\ Range(peerInMsgQueue') = Range(peerInMsgQueue) \cup {subscription}
    BY <2>1, <2>2, RangeOfAppend, AppendProperties
  <2>. QED
    BY <2>1, <2>3 DEF IncomingInv
<1>3. CASE \E i \in Syncs : ForwardAnswer(i)
  <2>1. PICK i \in Syncs : ForwardAnswer(i)
    BY <1>3
  <2>2. PICK m \in Incoming : m = <<"sync", i>>
    BY DEF Incoming
  <2>3. CASE UNCHANGED peerInMsgQueue
    BY <2>1, <2>3 DEF ForwardAnswer, IncomingInv
  <2>4. CASE peerInMsgQueue' = Append(peerInMsgQueue, m)
    <3>1. /\ peerInMsgQueue' \in Seq(Incoming)
          /\ Range(peerInMsgQueue') = Range(peerInMsgQueue) \cup {m}
      BY <2>2, <2>4, RangeOfAppend, AppendProperties DEF IncomingInv
    <3>. QED
      BY <2>1, <3>1 DEF ForwardAnswer, IncomingInv
  <2>. QED
    BY <2>1, <2>2, <2>3, <2>4 DEF ForwardAnswer
<1>4. CASE HandlePeerMsg
  <2>1. /\ peerInMsgQueue # <<>> /\ peerInMsgQueue' = Tail(peerInMsgQueue)
        /\ taken' = taken \cup {Head(peerInMsgQueue)}
        /\ UNCHANGED <<subscription, arrived>>
    BY <1>4 DEF HandlePeerMsg
  <2>2. /\ peerInMsgQueue' \in Seq(Incoming)
        /\ Range(peerInMsgQueue) = {Head(peerInMsgQueue)} \cup Range(peerInMsgQueue')
    BY <2>1, RangeOfTail, HeadTailProperties DEF IncomingInv
  <2>. QED
    BY <2>1, <2>2 DEF IncomingInv
<1>5. CASE HandleCommittedBlock
  BY <1>5 DEF HandleCommittedBlock, inVars, IncomingInv
<1>6. ASSUME UNCHANGED <<inVars, taken>>
      PROVE  IncomingInv'
  BY <1>6 DEF IncomingInv, inVars
<1>7. CASE \/ Publish \/ ConsensSync
           \/ \E i \in Syncs : Answer(i)
           \/ \E r \in Requests : RequestArrives(r) \/ SendRequest(r)
           \/ Start \/ Panic \/ SyncTimer \/ HandleTock
           \/ HandleInternalMsg \/ AnswerRequest
           \/ \E v \in Own : OwnGoes(v)
           \/ \E m \in Outgoing : OutGoes(m)
           \/ UNCHANGED vars
  BY <1>6, <1>7 DEF Publish, ConsensSync, Answer, RequestArrives, SendRequest, Start, Panic,
                    SyncTimer, HandleTock, HandleInternalMsg, AnswerRequest, OwnGoes,
                    OutGoes, vars
<1>. QED
  BY <1>1, <1>2, <1>3, <1>4, <1>5, <1>7 DEF Next

-----------------------------------------------------------------------------
(* What goes to peers.                                                      *)

OutgoingInv ==
    /\ syncs \in 0..MaxSyncs
    /\ rpc \in [Syncs -> {"none", "asked", "message", "block", "ended"}]
    /\ peerOutMsgQueue \in Seq(Outgoing)
    /\ outWaits \in SUBSET Outgoing
    /\ \A i \in 1..syncs :
           \/ <<"sync", i>> \in Range(peerOutMsgQueue) \cup outWaits
           \/ sender = i
           \/ rpc[i] # "none"
    /\ \A v \in ownAdded :
           \/ <<"own", v>> \in Range(peerOutMsgQueue) \cup outWaits
           \/ v \in published

(* A broadcast waits in sendC or with a goroutine, and displaces nothing.   *)
LEMMA BroadcastKeeps ==
  ASSUME peerOutMsgQueue \in Seq(Outgoing), outWaits \in SUBSET Outgoing,
         NEW m \in Outgoing, BroadcastMessageToPeers(m)
  PROVE  /\ peerOutMsgQueue' \in Seq(Outgoing) /\ outWaits' \in SUBSET Outgoing
         /\ Range(peerOutMsgQueue') \cup outWaits'
                = Range(peerOutMsgQueue) \cup outWaits \cup {m}
<1>1. CASE peerOutMsgQueue' = Append(peerOutMsgQueue, m) /\ outWaits' = outWaits
  <2>1. /\ peerOutMsgQueue' \in Seq(Outgoing)
        /\ Range(peerOutMsgQueue') = Range(peerOutMsgQueue) \cup {m}
    BY <1>1, RangeOfAppend, AppendProperties
  <2>. QED
    BY <1>1, <2>1
<1>2. CASE outWaits' = outWaits \cup {m} /\ peerOutMsgQueue' = peerOutMsgQueue
  BY <1>2
<1>. QED
  BY <1>1, <1>2 DEF BroadcastMessageToPeers

LEMMA OutgoingStep ==
  ASSUME OutgoingInv, OwnInv, [Next]_vars
  PROVE  OutgoingInv'
<1>0. MaxSyncs \in Nat
  BY RoutinesAssumption
<1>1. CASE SyncTimer
  <2>1. /\ syncs < MaxSyncs /\ syncs' = syncs + 1
        /\ BroadcastMessageToPeers(<<"sync", syncs + 1>>)
        /\ UNCHANGED <<sender, rpc, ownAdded, published>>
    BY <1>1 DEF SyncTimer, ownVars
  <2>2. <<"sync", syncs + 1>> \in Outgoing
    <3>1. syncs + 1 \in Syncs
      BY <1>0, <2>1 DEF OutgoingInv, Syncs
    <3>. QED
      BY <3>1 DEF Outgoing
  <2>3. /\ peerOutMsgQueue' \in Seq(Outgoing) /\ outWaits' \in SUBSET Outgoing
        /\ Range(peerOutMsgQueue') \cup outWaits'
               = Range(peerOutMsgQueue) \cup outWaits \cup {<<"sync", syncs + 1>>}
    BY <2>1, <2>2, BroadcastKeeps DEF OutgoingInv
  <2>4. syncs' \in 0..MaxSyncs /\ 1..syncs' = 1..syncs \cup {syncs + 1}
    BY <1>0, <2>1 DEF OutgoingInv
  <2>. QED
    BY <2>1, <2>3, <2>4 DEF OutgoingInv
<1>2. CASE HandleInternalMsg
  <2> DEFINE v == Head(internalMsgQueue)
  <2>1. /\ internalMsgQueue # <<>>
        /\ UNCHANGED <<sender, published, syncs, rpc>>
        /\ \/ ownAdded' = ownAdded \cup {v} /\ BroadcastMessageToPeers(<<"own", v>>)
           \/ UNCHANGED <<ownAdded, peerOutMsgQueue, outWaits>>
    BY <1>2 DEF HandleInternalMsg, syncVars
  <2>2. CASE UNCHANGED <<ownAdded, peerOutMsgQueue, outWaits>>
    BY <2>1, <2>2 DEF OutgoingInv
  <2>3. CASE ownAdded' = ownAdded \cup {v} /\ BroadcastMessageToPeers(<<"own", v>>)
    <3>1. <<"own", v>> \in Outgoing
      <4>1. v \in Own
        BY <2>1, HeadTailProperties DEF OwnInv, OwnOK
      <4>. QED
        BY <4>1 DEF Outgoing
    <3>2. /\ peerOutMsgQueue' \in Seq(Outgoing) /\ outWaits' \in SUBSET Outgoing
          /\ Range(peerOutMsgQueue') \cup outWaits'
                 = Range(peerOutMsgQueue) \cup outWaits \cup {<<"own", v>>}
      BY <2>3, <3>1, BroadcastKeeps DEF OutgoingInv
    <3>. HIDE DEF v
    <3>. QED
      BY <2>1, <2>3, <3>2 DEF OutgoingInv
  <2>. QED
    BY <2>1, <2>2, <2>3
<1>3. CASE Publish
  <2> DEFINE m == Head(peerOutMsgQueue)
  <2>1. /\ sender = 0 /\ peerOutMsgQueue # <<>>
        /\ peerOutMsgQueue' = Tail(peerOutMsgQueue)
        /\ IF m[1] = "sync" THEN sender' = m[2] /\ UNCHANGED published
           ELSE published' = published \cup {m[2]} /\ UNCHANGED sender
        /\ UNCHANGED <<outWaits, syncs, rpc, ownAdded>>
    BY <1>3 DEF Publish, syncVars, ownVars
  <2>2. /\ peerOutMsgQueue' \in Seq(Outgoing)
        /\ Range(peerOutMsgQueue) = {m} \cup Range(peerOutMsgQueue')
    BY <2>1, RangeOfTail, HeadTailProperties DEF OutgoingInv
  <2>3. ASSUME NEW i \in 1..syncs, rpc[i] = "none",
               <<"sync", i>> \notin Range(peerOutMsgQueue') \cup outWaits
        PROVE  sender' = i
    <3>1. <<"sync", i>> = m
      BY <2>1, <2>2, <2>3 DEF OutgoingInv
    <3>2. m[1] = "sync" /\ m[2] = i
      BY <3>1
    <3>. QED
      BY <2>1, <3>2
  <2>4. ASSUME NEW v \in ownAdded, <<"own", v>> \notin Range(peerOutMsgQueue') \cup outWaits
        PROVE  v \in published'
    <3>1. CASE v \in published
      BY <2>1, <3>1
    <3>2. CASE <<"own", v>> = m
      <4>1. m[1] # "sync" /\ m[2] = v
        BY <3>2
      <4>. QED
        BY <2>1, <4>1
    <3>. QED
      BY <2>2, <2>4, <3>1, <3>2 DEF OutgoingInv
  <2>5. \A i \in 1..syncs : sender # i
    BY <1>0, <2>1 DEF OutgoingInv
  <2>. HIDE DEF m
  <2>. QED
    BY <2>1, <2>2, <2>3, <2>4, <2>5 DEF OutgoingInv
<1>4. CASE ConsensSync
  <2>1. PICK state \in {"asked", "ended"} :
          /\ rpc' = [rpc EXCEPT ![sender] = state]
          /\ sender # 0 /\ sender' = 0
          /\ UNCHANGED <<peerOutMsgQueue, outWaits, syncs, ownAdded, published>>
    BY <1>4 DEF ConsensSync, ownVars
  <2>2. 1..syncs \subseteq Syncs
    BY <1>0 DEF OutgoingInv, Syncs
  <2>. QED
    BY <2>1, <2>2 DEF OutgoingInv
<1>5. CASE \E i \in Syncs : Answer(i) \/ ForwardAnswer(i)
  <2>1. PICK i \in Syncs, state \in {"message", "block", "ended"} :
          /\ rpc[i] # "none" /\ rpc' = [rpc EXCEPT ![i] = state]
          /\ UNCHANGED <<peerOutMsgQueue, outWaits, sender, syncs, ownAdded, published>>
    BY <1>5 DEF Answer, ForwardAnswer, outVars, ownVars
  <2>2. 1..syncs \subseteq Syncs
    BY <1>0 DEF OutgoingInv, Syncs
  <2>. QED
    BY <2>1, <2>2 DEF OutgoingInv
<1>6. CASE \E m \in Outgoing : OutGoes(m)
  <2>1. PICK m \in Outgoing :
          /\ m \in outWaits
          /\ peerOutMsgQueue' = Append(peerOutMsgQueue, m)
          /\ outWaits' = outWaits \ {m}
          /\ UNCHANGED <<sender, syncs, rpc, ownAdded, published>>
    BY <1>6 DEF OutGoes, syncVars, ownVars
  <2>2. /\ peerOutMsgQueue' \in Seq(Outgoing)
        /\ Range(peerOutMsgQueue') = Range(peerOutMsgQueue) \cup {m}
    BY <2>1, RangeOfAppend, AppendProperties DEF OutgoingInv
  <2>. QED
    BY <2>1, <2>2 DEF OutgoingInv
<1>7. ASSUME UNCHANGED <<outVars, ownAdded, syncs, rpc>>
      PROVE  OutgoingInv'
  BY <1>7 DEF OutgoingInv, outVars
<1>8. CASE \/ \E m \in Gossip : Arrive(m)
           \/ ForwardGossip
           \/ \E r \in Requests : RequestArrives(r) \/ SendRequest(r)
           \/ Start \/ Panic \/ HandleTock
           \/ HandlePeerMsg \/ AnswerRequest \/ HandleCommittedBlock
           \/ \E v \in Own : OwnGoes(v)
           \/ UNCHANGED vars
  BY <1>7, <1>8 DEF Arrive, ForwardGossip, RequestArrives, SendRequest, Start, Panic,
                    HandleTock, HandlePeerMsg, AnswerRequest, HandleCommittedBlock, OwnGoes,
                    ownVars, syncVars, vars
<1>. QED
  BY <1>1, <1>2, <1>3, <1>4, <1>5, <1>6, <1>8 DEF Next

-----------------------------------------------------------------------------
(* The requests of peers.                                                   *)

(* Each handler that waits has its request in the channel, once.            *)
RequestInv ==
    LET chan == consensusSyncRequestAsyncChan
    IN  /\ request \in [Requests -> {"none", "sending", "waiting", "answered"}]
        /\ chan \in Seq(Requests)
        /\ \A i, j \in 1..Len(chan) : chan[i] = chan[j] => i = j
        /\ \A r \in Requests : request[r] = "waiting" <=> r \in Range(chan)

LEMMA RequestStep ==
  ASSUME RequestInv, [Next]_vars
  PROVE  RequestInv'
<1> DEFINE chan == consensusSyncRequestAsyncChan
<1>1. CASE \E r \in Requests : RequestArrives(r)
  BY <1>1 DEF RequestArrives, RequestInv
<1>2. CASE \E r \in Requests : SendRequest(r)
  <2>1. PICK r \in Requests :
          /\ request[r] = "sending" /\ request' = [request EXCEPT ![r] = "waiting"]
          /\ chan' = Append(chan, r)
    BY <1>2 DEF SendRequest
  <2>2. chan \in Seq(Requests) /\ r \notin Range(chan) /\ Len(chan) \in Nat
    BY <2>1, LenProperties DEF RequestInv
  <2>3. /\ chan' \in Seq(Requests) /\ Len(chan') = Len(chan) + 1
        /\ \A i \in 1..Len(chan) : chan'[i] = chan[i]
        /\ chan'[Len(chan) + 1] = r
        /\ Range(chan') = Range(chan) \cup {r}
    BY <2>1, <2>2, RangeOfAppend, AppendProperties
  <2>4. \A i \in 1..Len(chan) : chan[i] # r
    BY <2>2, RangeEquality
  <2>5. \A i, j \in 1..Len(chan') : chan'[i] = chan'[j] => i = j
    <3>1. \A i \in 1..Len(chan') : i \in 1..Len(chan) \/ i = Len(chan) + 1
      BY <2>2, <2>3
    <3>2. \A i, j \in 1..Len(chan) : chan[i] = chan[j] => i = j
      BY DEF RequestInv
    <3>. HIDE DEF chan
    <3>. QED
      BY <2>3, <2>4, <3>1, <3>2
  <2>. QED
    BY <2>1, <2>3, <2>5 DEF RequestInv
<1>3. CASE AnswerRequest
  <2>1. /\ chan # <<>> /\ chan' = Tail(chan)
        /\ request' = [request EXCEPT ![Head(chan)] = "answered"]
    BY <1>3 DEF AnswerRequest
  <2>2. /\ chan \in Seq(Requests) /\ Head(chan) = chan[1] /\ Head(chan) \in Requests
        /\ chan' \in Seq(Requests) /\ Len(chan) \in Nat \ {0} /\ Len(chan') = Len(chan) - 1
        /\ \A i \in 1..Len(chan) - 1 : chan'[i] = chan[i + 1]
    BY <2>1, HeadTailProperties, EmptySeq DEF RequestInv
  <2>3. Range(chan) = {Head(chan)} \cup Range(chan')
    BY <2>1, <2>2, RangeOfTail
  <2>4. Head(chan) \notin Range(chan')
    <3>1. \A i \in 1..Len(chan') : chan'[i] # Head(chan)
      BY <2>2 DEF RequestInv
    <3>. QED
      BY <3>1, <2>2, RangeEquality
  <2>5. \A i, j \in 1..Len(chan') : chan'[i] = chan'[j] => i = j
    BY <2>2 DEF RequestInv
  <2>. QED
    BY <2>1, <2>2, <2>3, <2>4, <2>5 DEF RequestInv
<1>4. ASSUME UNCHANGED requestVars
      PROVE  RequestInv'
  BY <1>4 DEF RequestInv, requestVars
<1>5. CASE \/ \E m \in Gossip : Arrive(m)
           \/ ForwardGossip \/ Publish \/ ConsensSync
           \/ \E i \in Syncs : Answer(i) \/ ForwardAnswer(i)
           \/ Start \/ Panic \/ SyncTimer \/ HandleTock
           \/ HandlePeerMsg \/ HandleInternalMsg \/ HandleCommittedBlock
           \/ \E v \in Own : OwnGoes(v)
           \/ \E m \in Outgoing : OutGoes(m)
           \/ UNCHANGED vars
  BY <1>4, <1>5 DEF Arrive, ForwardGossip, Publish, ConsensSync, Answer, ForwardAnswer, Start,
                    Panic, SyncTimer, HandleTock, HandlePeerMsg, HandleInternalMsg,
                    HandleCommittedBlock, OwnGoes, OutGoes, vars
<1>. QED
  BY <1>1, <1>2, <1>3, <1>5 DEF Next

-----------------------------------------------------------------------------
(* The theorems.                                                            *)

RoutinesInv == OwnInv /\ IncomingInv /\ OutgoingInv /\ RequestInv

LEMMA InitRoutines == Init => RoutinesInv
<1> SUFFICES ASSUME Init PROVE RoutinesInv
  OBVIOUS
<1>1. OwnInv
  <2>1. InOrder(<<>>, <<>>, {}, 0)
    BY EmptySeq DEF InOrder
  <2>2. 1..0 = Range(<<>>) \cup Range(<<>>) \cup {}
    BY RangeOfEmpty
  <2>3. OwnOK(<<>>, <<>>, {}, 0, FALSE)
    BY <2>1, <2>2, EmptySeq, RoutinesAssumption DEF OwnOK
  <2>. QED
    BY <2>3 DEF Init, OwnInv
<1>2. IncomingInv
  BY EmptySeq DEF Init, IncomingInv
<1>3. OutgoingInv
  <2>1. 1..0 = {} /\ 0 \in 0..MaxSyncs
    BY RoutinesAssumption
  <2>. QED
    BY <2>1, EmptySeq DEF Init, OutgoingInv
<1>4. RequestInv
  BY RangeOfEmpty, EmptySeq DEF Init, RequestInv
<1>. QED
  BY <1>1, <1>2, <1>3, <1>4 DEF RoutinesInv

(* The inductive invariant: where the messages of each kind are.            *)
THEOREM RoutinesInvariance == Spec => []RoutinesInv
<1>1. RoutinesInv /\ [Next]_vars => RoutinesInv'
  BY OwnStep, IncomingStep, OutgoingStep, RequestStep DEF RoutinesInv
<1>. QED
  BY <1>1, InitRoutines, PTL DEF Spec

(* receiveRoutine takes own votes in the order it signed them, unless       *)
(* internalMsgQueue was full when sendInternalMessage had one for it.       *)
THEOREM OwnVotesInOrderHolds == Spec => []OwnVotesInOrder
<1>1. RoutinesInv => OwnVotesInOrder
  <2> SUFFICES ASSUME RoutinesInv, ~wasFull
               PROVE  ownTaken = [i \in 1..Len(ownTaken) |-> i]
    BY DEF OwnVotesInOrder
  <2>1. ownTaken \in Seq(Own) /\ \A i \in 1..Len(ownTaken) : ownTaken[i] = i
    BY DEF RoutinesInv, OwnInv, OwnOK, InOrder
  <2>2. ownTaken \in [1..Len(ownTaken) -> Own]
    BY <2>1, LenProperties
  <2>. QED
    BY <2>1, <2>2
<1>. QED
  BY <1>1, RoutinesInvariance, PTL

(* No channel, full or not, loses what was sent to it: own votes, gossip,   *)
(* sync requests of this node and those of its peers.                       *)
THEOREM NothingLostHolds == Spec => []NothingLost
<1>1. RoutinesInv => NothingLost
  BY DEF RoutinesInv, OwnInv, OwnOK, IncomingInv, OutgoingInv, RequestInv, NothingLost
<1>. QED
  BY <1>1, RoutinesInvariance, PTL

=============================================================================

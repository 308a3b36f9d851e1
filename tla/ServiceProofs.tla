---------------------------- MODULE ServiceProofs ---------------------------
(***************************************************************************)
(* What holds of ConsensusService for channels of any size, any number of  *)
(* starts and any places of ticks: no service is stopped twice, and the    *)
(* ticker does what the consensus state machine takes it for.              *)
(*                                                                         *)
(* StopsOnce is not inductive.  LifeInv follows where the goroutine of     *)
(* each service is: of the two that may stop the ticker at most one is     *)
(* past its flag, and what it has called and closed goes with its place.   *)
(* For the ticker, TocksOK says that nothing is on its way to the receiver *)
(* that was not accepted.                                                  *)
(***************************************************************************)
EXTENDS ConsensusService, TLAPS

Idle == <<"idle">>

(* Where a goroutine may be in Stop of a service.                           *)
StopSteps == {"casStopped", "onStop", "closeQuit"}

LifeTypeOK ==
    /\ started \in [Services -> BOOLEAN] /\ stopped \in [Services -> BOOLEAN]
    /\ quits \in [Services -> Nat] /\ onStops \in [Services -> Nat]
    /\ stop \in [Services -> {Idle} \cup (StopSteps \X Services)]
    /\ watches \subseteq Services

(* Who stops what: the goroutine of the ticker the ticker alone, that of    *)
(* the consensus state both, one inside the other.  The consensus state has *)
(* that goroutine, and can be stopped, once Start has ended well.           *)
WatchOK ==
    /\ \A p \in watches : stop[p] = Idle
    /\ stop["ticker"] \in {Idle} \cup (StopSteps \X {"ticker"})
    /\ ("ticker" \in watches \/ stop["ticker"] # Idle \/ stopped["ticker"])
           => started["ticker"]
    /\ ("consensus" \in watches \/ stop["consensus"] # Idle \/ stopped["consensus"])
           => start = "idle" /\ started["consensus"]
    /\ start # "idle" => started["consensus"]

(* How far the one Stop of the consensus state is.                          *)
ConsensusStopOK ==
    CASE stop["consensus"] = <<"casStopped", "consensus">>
            -> ~stopped["consensus"] /\ onStops["consensus"] = 0 /\ quits["consensus"] = 0
      [] stop["consensus"] = <<"onStop", "consensus">>
            -> stopped["consensus"] /\ onStops["consensus"] = 0 /\ quits["consensus"] = 0
      [] stop["consensus"] = Idle
            -> \/ ~stopped["consensus"] /\ onStops["consensus"] = 0 /\ quits["consensus"] = 0
               \/ /\ stopped["consensus"] /\ "consensus" \notin watches
                  /\ onStops["consensus"] = 1 /\ quits["consensus"] = 1
      [] OTHER
            -> stopped["consensus"] /\ onStops["consensus"] = 1 /\ quits["consensus"] = 0

(* The two that may stop the ticker: at most one is past the flag.          *)
Past(p) == stop[p] \in {<<"onStop", "ticker">>, <<"closeQuit", "ticker">>}

TickerStopOK ==
    /\ ~(Past("consensus") /\ Past("ticker"))
    /\ ~stopped["ticker"] => \A p \in Services : ~Past(p)
    /\ onStops["ticker"] = IF stopped["ticker"] /\ \A p \in Services :
                                  stop[p] # <<"onStop", "ticker">> THEN 1 ELSE 0
    /\ quits["ticker"] = IF stopped["ticker"] /\ \A p \in Services : ~Past(p)
                         THEN 1 ELSE 0

LifeInv == LifeTypeOK /\ WatchOK /\ ConsensusStopOK /\ TickerStopOK

(* A tock is of an accepted tick, or of the one that timeoutRoutine begins  *)
(* with; ti is the latest of those accepted.                                *)
TocksOK ==
    /\ TickerTypeOK
    /\ ti # 0 => ti \in accepted
    /\ \A t \in accepted : t <= ti
    /\ \A t \in Ticks : tocks[t] > 0 => t \in accepted
    /\ \A i \in 1..Len(tockChan) : tockChan[i] # 0 => tockChan[i] \in accepted
    /\ taken \subseteq accepted

-----------------------------------------------------------------------------
(* The two services, one at a time.                                         *)

LEMMA PlacesDiffer ==
    /\ \A a, s, b, t : <<a, s>> = <<b, t>> => a = b /\ s = t
    /\ \A a, s : <<a, s>> # <<"idle">>
<1>1. ASSUME NEW a, NEW s, <<a, s>> = <<"idle">> PROVE FALSE
  <2>1. Len(<<a, s>>) = Len(<<"idle">>)
      BY <1>1
  <2>2. QED
      BY <2>1
<1>2. QED
    BY <1>1

LEMMA InitLife == Init => LifeInv
<1> SUFFICES ASSUME Init PROVE LifeInv
    OBVIOUS
<1>1. LifeTypeOK /\ WatchOK
    BY DEF Init, LifeTypeOK, WatchOK, Services, Idle
<1>2. \A p \in Services : stop[p] = Idle
    BY DEF Init, Services, Idle
<1>3. ConsensusStopOK /\ TickerStopOK
    BY <1>2, PlacesDiffer DEF Init, ConsensusStopOK, TickerStopOK, Past, Services, Idle
<1>4. QED
    BY <1>1, <1>3 DEF LifeInv

LEMMA CasStoppedLife ==
  ASSUME LifeInv, NEW p \in Services, NEW s \in Services, CasStopped(p, s)
  PROVE  LifeInv'
<1> USE PlacesDiffer DEF Services, Idle, StopSteps
<1>1. stop[p] = <<"casStopped", s>> /\ UNCHANGED <<started, quits, onStops, start, watches>>
    BY DEF CasStopped, lifeVars
<1>2. CASE stopped[s] \/ ~started[s]
  <2>1. /\ stopped' = stopped
        /\ stop' = [stop EXCEPT ![p] = IF s = "ticker" /\ p # "ticker"
                                       THEN <<"closeQuit", "consensus">> ELSE Idle]
      BY <1>2 DEF CasStopped, StopReturns, StopGoes
  <2>2. LifeTypeOK'
      BY <1>1, <2>1 DEF LifeInv, LifeTypeOK
  <2>3. WatchOK'
      BY <1>1, <2>1 DEF LifeInv, LifeTypeOK, WatchOK
  <2>4. ConsensusStopOK'
      BY <1>1, <1>2, <2>1 DEF LifeInv, LifeTypeOK, WatchOK, ConsensusStopOK
  <2>5. TickerStopOK'
      BY <1>1, <2>1 DEF LifeInv, LifeTypeOK, TickerStopOK, Past
  <2>6. QED
      BY <2>2, <2>3, <2>4, <2>5 DEF LifeInv
<1>3. CASE ~(stopped[s] \/ ~started[s])
  <2>1. /\ stopped' = [stopped EXCEPT ![s] = TRUE]
        /\ stop' = [stop EXCEPT ![p] = <<"onStop", s>>]
      BY <1>3 DEF CasStopped, StopGoes
  <2>2. LifeTypeOK'
      BY <1>1, <2>1 DEF LifeInv, LifeTypeOK
  <2>3. WatchOK'
      BY <1>1, <1>3, <2>1 DEF LifeInv, LifeTypeOK, WatchOK
  <2>4. ConsensusStopOK'
      BY <1>1, <1>3, <2>1 DEF LifeInv, LifeTypeOK, WatchOK, ConsensusStopOK
  <2>5. TickerStopOK'
      BY <1>1, <1>3, <2>1 DEF LifeInv, LifeTypeOK, WatchOK, TickerStopOK, Past
  <2>6. QED
      BY <2>2, <2>3, <2>4, <2>5 DEF LifeInv
<1>4. QED
    BY <1>2, <1>3

LEMMA OnStopTickerLife ==
  ASSUME LifeInv, NEW p \in Services, OnStopTicker(p)
  PROVE  LifeInv'
<1> USE PlacesDiffer DEF Services, Idle, StopSteps
<1>1. /\ stop[p] = <<"onStop", "ticker">>
      /\ onStops' = [onStops EXCEPT !["ticker"] = @ + 1]
      /\ stop' = [stop EXCEPT ![p] = <<"closeQuit", "ticker">>]
      /\ UNCHANGED <<started, stopped, quits, start, watches>>
    BY DEF OnStopTicker, StopGoes
<1>2. LifeTypeOK'
    BY <1>1 DEF LifeInv, LifeTypeOK
<1>3. WatchOK'
    BY <1>1 DEF LifeInv, LifeTypeOK, WatchOK, ConsensusStopOK
<1>4. ConsensusStopOK'
    BY <1>1 DEF LifeInv, LifeTypeOK, WatchOK, ConsensusStopOK
<1>5. TickerStopOK'
    BY <1>1 DEF LifeInv, LifeTypeOK, WatchOK, TickerStopOK, Past
<1>6. QED
    BY <1>2, <1>3, <1>4, <1>5 DEF LifeInv

LEMMA OnStopConsensusLife ==
  ASSUME LifeInv, NEW p \in Services, OnStopConsensus(p)
  PROVE  LifeInv'
<1> USE PlacesDiffer DEF Services, Idle, StopSteps
<1>1. /\ stop[p] = <<"onStop", "consensus">>
      /\ onStops' = [onStops EXCEPT !["consensus"] = @ + 1]
      /\ stop' = [stop EXCEPT ![p] =
                      IF started["ticker"] /\ ~stopped["ticker"]
                      THEN <<"casStopped", "ticker">> ELSE <<"closeQuit", "consensus">>]
      /\ UNCHANGED <<started, stopped, quits, start, watches>>
    BY DEF OnStopConsensus, StopGoes
<1>2. LifeTypeOK'
    BY <1>1 DEF LifeInv, LifeTypeOK
<1>3. WatchOK'
    BY <1>1 DEF LifeInv, LifeTypeOK, WatchOK, ConsensusStopOK
<1>4. ConsensusStopOK'
    BY <1>1 DEF LifeInv, LifeTypeOK, WatchOK, ConsensusStopOK
<1>5. TickerStopOK'
    BY <1>1 DEF LifeInv, LifeTypeOK, WatchOK, TickerStopOK, Past
<1>6. QED
    BY <1>2, <1>3, <1>4, <1>5 DEF LifeInv

LEMMA CloseQuitLife ==
  ASSUME LifeInv, NEW p \in Services, NEW s \in Services, CloseQuit(p, s)
  PROVE  LifeInv'
<1> USE PlacesDiffer DEF Services, Idle, StopSteps
<1>1. /\ stop[p] = <<"closeQuit", s>>
      /\ quits' = [quits EXCEPT ![s] = @ + 1]
      /\ stop' = [stop EXCEPT ![p] = IF s = "ticker" /\ p # "ticker"
                                     THEN <<"closeQuit", "consensus">> ELSE Idle]
      /\ UNCHANGED <<started, stopped, onStops, start, watches>>
    BY DEF CloseQuit, StopReturns, StopGoes
<1>2. LifeTypeOK'
    BY <1>1 DEF LifeInv, LifeTypeOK
<1>3. WatchOK'
    BY <1>1 DEF LifeInv, LifeTypeOK, WatchOK, ConsensusStopOK
<1>4. ConsensusStopOK'
    BY <1>1 DEF LifeInv, LifeTypeOK, WatchOK, ConsensusStopOK
<1>5. TickerStopOK'
    BY <1>1 DEF LifeInv, LifeTypeOK, WatchOK, TickerStopOK, Past
<1>6. QED
    BY <1>2, <1>3, <1>4, <1>5 DEF LifeInv

LEMMA WatcherWakesLife ==
  ASSUME LifeInv, NEW p \in Services, WatcherWakes(p)
  PROVE  LifeInv'
<1> USE PlacesDiffer DEF Services, Idle, StopSteps
<1>1. /\ p \in watches /\ watches' = watches \ {p}
      /\ \/ UNCHANGED stop
         \/ /\ started[p] /\ ~stopped[p]
            /\ stop' = [stop EXCEPT ![p] = <<"casStopped", p>>]
      /\ UNCHANGED <<started, stopped, quits, onStops, start>>
    BY DEF WatcherWakes, StopGoes
<1>2. LifeTypeOK'
    BY <1>1 DEF LifeInv, LifeTypeOK
<1>3. WatchOK'
    BY <1>1 DEF LifeInv, LifeTypeOK, WatchOK, ConsensusStopOK
<1>4. ConsensusStopOK'
    BY <1>1 DEF LifeInv, LifeTypeOK, WatchOK, ConsensusStopOK
<1>5. TickerStopOK'
    BY <1>1 DEF LifeInv, LifeTypeOK, WatchOK, TickerStopOK, Past
<1>6. QED
    BY <1>2, <1>3, <1>4, <1>5 DEF LifeInv

LEMMA StartLife ==
  ASSUME LifeInv, Start
  PROVE  LifeInv'
<1> USE PlacesDiffer DEF Services, Idle, StopSteps
<1>1. /\ start = "idle" /\ start' = "onStart"
      /\ ~started["consensus"] /\ ~stopped["consensus"]
      /\ started' = [started EXCEPT !["consensus"] = TRUE]
      /\ UNCHANGED <<stopped, quits, onStops, stop, watches>>
    BY DEF Start
<1>2. LifeTypeOK'
    BY <1>1 DEF LifeInv, LifeTypeOK
<1>3. WatchOK'
    BY <1>1 DEF LifeInv, LifeTypeOK, WatchOK, ConsensusStopOK
<1>4. ConsensusStopOK'
    BY <1>1 DEF LifeInv, LifeTypeOK, WatchOK, ConsensusStopOK
<1>5. TickerStopOK'
    BY <1>1 DEF LifeInv, LifeTypeOK, WatchOK, TickerStopOK, Past
<1>6. QED
    BY <1>2, <1>3, <1>4, <1>5 DEF LifeInv

LEMMA StartStepLife ==
  ASSUME LifeInv, StartStep
  PROVE  LifeInv'
<1> USE PlacesDiffer DEF Services, Idle, StopSteps
<1>1. /\ start # "idle"
      /\ \/ /\ start' = "idle" /\ started' = [started EXCEPT !["consensus"] = FALSE]
            /\ UNCHANGED watches
         \/ /\ start' # "idle" /\ started' = [started EXCEPT !["ticker"] = TRUE]
            /\ ~started["ticker"] /\ watches' = watches \cup {"ticker"}
         \/ start' # "idle" /\ UNCHANGED <<started, watches>>
         \/ /\ start' = "idle" /\ watches' = watches \cup {"consensus"}
            /\ UNCHANGED started
      /\ UNCHANGED <<stopped, quits, onStops, stop>>
    BY DEF StartStep, OnStartTicker, StartFails, CheckDoubleSigningRisk, ScheduleRound0,
           WatchConsensus
<1>2. LifeTypeOK'
    BY <1>1 DEF LifeInv, LifeTypeOK
<1>3. WatchOK'
    BY <1>1 DEF LifeInv, LifeTypeOK, WatchOK, ConsensusStopOK
<1>4. ConsensusStopOK'
    BY <1>1 DEF LifeInv, LifeTypeOK, WatchOK, ConsensusStopOK
<1>5. TickerStopOK'
    BY <1>1 DEF LifeInv, LifeTypeOK, WatchOK, TickerStopOK, Past
<1>6. QED
    BY <1>2, <1>3, <1>4, <1>5 DEF LifeInv

LEMMA LifeSame ==
  ASSUME LifeInv, UNCHANGED <<started, stopped, quits, onStops, start, stop, watches>>
  PROVE  LifeInv'
BY DEF LifeInv, LifeTypeOK, WatchOK, ConsensusStopOK, TickerStopOK, Past

LEMMA NextLife == LifeInv /\ [Next]_allVars => LifeInv'
<1> SUFFICES ASSUME LifeInv, [Next]_allVars PROVE LifeInv'
    OBVIOUS
<1>1. CASE UNCHANGED allVars
    BY <1>1, LifeSame DEF allVars, lifeVars
<1>2. CASE Start \/ StartStep
    BY <1>2, StartLife, StartStepLife
<1>3. ASSUME NEW p \in Services, StopStep(p) \/ WatcherWakes(p) PROVE LifeInv'
    BY <1>3, CasStoppedLife, OnStopTickerLife, OnStopConsensusLife, CloseQuitLife,
       WatcherWakesLife DEF StopStep
<1>4. CASE \/ ReceiverTakesTock \/ (\E t \in Ticks : ReceiverSchedules(t))
           \/ ReceiverEnds \/ Cancel \/ TickerStep(TickerNext)
    BY <1>4, LifeSame DEF ReceiverTakesTock, ReceiverSchedules, ReceiverEnds, Cancel,
                          TickerStep, lifeVars
<1>5. QED
    BY <1>1, <1>2, <1>3, <1>4 DEF Next

(* However the two watchers, OnStop of the consensus state and a start that *)
(* failed meet, OnStop of a service runs and its quit channel is closed at  *)
(* most once: Stop never panics on a closed channel.                        *)
THEOREM StopsOnceHolds == Spec => []StopsOnce
<1>1. LifeInv => StopsOnce
    BY PlacesDiffer DEF LifeInv, LifeTypeOK, WatchOK, ConsensusStopOK, TickerStopOK, Past,
                        StopsOnce, Services, Idle, StopSteps
<1>2. QED
    BY <1>1, InitLife, NextLife, PTL DEF Spec

-----------------------------------------------------------------------------
(* The ticker.                                                              *)

(* The ticks of a queue that are later than b and than all before them.     *)
NewTicks(q, b) ==
    {q[i] : i \in {j \in DOMAIN q : q[j] > b /\ \A k \in 1..j - 1 : q[k] < q[j]}}

LEMMA NewTicksOf ==
  ASSUME NEW q \in Seq(Int), NEW b \in Int, NEW x
  PROVE  x \in NewTicks(q, b) <=>
             \E j \in 1..Len(q) : x = q[j] /\ q[j] > b /\ \A k \in 1..j - 1 : q[k] < q[j]
BY DEF NewTicks

LEMMA AppendNew ==
  ASSUME NEW q \in Seq(Int), NEW b \in Int, NEW t \in Int
  PROVE  NewTicks(Append(q, t), b) =
             NewTicks(q, b) \cup {x \in {t} : x > b /\ \A k \in 1..Len(q) : q[k] < x}
<1> DEFINE r == Append(q, t)
<1>1. /\ r \in Seq(Int) /\ Len(q) \in Nat /\ Len(r) = Len(q) + 1 /\ r[Len(q) + 1] = t
      /\ \A k \in 1..Len(q) : r[k] = q[k] /\ q[k] \in Int
    OBVIOUS
<1> HIDE DEF r
<1>2. ASSUME NEW x
      PROVE  x \in NewTicks(r, b) <=>
                 \/ x \in NewTicks(q, b)
                 \/ x = t /\ t > b /\ \A k \in 1..Len(q) : q[k] < t
  <2>1. x \in NewTicks(r, b) <=>
            \E j \in 1..Len(r) :
                x = r[j] /\ r[j] > b /\ \A k \in 1..j - 1 : r[k] < r[j]
    <3>1. r \in Seq(Int)
        BY <1>1
    <3>2. QED
        BY <3>1, NewTicksOf
  <2>2. ASSUME NEW j \in 1..Len(q)
        PROVE  /\ r[j] = q[j]
               /\ (\A k \in 1..j - 1 : r[k] < r[j]) <=> \A k \in 1..j - 1 : q[k] < q[j]
    <3>1. r[j] = q[j] /\ \A k \in 1..j - 1 : r[k] = q[k]
        BY <1>1
    <3>2. QED
        BY <3>1
  <2>3. (\A k \in 1..Len(q) : r[k] < t) <=> \A k \in 1..Len(q) : q[k] < t
      BY <1>1
  <2>4. /\ 1..(Len(q) + 1) - 1 = 1..Len(q)
        /\ \A j : j \in 1..Len(r) <=> j \in 1..Len(q) \/ j = Len(q) + 1
      BY <1>1
  <2>5. x \in NewTicks(q, b) <=>
            \E j \in 1..Len(q) : x = q[j] /\ q[j] > b /\ \A k \in 1..j - 1 : q[k] < q[j]
      BY NewTicksOf
  <2>6. x \in NewTicks(r, b) <=>
            \/ \E j \in 1..Len(q) :
                   x = r[j] /\ r[j] > b /\ \A k \in 1..j - 1 : r[k] < r[j]
            \/ x = t /\ t > b /\ \A k \in 1..Len(q) : r[k] < t
      BY <1>1, <2>1, <2>4
  <2>7. QED
      BY <2>2, <2>3, <2>5, <2>6
<1>3. QED
    BY <1>2 DEF r

LEMMA TailNew ==
  ASSUME NEW q \in Seq(Int), q # <<>>, NEW b \in Int
  PROVE  /\ Head(q) <= b => NewTicks(q, b) = NewTicks(Tail(q), b)
         /\ Head(q) > b  => NewTicks(q, b) = {Head(q)} \cup NewTicks(Tail(q), Head(q))
<1> DEFINE r == Tail(q)
           h == Head(q)
<1>1. /\ r \in Seq(Int) /\ Len(q) \in Nat /\ Len(q) >= 1 /\ Len(r) = Len(q) - 1
      /\ h = q[1] /\ h \in Int
      /\ \A k \in 1..Len(q) : q[k] \in Int
      /\ \A k \in 1..Len(r) : r[k] = q[k + 1]
    OBVIOUS
<1> HIDE DEF r, h
<1>2. ASSUME NEW c \in Int, (h <= b /\ c = b) \/ (h > b /\ c = h), NEW x
      PROVE  x \in NewTicks(q, b) <=> x \in NewTicks(r, c) \/ (h > b /\ x = h)
  <2>1. ASSUME NEW i \in 1..Len(r)
        PROVE  /\ i + 1 \in 1..Len(q) /\ r[i] = q[i + 1]
               /\ (r[i] > c /\ \A k \in 1..i - 1 : r[k] < r[i]) <=>
                      (q[i + 1] > b /\ \A k \in 1..(i + 1) - 1 : q[k] < q[i + 1])
    <3>1. i + 1 \in 1..Len(q) /\ r[i] = q[i + 1] /\ r[i] \in Int
        BY <1>1
    <3>2. (r[i] > c) <=> (r[i] > b /\ r[i] > h) \/ (r[i] > b /\ h <= b)
        BY <1>1, <1>2, <3>1
    <3>3. ASSUME \A k \in 1..(i + 1) - 1 : q[k] < q[i + 1]
          PROVE  r[i] > h /\ \A k \in 1..i - 1 : r[k] < r[i]
      <4>1. r[i] > h
          BY <1>1, <3>1, <3>3
      <4>2. ASSUME NEW k \in 1..i - 1 PROVE r[k] < r[i]
        <5>1. k + 1 \in 1..(i + 1) - 1 /\ k \in 1..Len(r)
            BY <1>1
        <5>2. r[k] = q[k + 1]
            BY <1>1, <5>1
        <5>3. QED
            BY <3>1, <3>3, <5>1, <5>2
      <4>3. QED
          BY <4>1, <4>2
    <3>4. ASSUME r[i] > h, \A k \in 1..i - 1 : r[k] < r[i],
                 NEW k \in 1..(i + 1) - 1
          PROVE  q[k] < q[i + 1]
      <4>1. CASE k = 1
          BY <1>1, <3>1, <3>4, <4>1
      <4>2. CASE k # 1
        <5>1. k - 1 \in 1..i - 1 /\ k - 1 \in 1..Len(r) /\ r[k - 1] = q[k]
            BY <1>1, <4>2
        <5>2. QED
            BY <3>1, <3>4, <5>1
      <4>3. QED
          BY <4>1, <4>2
    <3>5. r[i] > c => r[i] > h /\ r[i] > b
        BY <1>1, <1>2, <3>1
    <3>6. r[i] > h /\ r[i] > b => r[i] > c
        BY <1>1, <1>2, <3>1
    <3>7. QED
        BY <3>1, <3>3, <3>4, <3>5, <3>6
  <2>2. ASSUME NEW j \in 1..Len(q) PROVE j = 1 \/ (j - 1 \in 1..Len(r) /\ j = (j - 1) + 1)
      BY <1>1
  <2>3. x \in NewTicks(r, c) <=>
            \E i \in 1..Len(r) : x = r[i] /\ r[i] > c /\ \A k \in 1..i - 1 : r[k] < r[i]
      BY <1>1, NewTicksOf
  <2>4. x \in NewTicks(q, b) <=>
            \E j \in 1..Len(q) : x = q[j] /\ q[j] > b /\ \A k \in 1..j - 1 : q[k] < q[j]
      BY <1>1, NewTicksOf
  <2>5. ASSUME x \in NewTicks(r, c) PROVE x \in NewTicks(q, b)
      BY <2>1, <2>3, <2>4, <2>5
  <2>6. ASSUME h > b, x = h PROVE x \in NewTicks(q, b)
      BY <1>1, <2>4, <2>6
  <2>7. ASSUME x \in NewTicks(q, b) PROVE x \in NewTicks(r, c) \/ (h > b /\ x = h)
      BY <1>1, <2>1, <2>2, <2>3, <2>4, <2>7
  <2>8. QED
      BY <2>5, <2>6, <2>7
<1>3. ASSUME h <= b PROVE NewTicks(q, b) = NewTicks(r, b)
  <2>1. ASSUME NEW x PROVE x \in NewTicks(q, b) <=> x \in NewTicks(r, b)
      BY <1>1, <1>2, <1>3
  <2>2. QED
      BY <2>1
<1>4. ASSUME h > b PROVE NewTicks(q, b) = {h} \cup NewTicks(r, h)
  <2>1. ASSUME NEW x PROVE x \in NewTicks(q, b) <=> x \in NewTicks(r, h) \/ x = h
      BY <1>1, <1>2, <1>4
  <2>2. QED
      BY <2>1
<1>5. QED
    BY <1>1, <1>3, <1>4 DEF r, h

(* What a step is to the ticker.                                            *)
LEMMA StepOfTicker ==
  ASSUME [Next]_allVars, TickerTypeOK
  PROVE  /\ ctxDone' \in BOOLEAN
         /\ \/ TakeTock /\ taken' = taken \cup ({Head(tockChan)} \ {0})
            \/ /\ taken' = taken
               /\ \/ UNCHANGED tickerVars \/ StartTicker \/ StopTicker
                  \/ \E t \in Ticks : ScheduleTimeout(t)
                  \/ TickerNext
<1> USE DEF lifeVars, receiverVars
<1>1. ctxDone \in BOOLEAN /\ 1 \in Ticks
    BY TickerAssumption DEF TickerTypeOK, Ticks
<1>2. CASE UNCHANGED allVars
    BY <1>1, <1>2 DEF allVars
<1>3. CASE Start \/ StartStep
    BY <1>1, <1>3 DEF Start, StartStep, OnStartTicker, StartFails, CheckDoubleSigningRisk,
                      ScheduleRound0, WatchConsensus
<1>4. ASSUME NEW p \in Services, StopStep(p) \/ WatcherWakes(p)
      PROVE  /\ ctxDone' = ctxDone /\ taken' = taken
             /\ UNCHANGED tickerVars \/ StopTicker
    BY <1>4 DEF StopStep, CasStopped, OnStopTicker, OnStopConsensus, CloseQuit, WatcherWakes
<1>5. CASE ReceiverTakesTock
    BY <1>1, <1>5 DEF ReceiverTakesTock
<1>6. CASE \/ (\E t \in Ticks : ReceiverSchedules(t)) \/ ReceiverEnds \/ Cancel
           \/ TickerStep(TickerNext)
    BY <1>1, <1>6 DEF ReceiverSchedules, ReceiverEnds, Cancel, TickerStep
<1>7. QED
    BY <1>1, <1>2, <1>3, <1>4, <1>5, <1>6 DEF Next

LEMMA InitTocks == Init => TocksOK
<1> SUFFICES ASSUME Init PROVE TocksOK
    OBVIOUS
<1>1. TickerTypeOK
  <2>1. tickChan = <<>> /\ tockChan = <<>> /\ sending \in {0, 1}
        /\ ctxDone = FALSE /\ ti = 0 /\ timerRuns = FALSE /\ timerC = FALSE
        /\ timeoutRoutine = FALSE /\ tocks = [t \in Ticks \cup {0} |-> 0] /\ accepted = {}
      BY DEF Init, TickerInit
  <2>2. /\ tickChan \in Seq(Ticks) /\ tockChan \in Seq(Ticks \cup {0})
        /\ Len(tickChan) = 0 /\ Len(tockChan) = 0
      BY <2>1
  <2>3. TickTockBufferSize \in Nat
      BY TickerAssumption
  <2>4. tocks \in [Ticks \cup {0} -> Nat]
      BY <2>1
  <2>5. QED
      BY <2>1, <2>2, <2>3, <2>4 DEF TickerTypeOK
<1>2. tocks = [t \in Ticks \cup {0} |-> 0] /\ tockChan = <<>> /\ ti = 0
      /\ accepted = {} /\ taken = {}
    BY DEF Init, TickerInit
<1>3. QED
    BY <1>1, <1>2 DEF TocksOK

LEMMA NextTocks == TocksOK /\ [Next]_allVars => TocksOK'
<1> SUFFICES ASSUME TocksOK, [Next]_allVars PROVE TocksOK'
    OBVIOUS
<1> USE TickerAssumption
<1>1. /\ TickerTypeOK /\ ctxDone' \in BOOLEAN
      /\ ti # 0 => ti \in accepted
      /\ \A t \in accepted : t <= ti
      /\ \A t \in Ticks : tocks[t] > 0 => t \in accepted
      /\ \A i \in 1..Len(tockChan) : tockChan[i] # 0 => tockChan[i] \in accepted
      /\ taken \subseteq accepted
    BY StepOfTicker DEF TocksOK
<1>2. /\ tickChan \in Seq(Ticks) /\ tockChan \in Seq(Ticks \cup {0})
      /\ Len(tickChan) <= TickTockBufferSize /\ Len(tockChan) <= TickTockBufferSize
      /\ tocks \in [Ticks \cup {0} -> Nat] /\ ti \in Ticks \cup {0} /\ sending \in Nat
      /\ accepted \subseteq Ticks /\ timerRuns \in BOOLEAN /\ timerC \in BOOLEAN
      /\ timeoutRoutine \in BOOLEAN /\ Ticks \subseteq Nat \ {0}
    BY <1>1 DEF TickerTypeOK, Ticks
<1>3. CASE TakeTock /\ taken' = taken \cup ({Head(tockChan)} \ {0})
  <2>1. /\ tockChan # <<>> /\ tockChan' = Tail(tockChan)
        /\ UNCHANGED <<tickChan, ti, timerRuns, sending, timerC, timeoutRoutine, tocks,
                       accepted>>
      BY <1>3 DEF TakeTock
  <2>2. /\ tockChan' \in Seq(Ticks \cup {0}) /\ Len(tockChan') = Len(tockChan) - 1
        /\ Len(tockChan) \in Nat /\ 1 \in 1..Len(tockChan)
        /\ Head(tockChan) = tockChan[1]
        /\ \A i \in 1..Len(tockChan') : /\ tockChan'[i] = tockChan[i + 1]
                                        /\ i + 1 \in 1..Len(tockChan)
      BY <1>2, <2>1
  <2>3. \A i \in 1..Len(tockChan') : tockChan'[i] # 0 => tockChan'[i] \in accepted'
      BY <1>1, <2>1, <2>2
  <2>4. taken' \subseteq accepted'
      BY <1>1, <1>3, <2>1, <2>2
  <2>5. TickerTypeOK'
      BY <1>1, <1>2, <2>1, <2>2 DEF TickerTypeOK
  <2>6. QED
      BY <1>1, <2>1, <2>3, <2>4, <2>5 DEF TocksOK
<1>4. ASSUME taken' = taken,
             UNCHANGED <<tickChan, ti, tocks, tockChan, accepted>>,
             timerRuns' \in BOOLEAN, timerC' \in BOOLEAN, timeoutRoutine' \in BOOLEAN,
             sending' \in Nat
      PROVE  TocksOK'
    BY <1>1, <1>4 DEF TocksOK, TickerTypeOK
<1>5. CASE taken' = taken /\ (UNCHANGED tickerVars \/ StartTicker \/ StopTicker)
  <2>1. Drained \in BOOLEAN
      BY <1>2 DEF Drained
  <2>2. /\ UNCHANGED <<tickChan, ti, tocks, tockChan, accepted, sending>>
        /\ timerRuns' \in {timerRuns, FALSE} /\ timerC' \in {timerC, Drained}
        /\ timeoutRoutine' \in {timeoutRoutine, TRUE}
      BY <1>5 DEF tickerVars, StartTicker, StopTicker
  <2>3. QED
      BY <1>2, <1>4, <1>5, <2>1, <2>2
<1>6. CASE taken' = taken /\ (Expire \/ SendTime \/ TimeoutRoutineEnds)
  <2>1. /\ UNCHANGED <<tickChan, ti, tocks, tockChan, accepted>>
        /\ timerRuns' \in {timerRuns, FALSE} /\ timerC' \in {timerC, TRUE}
        /\ timeoutRoutine' \in {timeoutRoutine, FALSE}
        /\ \/ sending' \in {sending, sending + 1}
           \/ sending > 0 /\ sending' = sending - 1
      BY <1>6 DEF Expire, SendTime, TimeoutRoutineEnds
  <2>2. sending' \in Nat
      BY <1>2, <2>1
  <2>3. QED
      BY <1>2, <1>4, <1>6, <2>1, <2>2
<1>7. ASSUME taken' = taken, NEW t \in Ticks, ScheduleTimeout(t) PROVE TocksOK'
  <2>1. /\ Len(tickChan) < TickTockBufferSize /\ tickChan' = Append(tickChan, t)
        /\ UNCHANGED <<ti, timerRuns, sending, timerC, timeoutRoutine, tocks, tockChan,
                       accepted>>
      BY <1>7 DEF ScheduleTimeout
  <2>2. tickChan' \in Seq(Ticks) /\ Len(tickChan') <= TickTockBufferSize
      BY <1>2, <2>1
  <2>3. TickerTypeOK'
      BY <1>1, <1>2, <2>1, <2>2 DEF TickerTypeOK
  <2>4. QED
      BY <1>1, <1>7, <2>1, <2>3 DEF TocksOK
<1>8. CASE taken' = taken /\ ReceiveTick
  <2>1. /\ tickChan # <<>> /\ tickChan' = Tail(tickChan)
        /\ UNCHANGED <<sending, timeoutRoutine, tocks, tockChan>>
        /\ \/ UNCHANGED <<ti, accepted, timerRuns, timerC>>
           \/ /\ ~(Head(tickChan) <= ti) /\ ti' = Head(tickChan)
              /\ accepted' = accepted \cup {Head(tickChan)}
              /\ timerRuns' = TRUE /\ timerC' = Drained
      BY <1>8 DEF ReceiveTick
  <2>2. /\ tickChan' \in Seq(Ticks) /\ Len(tickChan') <= TickTockBufferSize
        /\ Head(tickChan) \in Ticks
      BY <1>2, <2>1
  <2>3. /\ ti' \in Ticks \cup {0} /\ accepted' \subseteq Ticks
        /\ timerRuns' \in BOOLEAN /\ timerC' \in BOOLEAN
        /\ accepted \subseteq accepted'
      BY <1>2, <2>1, <2>2 DEF Drained
  <2>4. TickerTypeOK'
      BY <1>1, <1>2, <2>1, <2>2, <2>3 DEF TickerTypeOK
  <2>5. (ti' # 0 => ti' \in accepted') /\ \A t \in accepted' : t <= ti'
    <3>1. ti \in Int /\ Head(tickChan) \in Int /\ \A t \in accepted : t \in Int
      <4>1. \A u \in Ticks \cup {0} : u \in Int
          BY DEF Ticks
      <4>2. ti \in Ticks \cup {0} /\ accepted \subseteq Ticks /\ Head(tickChan) \in Ticks
          BY <1>2, <2>2
      <4>3. QED
          BY <4>1, <4>2, Zenon
    <3>2. QED
        BY <1>1, <2>1, <3>1
  <2>6. QED
      BY <1>1, <1>8, <2>1, <2>3, <2>4, <2>5 DEF TocksOK
<1>9. CASE taken' = taken /\ ReceiveTimer
  <2>1. /\ timerC' = FALSE /\ tocks' = [tocks EXCEPT ![ti] = @ + 1]
        /\ UNCHANGED <<tickChan, ti, timerRuns, sending, timeoutRoutine, tockChan, accepted>>
      BY <1>9 DEF ReceiveTimer
  <2>2. tocks' \in [Ticks \cup {0} -> Nat]
      BY <1>2, <2>1
  <2>3. \A t \in Ticks : tocks'[t] > 0 => t \in accepted'
      BY <1>1, <1>2, <2>1
  <2>4. TickerTypeOK'
      BY <1>1, <1>2, <2>1, <2>2 DEF TickerTypeOK
  <2>5. QED
      BY <1>1, <1>9, <2>1, <2>3, <2>4 DEF TocksOK
<1>10. ASSUME taken' = taken, NEW t \in Ticks \cup {0}, SendTock(t) PROVE TocksOK'
  <2>1. /\ tocks[t] > 0 /\ tocks' = [tocks EXCEPT ![t] = @ - 1]
        /\ \/ /\ Len(tockChan) < TickTockBufferSize
              /\ tockChan' = Append(tockChan, t)
           \/ UNCHANGED tockChan
        /\ UNCHANGED <<tickChan, ti, timerRuns, sending, timerC, timeoutRoutine, accepted>>
      BY <1>10 DEF SendTock
  <2>2. tocks' \in [Ticks \cup {0} -> Nat] /\ \A u \in Ticks : tocks'[u] > 0 => tocks[u] > 0
      BY <1>2, <2>1
  <2>3. tockChan' \in Seq(Ticks \cup {0}) /\ Len(tockChan') <= TickTockBufferSize
    <3>1. CASE Len(tockChan) < TickTockBufferSize /\ tockChan' = Append(tockChan, t)
      <4>1. /\ tockChan' \in Seq(Ticks \cup {0}) /\ Len(tockChan') = Len(tockChan) + 1
            /\ Len(tockChan) \in Nat
          BY <1>2, <3>1
      <4>2. QED
          BY <3>1, <4>1
    <3>2. QED
        BY <1>2, <2>1, <3>1
  <2>4. \A i \in 1..Len(tockChan') : tockChan'[i] # 0 => tockChan'[i] \in accepted
    <3>1. t # 0 => t \in accepted
        BY <1>1, <2>1
    <3>2. \A i \in 1..Len(tockChan') :
              tockChan'[i] = t \/ (i \in 1..Len(tockChan) /\ tockChan'[i] = tockChan[i])
        BY <1>2, <2>1
    <3>3. QED
        BY <1>1, <3>1, <3>2
  <2>5. TickerTypeOK'
      BY <1>1, <1>2, <2>1, <2>2, <2>3 DEF TickerTypeOK
  <2>6. QED
      BY <1>1, <1>10, <2>1, <2>2, <2>4, <2>5 DEF TocksOK
<1>11. QED
  <2>1. \/ TakeTock /\ taken' = taken \cup ({Head(tockChan)} \ {0})
        \/ /\ taken' = taken
           /\ \/ UNCHANGED tickerVars \/ StartTicker \/ StopTicker
              \/ \E t \in Ticks : ScheduleTimeout(t)
              \/ TickerNext
      BY <1>1, StepOfTicker
  <2>2. CASE taken' = taken /\ TickerNext
      BY <1>6, <1>8, <1>9, <1>10, <2>2 DEF TickerNext, Fires
  <2>3. QED
      BY <1>3, <1>5, <1>7, <2>1, <2>2

(* The ticks that count for Abstract.                                       *)
Counts == accepted \cup ToBeAccepted

(* Only a tick that is put into tickChan, later than all before it, is new  *)
(* to Abstract: timeoutRoutine just moves ticks from ToBeAccepted.          *)
LEMMA CountsStep ==
  ASSUME TocksOK, [Next]_allVars
  PROVE  \/ Counts' = Counts
         \/ /\ taken' = taken
            /\ \E t \in Ticks : (\A u \in Counts : u < t) /\ Counts' = Counts \cup {t}
<1> USE TickerAssumption
<1>1. /\ tickChan \in Seq(Int) /\ tickChan \in Seq(Ticks) /\ ti \in Int
      /\ accepted \subseteq Int /\ \A u \in accepted : u <= ti
  <2>1. /\ tickChan \in Seq(Ticks) /\ ti \in Ticks \cup {0} /\ accepted \subseteq Ticks
        /\ \A u \in accepted : u <= ti
      BY DEF TocksOK, TickerTypeOK
  <2>2. Ticks \subseteq Int /\ 0 \in Int
      BY DEF Ticks
  <2>3. tickChan \in Seq(Int)
    <3>1. /\ tickChan = [i \in 1..Len(tickChan) |-> tickChan[i]] /\ Len(tickChan) \in Nat
          /\ \A i \in 1..Len(tickChan) : tickChan[i] \in Ticks
        BY <2>1
    <3>2. \A i \in 1..Len(tickChan) : tickChan[i] \in Int
        BY <2>2, <3>1, Zenon
    <3>3. QED
        BY <3>1, <3>2
  <2>4. ti \in Int /\ accepted \subseteq Int
      BY <2>1, <2>2, Zenon
  <2>5. QED
      BY <2>1, <2>3, <2>4, Zenon
<1>2. ToBeAccepted = NewTicks(tickChan, ti) /\ ToBeAccepted' = NewTicks(tickChan', ti')
    BY DEF ToBeAccepted, NewTicks
<1>3. CASE UNCHANGED <<tickChan, ti, accepted>>
    BY <1>2, <1>3 DEF Counts
<1>4. ASSUME NEW t \in Ticks, ScheduleTimeout(t), taken' = taken
      PROVE  \/ Counts' = Counts
             \/ (\A u \in Counts : u < t) /\ Counts' = Counts \cup {t}
  <2>1. tickChan' = Append(tickChan, t) /\ UNCHANGED <<ti, accepted>> /\ t \in Int
      BY <1>4 DEF ScheduleTimeout, Ticks
  <2>2. ToBeAccepted' = ToBeAccepted \cup
            {x \in {t} : x > ti /\ \A k \in 1..Len(tickChan) : tickChan[k] < x}
      BY <1>1, <1>2, <2>1, AppendNew
  <2>3. CASE t > ti /\ \A k \in 1..Len(tickChan) : tickChan[k] < t
    <3>1. \A u \in accepted : u < t
        BY <1>1, <2>1, <2>3
    <3>2. \A u \in ToBeAccepted : u < t
        BY <2>3 DEF ToBeAccepted
    <3>3. ToBeAccepted' = ToBeAccepted \cup {t}
        BY <2>2, <2>3
    <3>4. QED
        BY <2>1, <3>1, <3>2, <3>3 DEF Counts
  <2>4. CASE ~(t > ti /\ \A k \in 1..Len(tickChan) : tickChan[k] < t)
    <3>1. ToBeAccepted' = ToBeAccepted
        BY <2>2, <2>4
    <3>2. QED
        BY <2>1, <3>1 DEF Counts
  <2>5. QED
      BY <2>3, <2>4
<1>5. ASSUME ReceiveTick PROVE Counts' = Counts
  <2>1. /\ tickChan # <<>> /\ tickChan' = Tail(tickChan) /\ Head(tickChan) \in Int
        /\ \/ Head(tickChan) <= ti /\ UNCHANGED <<ti, accepted>>
           \/ /\ Head(tickChan) > ti /\ ti' = Head(tickChan)
              /\ accepted' = accepted \cup {Head(tickChan)}
    <3>1. /\ tickChan # <<>> /\ tickChan' = Tail(tickChan)
          /\ IF Head(tickChan) <= ti THEN UNCHANGED <<ti, accepted>>
             ELSE ti' = Head(tickChan) /\ accepted' = accepted \cup {Head(tickChan)}
        BY <1>5 DEF ReceiveTick
    <3>2. Head(tickChan) \in Int
        BY <1>1, <3>1
    <3>3. QED
        BY <1>1, <3>1, <3>2
  <2>2. /\ Head(tickChan) <= ti
               => NewTicks(tickChan, ti) = NewTicks(Tail(tickChan), ti)
        /\ Head(tickChan) > ti
               => NewTicks(tickChan, ti)
                      = {Head(tickChan)} \cup NewTicks(Tail(tickChan), Head(tickChan))
      BY <1>1, <2>1, TailNew
  <2>3. CASE Head(tickChan) <= ti
    <3>1. UNCHANGED <<ti, accepted>>
        BY <1>1, <2>1, <2>3
    <3>2. ToBeAccepted' = ToBeAccepted
        BY <1>2, <2>1, <2>2, <2>3, <3>1
    <3>3. QED
        BY <3>1, <3>2 DEF Counts
  <2>4. CASE Head(tickChan) > ti
    <3>1. ti' = Head(tickChan) /\ accepted' = accepted \cup {Head(tickChan)}
        BY <1>1, <2>1, <2>4
    <3>2. ToBeAccepted = {Head(tickChan)} \cup ToBeAccepted'
        BY <1>2, <2>1, <2>2, <2>4, <3>1
    <3>3. QED
        BY <3>1, <3>2 DEF Counts
  <2>5. QED
      BY <1>1, <2>1, <2>3, <2>4
<1>6. QED
  <2>1. \/ TakeTock
        \/ /\ taken' = taken
           /\ \/ UNCHANGED tickerVars \/ StartTicker \/ StopTicker
              \/ \E t \in Ticks : ScheduleTimeout(t)
              \/ TickerNext
      BY StepOfTicker DEF TocksOK
  <2>2. CASE TakeTock
      BY <1>3, <2>2 DEF TakeTock
  <2>3. CASE taken' = taken /\ (UNCHANGED tickerVars \/ StartTicker \/ StopTicker)
      BY <1>3, <2>3 DEF tickerVars, StartTicker, StopTicker
  <2>4. CASE TickerNext
      BY <1>3, <1>5, <2>4 DEF TickerNext, Fires, Expire, SendTime, ReceiveTimer, SendTock,
                             TimeoutRoutineEnds
  <2>5. QED
      BY <1>4, <2>1, <2>2, <2>3, <2>4

(* The receiver takes only tocks that were accepted: with the first tock of *)
(* a new ticker, and those that old values of the timer leave, it takes     *)
(* nothing that Abstract could not fire.                                    *)
LEMMA TakenStep ==
  ASSUME TocksOK, [Next]_allVars
  PROVE  \/ taken' = taken
         \/ Counts' = Counts /\ \E t \in Ticks \cap Counts : taken' = taken \cup {t}
<1>1. CASE TakeTock /\ taken' = taken \cup ({Head(tockChan)} \ {0})
  <2>1. /\ tockChan # <<>> /\ tockChan \in Seq(Ticks \cup {0}) /\ accepted \subseteq Ticks
        /\ \A i \in 1..Len(tockChan) : tockChan[i] # 0 => tockChan[i] \in accepted
        /\ UNCHANGED <<tickChan, ti, accepted>>
      BY <1>1 DEF TakeTock, TocksOK, TickerTypeOK
  <2>2. Head(tockChan) = tockChan[1] /\ 1 \in 1..Len(tockChan)
      BY <2>1
  <2>3. Head(tockChan) = 0 \/ Head(tockChan) \in Ticks \cap Counts
      BY <2>1, <2>2 DEF Counts
  <2>4. Counts' = Counts
      BY <2>1 DEF Counts, ToBeAccepted
  <2>5. CASE Head(tockChan) = 0
      BY <1>1, <2>5
  <2>6. CASE Head(tockChan) # 0
      BY <1>1, <2>3, <2>4, <2>6
  <2>7. QED
      BY <2>5, <2>6
<1>2. QED
    BY <1>1, StepOfTicker DEF TocksOK

(* A tick counts when it is put into tickChan, if it is later than all      *)
(* before it; what reaches receiveRoutine was a tick that counts.  So       *)
(* handleTimeout is called with nothing that was not scheduled, though      *)
(* timers are stopped and set again, and their values come late.            *)
THEOREM TickerImplementsTimeouts == Spec => ImplementsTimeouts
<1>1. Init => Abstract!Init
  <2> SUFFICES ASSUME Init PROVE Abstract!Init
      OBVIOUS
  <2>1. accepted = {} /\ taken = {} /\ tickChan = <<>>
      BY DEF Init, TickerInit
  <2>2. ToBeAccepted = {}
      BY <2>1 DEF ToBeAccepted
  <2>3. QED
      BY <2>1, <2>2 DEF Abstract!Init
<1>2. TocksOK /\ [Next]_allVars => [Abstract!Next]_<<Counts, taken>>
  <2> SUFFICES ASSUME TocksOK, [Next]_allVars
               PROVE  Abstract!Next \/ UNCHANGED <<Counts, taken>>
      OBVIOUS
  <2>1. ASSUME NEW t \in Ticks, taken' = taken, \A u \in Counts : u < t,
               Counts' = Counts \cup {t}
        PROVE  Abstract!Next
      BY <2>1 DEF Abstract!Next, Abstract!ScheduleTimeout, Counts
  <2>2. ASSUME NEW t \in Ticks \cap Counts, Counts' = Counts, taken' = taken \cup {t}
        PROVE  Abstract!Next
      BY <2>2 DEF Abstract!Next, Abstract!Fire, Counts
  <2>3. QED
      BY <2>1, <2>2, CountsStep, TakenStep
<1>3. QED
    BY <1>1, <1>2, InitTocks, NextTocks, PTL
    DEF Spec, ImplementsTimeouts, Abstract!Spec, Counts
=============================================================================

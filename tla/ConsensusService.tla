-------------------------- MODULE ConsensusService --------------------------
(***************************************************************************)
(* The life of a node's consensus: BaseService starts and stops the        *)
(* ConsensusState and, inside its OnStart and OnStop, the TimeoutTicker.   *)
(* Each of the two has a goroutine that stops the service when the context *)
(* is done, so the ticker is stopped from two sides.  receiveRoutine is    *)
(* here only a user of the ticker that holds the mutex of the round state. *)
(*                                                                         *)
(* The code calls Stop nowhere but there.  Start and Stop of one service   *)
(* are then never concurrent, as BaseService asks, so the two atomic        *)
(* accesses of Start, and those of Stop, are one step each; a Stop of the   *)
(* ticker may meet the other Stop of it.                                    *)
(***************************************************************************)
EXTENDS TimeoutTicker

CONSTANT MaxStarts      \* bound: how often the owner calls Start

ASSUME ServiceAssumption == MaxStarts \in Nat

Services == {"consensus", "ticker"}

VARIABLES
    started, stopped,   \* the flags of each service
    quits,              \* how often quit of a service was closed
    onStops,            \* history: how often its OnStop was called
    start,              \* where the owner is in Start of the consensus state
    stop,               \* where the goroutine of each service is in Stop
    watches,            \* the services whose goroutine waits
    starts,             \* how often the owner has called Start
    receiver,           \* receiveRoutine: none, running or ended
    wants,              \* the tick it waits to send with the mutex held, or 0
    taken               \* history: the ticks whose tock it has taken

lifeVars == <<started, stopped, quits, onStops, start, stop, watches, starts>>
receiverVars == <<receiver, wants, taken>>
allVars == <<ctxDone, tickerVars, lifeVars, receiverVars>>

Init ==
    /\ ctxDone = FALSE
    /\ TickerInit
    /\ started = [s \in Services |-> FALSE]
    /\ stopped = [s \in Services |-> FALSE]
    /\ quits = [s \in Services |-> 0]
    /\ onStops = [s \in Services |-> 0]
    /\ start = "idle"
    /\ stop = [p \in Services |-> <<"idle">>]
    /\ watches = {}
    /\ starts = 0
    /\ receiver = "none"
    /\ wants = 0
    /\ taken = {}

MutexFree == wants = 0

-----------------------------------------------------------------------------
(* Start of the consensus state, by the owner.                              *)

(* The flags of Start: runNode calls it once; it may be called again after  *)
(* an error, when both flags are unset.                                     *)
Start ==
    /\ start = "idle" /\ starts < MaxStarts
    /\ ~started["consensus"] /\ ~stopped["consensus"]
    /\ starts' = starts + 1
    /\ started' = [started EXCEPT !["consensus"] = TRUE]
    /\ start' = "onStart"
    /\ UNCHANGED <<ctxDone, tickerVars, receiverVars>>
    /\ UNCHANGED <<stopped, quits, onStops, stop, watches>>

(* An error of OnStart: the flag is set back.                               *)
StartFails ==
    /\ started' = [started EXCEPT !["consensus"] = FALSE]
    /\ start' = "idle"

(* OnStart starts the ticker, which may have been started before.           *)
OnStartTicker ==
    /\ start = "onStart"
    /\ IF started["ticker"] \/ stopped["ticker"]
       THEN StartFails /\ UNCHANGED <<tickerVars, watches>>
       ELSE /\ StartTicker
            /\ started' = [started EXCEPT !["ticker"] = TRUE]
            /\ watches' = watches \cup {"ticker"}
            /\ start' = "checkDoubleSigningRisk"
    /\ UNCHANGED <<ctxDone, receiverVars, stopped, quits, onStops, stop, starts>>

(* checkDoubleSigningRisk may find a signature of this validator; if not,   *)
(* receiveRoutine runs.                                                     *)
CheckDoubleSigningRisk ==
    /\ start = "checkDoubleSigningRisk"
    /\ \/ StartFails /\ UNCHANGED receiver
       \/ /\ receiver' = "running"
          /\ start' = "scheduleRound0"
          /\ UNCHANGED started
    /\ UNCHANGED <<ctxDone, tickerVars, wants, taken, stopped, quits, onStops, stop, watches, starts>>

(* The first tick, from the round state, and the goroutine that waits for   *)
(* the context.                                                             *)
ScheduleRound0 ==
    /\ start = "scheduleRound0"
    /\ MutexFree
    /\ ScheduleTimeout(1)
    /\ start' = "watch"
    /\ UNCHANGED <<ctxDone, receiverVars, started, stopped, quits, onStops, stop, watches, starts>>

WatchConsensus ==
    /\ start = "watch"
    /\ watches' = watches \cup {"consensus"}
    /\ start' = "idle"
    /\ UNCHANGED <<ctxDone, tickerVars, receiverVars, started, stopped, quits, onStops, stop, starts>>

-----------------------------------------------------------------------------
(* Stop of service s by p, the goroutine of service p.                      *)

StopGoes(p, at) == stop' = [stop EXCEPT ![p] = at]

(* Where a Stop of s returns to: that of the ticker inside OnStop of the    *)
(* consensus state goes on there.                                           *)
StopReturns(p, s) ==
    StopGoes(p, IF s = "ticker" /\ p # "ticker" THEN <<"closeQuit", "consensus">>
                ELSE <<"idle">>)

(* Mutant of CasStopped: the flag is set whatever it was.                   *)
CasStoppedStores(p, s) ==
    /\ stop[p] = <<"casStopped", s>>
    /\ IF ~started[s]
       THEN StopReturns(p, s) /\ UNCHANGED stopped
       ELSE /\ stopped' = [stopped EXCEPT ![s] = TRUE]
            /\ StopGoes(p, <<"onStop", s>>)
    /\ UNCHANGED <<ctxDone, tickerVars, receiverVars>>
    /\ UNCHANGED <<started, quits, onStops, start, watches, starts>>

CasStopped(p, s) ==
    /\ stop[p] = <<"casStopped", s>>
    /\ IF stopped[s] \/ ~started[s]
       THEN StopReturns(p, s) /\ UNCHANGED stopped
       ELSE /\ stopped' = [stopped EXCEPT ![s] = TRUE]
            /\ StopGoes(p, <<"onStop", s>>)
    /\ UNCHANGED <<ctxDone, tickerVars, receiverVars>>
    /\ UNCHANGED <<started, quits, onStops, start, watches, starts>>

(* OnStop of the ticker stops the timer.                                    *)
OnStopTicker(p) ==
    /\ stop[p] = <<"onStop", "ticker">>
    /\ StopTicker
    /\ onStops' = [onStops EXCEPT !["ticker"] = @ + 1]
    /\ StopGoes(p, <<"closeQuit", "ticker">>)
    /\ UNCHANGED <<ctxDone, receiverVars, started, stopped, quits, start, watches, starts>>

(* That of the consensus state reads the step under the mutex, waits at     *)
(* most TimeoutCommit, and stops the ticker if that is running.             *)
OnStopConsensus(p) ==
    /\ stop[p] = <<"onStop", "consensus">>
    /\ MutexFree
    /\ onStops' = [onStops EXCEPT !["consensus"] = @ + 1]
    /\ StopGoes(p, IF started["ticker"] /\ ~stopped["ticker"]
                   THEN <<"casStopped", "ticker">> ELSE <<"closeQuit", "consensus">>)
    /\ UNCHANGED <<ctxDone, tickerVars, receiverVars>>
    /\ UNCHANGED <<started, stopped, quits, start, watches, starts>>

CloseQuit(p, s) ==
    /\ stop[p] = <<"closeQuit", s>>
    /\ quits' = [quits EXCEPT ![s] = @ + 1]
    /\ StopReturns(p, s)
    /\ UNCHANGED <<ctxDone, tickerVars, receiverVars>>
    /\ UNCHANGED <<started, stopped, onStops, start, watches, starts>>

(* Mutant of WatcherWakes: it waits only for an explicit Stop.              *)
WatcherWakesOnQuit(s) ==
    /\ s \in watches /\ quits[s] > 0
    /\ watches' = watches \ {s}
    /\ UNCHANGED <<ctxDone, tickerVars, receiverVars>>
    /\ UNCHANGED <<started, stopped, quits, onStops, start, stop, starts>>

(* The goroutine of a service ends when the service has stopped; when the   *)
(* context is done it calls Stop, unless the service does not run.          *)
WatcherWakes(s) ==
    /\ s \in watches
    /\ \/ quits[s] > 0 /\ UNCHANGED stop
       \/ ctxDone /\ IF started[s] /\ ~stopped[s] THEN StopGoes(s, <<"casStopped", s>>)
                     ELSE UNCHANGED stop
    /\ watches' = watches \ {s}
    /\ UNCHANGED <<ctxDone, tickerVars, receiverVars>>
    /\ UNCHANGED <<started, stopped, quits, onStops, start, starts>>

-----------------------------------------------------------------------------
(* receiveRoutine as a user of the ticker, and the context.                 *)

ReceiverTakesTock ==
    /\ receiver = "running" /\ wants = 0
    /\ TakeTock
    /\ taken' = taken \cup ({Head(tockChan)} \ {0})
    /\ UNCHANGED <<ctxDone, lifeVars, receiver, wants>>

(* A handler, with the mutex, schedules a timeout, at once if it can.       *)
ReceiverSchedules(t) ==
    /\ receiver = "running" /\ wants \in {0, t}
    /\ \/ ScheduleTimeout(t) /\ wants' = 0
       \/ /\ Len(tickChan) = TickTockBufferSize
          /\ wants = 0 /\ wants' = t
          /\ UNCHANGED tickerVars
    /\ UNCHANGED <<ctxDone, lifeVars, receiver, taken>>

(* The context or a panic ends it.                                          *)
ReceiverEnds ==
    /\ receiver = "running" /\ wants = 0
    /\ receiver' = "ended"
    /\ UNCHANGED <<ctxDone, tickerVars, lifeVars, wants, taken>>

Cancel ==
    /\ ~ctxDone /\ ctxDone' = TRUE
    /\ UNCHANGED <<tickerVars, lifeVars, receiverVars>>

StartStep ==
    OnStartTicker \/ CheckDoubleSigningRisk \/ ScheduleRound0 \/ WatchConsensus

StopStep(p) ==
    \/ OnStopTicker(p) \/ OnStopConsensus(p)
    \/ \E s \in Services : CasStopped(p, s) \/ CloseQuit(p, s)

TickerStep(A) == A /\ UNCHANGED <<ctxDone, lifeVars, receiverVars>>

Next ==
    \/ Start \/ StartStep
    \/ \E p \in Services : StopStep(p)
    \/ \E s \in Services : WatcherWakes(s)
    \/ ReceiverTakesTock \/ \E t \in Ticks : ReceiverSchedules(t)
    \/ ReceiverEnds \/ Cancel
    \/ TickerStep(TickerNext)

(* The scheduler and the runtime serve every goroutine, timer and channel;  *)
(* the select of receiveRoutine takes a tock, and sees the context done, if *)
(* it can again and again.  Nobody need start the node, cancel it or        *)
(* schedule a timeout.                                                      *)
Fairness ==
    /\ WF_allVars(StartStep)
    /\ WF_allVars(\E p \in Services : StopStep(p) \/ WatcherWakes(p))
    /\ WF_allVars(TickerStep(ReceiveTick)) /\ WF_allVars(TickerStep(Fires))
    /\ SF_allVars(ReceiverTakesTock) /\ SF_allVars(ctxDone /\ ReceiverEnds)
    /\ WF_allVars(wants # 0 /\ ReceiverSchedules(wants))

Spec == Init /\ [][Next]_allVars /\ Fairness

-----------------------------------------------------------------------------

(* Whatever meets, OnStop of a service is called and its quit channel       *)
(* closed at most once (the second close panics), after it was started.     *)
StopsOnce ==
    \A s \in Services :
        /\ quits[s] <= onStops[s] /\ onStops[s] <= 1
        /\ onStops[s] = 1 => started[s]

(* The ticker is what the consensus state machine takes it for.             *)
Abstract == INSTANCE Timeouts WITH ticks <- accepted \cup ToBeAccepted

ImplementsTimeouts == Abstract!Spec

(* The latest timeout that was scheduled fires, as long as the node runs:   *)
(* dropped ticks, tocks on their way and values of old timers do not lose   *)
(* it.                                                                      *)
NewestFires ==
    \A t \in Ticks :
        Abstract!Newest(t) ~> (\/ t \in taken \/ ~Abstract!Newest(t)
                              \/ ctxDone \/ receiver = "ended")

(* Nobody reads tickChan any more, and it is full: a handler that schedules *)
(* a timeout keeps the mutex for ever, and OnStop waits for it.             *)
TickerGone == ~timeoutRoutine /\ Len(tickChan) = TickTockBufferSize

(* Once the context is done every service stops, and so do the goroutines   *)
(* that wait for it, also after a failed start; but for TickerGone.         *)
AllStop ==
    ctxDone ~> \/ TickerGone
               \/ /\ start = "idle" /\ watches = {}
                  /\ \A s \in Services :
                         started[s] => stopped[s] /\ quits[s] = 1
=============================================================================

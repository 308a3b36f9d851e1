---------------------------- MODULE TimeoutTicker ---------------------------
(***************************************************************************)
(* timeoutTicker: a goroutine that owns one time.Timer, a channel of ticks *)
(* to schedule and a channel of tocks that fired.  The timer is that of    *)
(* go 1.17: when it expires the runtime sends to its channel C a moment    *)
(* later, so a Stop and a Reset may come in between and the value of the   *)
(* old run is taken for one of the new.                                    *)
(*                                                                         *)
(* A tick is the number of its place (height, round and step), 0 the zero  *)
(* timeoutInfo that the goroutine begins with.  How long a tick lasts is   *)
(* left out: a running timer expires at any time.                          *)
(***************************************************************************)
EXTENDS Integers, Sequences, SequencesExt

CONSTANTS
    MaxTick,            \* bound: the last place a timeout is scheduled for
    TickTockBufferSize  \* the size of both channels

ASSUME TickerAssumption ==
    MaxTick \in Nat \ {0} /\ TickTockBufferSize \in Nat \ {0}

Ticks == 1..MaxTick

VARIABLES
    ctxDone,            \* the context of the node is cancelled
    tickChan,
    ti,                 \* the tick that the goroutine has accepted last
    timerRuns,
    sending,            \* expired runs of the timer that the runtime sends yet
    timerC,             \* a value waits in the timer's channel
    timeoutRoutine,     \* the goroutine is running
    tocks,              \* tocks[t]: the goroutines that wait to send tock t
    tockChan,
    accepted            \* history: every tick that was accepted

tickerVars == <<tickChan, ti, timerRuns, sending, timerC, timeoutRoutine, tocks,
                tockChan, accepted>>

TickerTypeOK ==
    /\ ctxDone \in BOOLEAN
    /\ tickChan \in Seq(Ticks) /\ Len(tickChan) <= TickTockBufferSize
    /\ ti \in Ticks \cup {0}
    /\ timerRuns \in BOOLEAN /\ timerC \in BOOLEAN /\ timeoutRoutine \in BOOLEAN
    /\ sending \in Nat
    /\ tocks \in [Ticks \cup {0} -> Nat]
    /\ tockChan \in Seq(Ticks \cup {0}) /\ Len(tockChan) <= TickTockBufferSize
    /\ accepted \subseteq Ticks

(* NewTimeoutTicker makes a timer that expires at once and stops it; the    *)
(* value may still be on its way.                                           *)
TickerInit ==
    /\ tickChan = <<>> /\ ti = 0 /\ timerRuns = FALSE
    /\ sending \in {0, 1}
    /\ timerC = FALSE /\ timeoutRoutine = FALSE
    /\ tocks = [t \in Ticks \cup {0} |-> 0]
    /\ tockChan = <<>> /\ accepted = {}

-----------------------------------------------------------------------------

(* ScheduleTimeout, by the caller: it waits while tickChan is full.         *)
ScheduleTimeout(t) ==
    /\ Len(tickChan) < TickTockBufferSize
    /\ tickChan' = Append(tickChan, t)
    /\ UNCHANGED <<ti, timerRuns, sending, timerC, timeoutRoutine, tocks, tockChan,
                   accepted>>

(* stopTimer: what is left in C after the drain.                            *)
Drained == timerC /\ timerRuns

(* Mutant of ReceiveTick: an old tick replaces a later one.                 *)
ReceiveTickAny ==
    /\ timeoutRoutine /\ tickChan # <<>>
    /\ tickChan' = Tail(tickChan)
    /\ ti' = Head(tickChan)
    /\ accepted' = accepted \cup {Head(tickChan)}
    /\ timerRuns' = TRUE /\ timerC' = Drained
    /\ UNCHANGED <<sending, timeoutRoutine, tocks, tockChan>>

(* Mutant of ReceiveTick: the timer is stopped after it is set.             *)
ReceiveTickStopsLast ==
    /\ timeoutRoutine /\ tickChan # <<>>
    /\ tickChan' = Tail(tickChan)
    /\ IF Head(tickChan) <= ti
       THEN UNCHANGED <<ti, accepted, timerRuns, timerC>>
       ELSE /\ ti' = Head(tickChan)
            /\ accepted' = accepted \cup {Head(tickChan)}
            /\ timerRuns' = FALSE /\ timerC' = timerC
    /\ UNCHANGED <<sending, timeoutRoutine, tocks, tockChan>>

(* timeoutRoutine drops a tick that is not later than the last, and sets    *)
(* the timer for the others.                                                *)
ReceiveTick ==
    /\ timeoutRoutine /\ tickChan # <<>>
    /\ tickChan' = Tail(tickChan)
    /\ IF Head(tickChan) <= ti
       THEN UNCHANGED <<ti, accepted, timerRuns, timerC>>
       ELSE /\ ti' = Head(tickChan)
            /\ accepted' = accepted \cup {Head(tickChan)}
            /\ timerRuns' = TRUE /\ timerC' = Drained
    /\ UNCHANGED <<sending, timeoutRoutine, tocks, tockChan>>

(* The runtime: the timer expires, and its value is sent unless one waits.  *)
Expire ==
    /\ timerRuns
    /\ timerRuns' = FALSE /\ sending' = sending + 1
    /\ UNCHANGED <<tickChan, ti, timerC, timeoutRoutine, tocks, tockChan, accepted>>

SendTime ==
    /\ sending > 0
    /\ sending' = sending - 1 /\ timerC' = TRUE
    /\ UNCHANGED <<tickChan, ti, timerRuns, timeoutRoutine, tocks, tockChan, accepted>>

(* timeoutRoutine takes the value for the end of its present tick, and      *)
(* leaves the tock to a goroutine.                                          *)
ReceiveTimer ==
    /\ timeoutRoutine /\ timerC
    /\ timerC' = FALSE
    /\ tocks' = [tocks EXCEPT ![ti] = @ + 1]
    /\ UNCHANGED <<tickChan, ti, timerRuns, sending, timeoutRoutine, tockChan, accepted>>

SendTock(t) ==
    /\ tocks[t] > 0
    /\ \/ /\ Len(tockChan) < TickTockBufferSize
          /\ tockChan' = Append(tockChan, t)
       \/ ctxDone /\ UNCHANGED tockChan
    /\ tocks' = [tocks EXCEPT ![t] = @ - 1]
    /\ UNCHANGED <<tickChan, ti, timerRuns, sending, timerC, timeoutRoutine, accepted>>

TimeoutRoutineEnds ==
    /\ ctxDone /\ timeoutRoutine
    /\ timeoutRoutine' = FALSE
    /\ UNCHANGED <<tickChan, ti, timerRuns, sending, timerC, tocks, tockChan, accepted>>

(* OnStart                                                                  *)
StartTicker ==
    /\ timeoutRoutine' = TRUE
    /\ UNCHANGED <<tickChan, ti, timerRuns, sending, timerC, tocks, tockChan, accepted>>

(* OnStop stops the timer and leaves the goroutine to the context.          *)
StopTicker ==
    /\ timerRuns' = FALSE /\ timerC' = Drained
    /\ UNCHANGED <<tickChan, ti, sending, timeoutRoutine, tocks, tockChan, accepted>>

(* The receiver takes a tock.                                               *)
TakeTock ==
    /\ tockChan # <<>>
    /\ tockChan' = Tail(tockChan)
    /\ UNCHANGED <<tickChan, ti, timerRuns, sending, timerC, timeoutRoutine, tocks,
                   accepted>>

(* The way of a value from the timer to the receiver.                       *)
Fires == Expire \/ SendTime \/ ReceiveTimer \/ \E t \in Ticks \cup {0} : SendTock(t)

TickerNext == ReceiveTick \/ Fires \/ TimeoutRoutineEnds

(* The ticks in tickChan that timeoutRoutine is going to accept.            *)
ToBeAccepted ==
    {tickChan[i] : i \in {j \in DOMAIN tickChan :
        /\ tickChan[j] > ti
        /\ \A k \in 1..j - 1 : tickChan[k] < tickChan[j]}}
=============================================================================

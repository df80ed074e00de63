-------------------------------- MODULE Recorder --------------------------------
(***************************************************************************)
(* Recording of the market (core/market_data): the WebSocket thread builds *)
(* 5-minute candles and queues ticks, a writer thread flushes both queues, *)
(* and the logout of broker.py closes the candle, stops the writer and     *)
(* flushes what is left itself before it stops the socket.  One token; a   *)
(* tick is its number, a candle the set of ticks it was built from.        *)
(***************************************************************************)
EXTENDS Integers, Sequences, FiniteSets

CONSTANTS
  QueueMax,     \* max_queue_size
  MaxTicks, MaxBuckets, MaxSessions

VARIABLES
  ticks,        \* ticks that reached _on_ws_tick
  bucket,       \* the 5 minutes of the clock
  current,      \* the candle in progress, or NoCandle
  held,         \* what the tick in hand will update: "none", "current", "detached"
  closed,       \* completed: candles closed so far
  tickQ, candleQ,
  writer,       \* the writer thread: "none", "waits", "ended" or a step of its flush
  stopSet,      \* _stop_event
  main,         \* main thread: "runs", the steps of logout(), "out"
  batch,        \* batch[f]: what flusher f has drained and not written
  stored,       \* raw_ticks
  candles,      \* candles_5m: bucket -> the candle stored for it
  torn,         \* ticks no candle counts
  logouts,
  flushedAt, drainedAt  \* ticks seen when the running logout closed the candle, drained the queue

recVars == <<ticks, bucket, current, held, closed, tickQ, candleQ, writer, stopSet, main,
             batch, stored, candles, torn, logouts, flushedAt, drainedAt>>
feedVars  == <<ticks, bucket, current, held, closed, torn>>
diskVars  == <<stored, candles>>
clockVars == <<logouts, flushedAt, drainedAt>>

NoCandle == [bucket |-> 0, of |-> {}]
Flushers == {"writer", "main"}

Init ==
  /\ ticks = 0 /\ bucket = 1 /\ current = NoCandle /\ held = "none" /\ closed = {} /\ torn = {}
  /\ tickQ = <<>> /\ candleQ = <<>> /\ batch = [f \in Flushers |-> <<>>]
  /\ writer = "waits" /\ stopSet = FALSE /\ main = "runs"
  /\ stored = {} /\ candles = [b \in 1..MaxBuckets |-> {}]
  /\ logouts = 0 /\ flushedAt = 0 /\ drainedAt = 0
-----------------------------------------------------------------------------
Socket == main # "out"

\* put_nowait: a full queue keeps what it has.
Put(q, x) == IF Len(q) < QueueMax THEN Append(q, x) ELSE q

\* OHLCVAggregator._close
Closes(c) ==
  /\ closed' = closed \cup {c}
  /\ candleQ' = Put(candleQ, c)

\* Slip: the candle of a past bucket is replaced without being closed.
RollsOver ==
  IF current.bucket = bucket THEN UNCHANGED <<current, closed, candleQ>>
  ELSE /\ current' = [bucket |-> bucket, of |-> {}]
       /\ UNCHANGED <<closed, candleQ>>
\* add_tick up to the candle it will update: a new bucket closes the old one.
Rolls ==
  IF current.bucket = bucket THEN UNCHANGED <<current, closed, candleQ>>
  ELSE /\ current' = [bucket |-> bucket, of |-> {}]
       /\ IF current = NoCandle THEN UNCHANGED <<closed, candleQ>> ELSE Closes(current)

\* The WebSocket thread looks the candle up, under the tick lock ...
TickArrives ==
  /\ Socket /\ held = "none" /\ ticks < MaxTicks
  /\ ticks' = ticks + 1
  /\ Rolls /\ held' = "current"
  /\ UNCHANGED <<bucket, tickQ, writer, stopSet, main, batch, diskVars, torn, clockVars>>

\* ... counts the tick in it and queues the tick.  Logout does not take the lock.
TickCounted ==
  /\ held # "none" /\ held' = "none"
  /\ IF held = "current" THEN current' = [current EXCEPT !.of = @ \cup {ticks}] /\ UNCHANGED torn
                         ELSE torn' = torn \cup {ticks} /\ UNCHANGED current
  /\ tickQ' = Put(tickQ, ticks)
  /\ UNCHANGED <<ticks, bucket, closed, candleQ, writer, stopSet, main, batch, diskVars, clockVars>>

BucketTurns ==
  /\ bucket < MaxBuckets /\ held = "none" /\ bucket' = bucket + 1
  /\ UNCHANGED <<ticks, current, held, closed, torn, tickQ, candleQ, writer, stopSet, main, batch,
                 diskVars, clockVars>>
-----------------------------------------------------------------------------
\* _flush_once of flusher f: ticks are drained and written, then candles.
DrainsTicks(f) ==
  /\ batch' = [batch EXCEPT ![f] = tickQ] /\ tickQ' = <<>>
  /\ UNCHANGED <<feedVars, candleQ, stopSet, diskVars, logouts, flushedAt>>

\* INSERT OR IGNORE; a batch whose write fails is gone.
WritesTicks(f) ==
  /\ \/ stored' = stored \cup {batch[f][i] : i \in 1..Len(batch[f])}
     \/ batch[f] # <<>> /\ UNCHANGED stored
  /\ batch' = [batch EXCEPT ![f] = <<>>]
  /\ UNCHANGED <<feedVars, tickQ, candleQ, stopSet, candles, clockVars>>

DrainsCandles(f) ==
  /\ batch' = [batch EXCEPT ![f] = candleQ] /\ candleQ' = <<>>
  /\ UNCHANGED <<feedVars, tickQ, stopSet, diskVars, clockVars>>

\* INSERT OR REPLACE: the last candle of a bucket stands.
LastOf(q, b) == CHOOSE i \in 1..Len(q) :
  q[i].bucket = b /\ \A j \in i + 1..Len(q) : q[j].bucket # b
WritesCandles(f) ==
  LET q == batch[f] IN
  /\ \/ candles' = [b \in 1..MaxBuckets |->
            IF \E i \in 1..Len(q) : q[i].bucket = b THEN q[LastOf(q, b)].of ELSE candles[b]]
     \/ q # <<>> /\ UNCHANGED candles
  /\ batch' = [batch EXCEPT ![f] = <<>>]
  /\ UNCHANGED <<feedVars, tickQ, candleQ, stopSet, stored, clockVars>>

\* Slip: a failed write ends the thread.
WriterDies(next) == IF stored' = stored /\ batch["writer"] # <<>> THEN "ended" ELSE next
\* What follows a write: the exception is logged, never raised.
WriterGoesOn(next) == next

\* _run of the writer thread.
WriterFlushes ==
  \/ writer = "waits" /\ ~stopSet /\ writer' = "ticks" /\ DrainsTicks("writer")
       /\ UNCHANGED <<main, drainedAt>>
  \/ writer = "ticks" /\ WritesTicks("writer") /\ writer' = WriterGoesOn("drained") /\ UNCHANGED main
  \/ writer = "drained" /\ writer' = "candles" /\ DrainsCandles("writer") /\ UNCHANGED main
  \/ writer = "candles" /\ WritesCandles("writer") /\ writer' = "waits" /\ UNCHANGED main

WriterEnds ==
  /\ writer = "waits" /\ stopSet /\ writer' = "ended"
  /\ UNCHANGED <<feedVars, tickQ, candleQ, stopSet, main, batch, diskVars, clockVars>>
-----------------------------------------------------------------------------
MainStays == UNCHANGED <<feedVars, tickQ, candleQ, writer, batch, diskVars>>

\* logout(): market_ohlcv.flush() pops the candle whatever the tick in hand does.
CandleFlushed ==
  /\ main = "runs" /\ main' = "stop"
  /\ logouts' = logouts + 1 /\ flushedAt' = ticks
  /\ IF current = NoCandle THEN UNCHANGED <<current, closed, candleQ, held>>
     ELSE /\ Closes(current) /\ current' = NoCandle
          /\ held' = IF held = "none" THEN "none" ELSE "detached"
  /\ UNCHANGED <<ticks, bucket, torn, tickQ, writer, stopSet, batch, diskVars, drainedAt>>

\* stop(): the event, then the join.
WriterStopped ==
  /\ main = "stop" /\ stopSet' = TRUE /\ main' = "join"
  /\ MainStays /\ UNCHANGED clockVars

\* The join ends with the thread, or times out while a write lasts.
MainFlushes ==
  \/ /\ main = "join" /\ writer \in {"ended", "ticks", "candles"}
     /\ main' = "ticks" /\ DrainsTicks("main") /\ UNCHANGED writer
     /\ drainedAt' = IF held = "none" THEN ticks ELSE ticks - 1
  \/ main = "ticks" /\ WritesTicks("main") /\ main' = "drained" /\ UNCHANGED writer
  \/ main = "drained" /\ main' = "candles" /\ DrainsCandles("main") /\ UNCHANGED writer
  \/ main = "candles" /\ WritesCandles("main") /\ main' = "close" /\ UNCHANGED writer

SocketStops ==
  /\ main = "close" /\ main' = "out"
  /\ MainStays /\ UNCHANGED <<stopSet, clockVars>>

\* main() runs again in the same process: the writer exists and is not started.
LoginAgain ==
  /\ main = "out" /\ logouts < MaxSessions /\ main' = "runs"
  /\ MainStays /\ UNCHANGED <<stopSet, clockVars>>

Next ==
  \/ TickArrives \/ TickCounted \/ BucketTurns \/ WriterFlushes \/ WriterEnds
  \/ CandleFlushed \/ WriterStopped \/ MainFlushes \/ SocketStops \/ LoginAgain

Spec == Init /\ [][Next]_recVars
\* The writer thread is scheduled; nothing is asked of the feed or of main.
RecFair == WF_recVars(WriterFlushes)
FairSpec == Spec /\ RecFair
-----------------------------------------------------------------------------
Queued(t) == \E i \in 1..Len(tickQ) : tickQ[i] = t
InHand(t) == held # "none" /\ t = ticks

\* A clean shutdown keeps what was recorded: when logout() has flushed, whatever
\* is still queued or in the candle in progress came in after it looked.
CleanShutdown == main \in {"close", "out"} =>
  /\ \A t \in 1..ticks : Queued(t) => t > drainedAt
  /\ \A c \in {current} \cup {candleQ[i] : i \in 1..Len(candleQ)} :
       \A t \in c.of : t > flushedAt

\* Every tick is counted by exactly one candle, but for the one in the hand of
\* the WebSocket thread when a logout closes the candle under it.
Covered ==
  /\ \A t \in 1..ticks \ torn : ~InHand(t) =>
       Cardinality({c \in closed \cup {current} : t \in c.of}) = 1
  /\ Cardinality(torn) <= logouts

\* Until the first logout the queue of ticks is emptied again and again, whatever
\* writes fail.
Drained == logouts = 0 ~> (tickQ = <<>> \/ logouts > 0)
=============================================================================

-------------------------------- MODULE Services --------------------------------
(***************************************************************************)
(* The services beside the trading loop, for model checking: the virtual   *)
(* positions, the recording of the market, and the Telegram worker.  They  *)
(* share no state in the code and none waits for another, so a behaviour   *)
(* follows one of them and the others stand still.                         *)
(***************************************************************************)
EXTENDS PaperBook, Sequences

CONSTANTS
  QueueMax, MaxTicks, MaxBuckets, MaxSessions,  \* of Recorder
  MaxSent, MaxBots, MaxCrashes                  \* of TelegramLink

ASSUME ServicesAssumption ==
  /\ {QueueMax, MaxTicks, MaxBuckets, MaxSessions, MaxSent, MaxCrashes} \subseteq Nat
  /\ MaxBots \in Nat \ {0}

VARIABLES
  part,                                         \* the part that moves
  ticks, bucket, current, held, closed, tickQ, candleQ, writer, stopSet, main, batch,
  stored, candles, torn, logouts, flushedAt, drainedAt,
                                                \* of Recorder
  sent, confirmed, bots, last, at, polled, manual, by, handled, here, crashes
                                                \* of TelegramLink

recVars  == <<ticks, bucket, current, held, closed, tickQ, candleQ, writer, stopSet, main, batch,
              stored, candles, torn, logouts, flushedAt, drainedAt>>
linkVars == <<sent, confirmed, bots, last, at, polled, manual, by, handled, here, crashes>>
svcVars  == <<part, vars, recVars, linkVars>>

Record5m == INSTANCE Recorder
Link     == INSTANCE TelegramLink WITH batch <- polled

SvcInit == part \in {"book", "recorder", "link"} /\ Init /\ Record5m!Init /\ Link!Init

BookStep(A)   == part = "book" /\ A /\ UNCHANGED <<part, recVars, linkVars>>
RecordStep(A) == part = "recorder" /\ A /\ UNCHANGED <<part, vars, linkVars>>
LinkStep(A)   == part = "link" /\ A /\ UNCHANGED <<part, vars, recVars>>

BookMoves     == BookStep(Next)
RecorderMoves == RecordStep(Record5m!Next)
LinkMoves     == LinkStep(Link!Next)

SvcNext == BookMoves \/ RecorderMoves \/ LinkMoves
SvcSpec == SvcInit /\ [][SvcNext]_svcVars

\* The fairness of each part: a write of the book tried again and again succeeds
\* once, and no scan is promised; the writer thread is scheduled; each Telegram worker is
\* scheduled and the server answers it now and then.
SvcFair ==
  /\ WF_svcVars(BookStep(Tick)) /\ WF_svcVars(BookStep(Put)) /\ WF_svcVars(BookStep(LoopEnds))
  /\ SF_svcVars(BookStep(Close))
  /\ WF_svcVars(RecordStep(Record5m!WriterFlushes))
  /\ \A b \in 1..MaxBots :
       WF_svcVars(LinkStep(Link!Poll(b))) /\ WF_svcVars(LinkStep(Link!Handle(b)))

SvcFairSpec == SvcSpec /\ SvcFair
-----------------------------------------------------------------------------
\* A clean shutdown loses nothing of the recording and no tick is in two candles
\* or none (logout of broker.py, OHLCVAggregator).
RecordComplete == Record5m!CleanShutdown /\ Record5m!Covered

\* Until the first logout the queue of ticks is emptied again and again, whatever
\* writes fail (the except in _run of tick_writer.py).
Drained == Record5m!Drained

\* An update leaves the server only after some worker has handled it, and while
\* one worker runs the stop flag is that of the newest stop or resume it handled,
\* through updates delivered again (last_update_id of telegram_bot.py).
UpdatesKept == Link!NothingLost /\ Link!NewestRules

\* The Telegram worker keeps up: again and again everything the operator has sent
\* is handled (_bg_worker of telegram_bot.py).
Answered == Link!Answered

=============================================================================

------------------------------ MODULE TelegramLink ------------------------------
(***************************************************************************)
(* The Telegram worker of core/services/telegram_bot.py: it polls for      *)
(* updates, confirms them by the offset of its next poll, and hands them   *)
(* to the handlers, whose messages back may take seconds.  Every call of   *)
(* main() makes a new bot with a worker of its own and never stops the     *)
(* one before; a new process starts from the updates nobody confirmed.     *)
(***************************************************************************)
EXTENDS Integers, Sequences

CONSTANTS
  MaxSent,   \* bound: updates the operator sends
  MaxBots,   \* bound: calls of main() in one process
  MaxCrashes

VARIABLES
  sent,      \* updates in the order of their ids: "stop", "resume", "other"
  confirmed, \* ids the server has dropped, from the first on
  bots,      \* bots of this process
  last,      \* last_update_id of each worker
  at, batch, \* the update each worker is at, and the end of its batch
  manual,    \* manual_stop of the bot state
  by,        \* history: the update that set it in this process, or 0
  handled,   \* history: updates some worker has handled
  here,      \* history: the newest update handled in this process
  crashes

linkVars == <<sent, confirmed, bots, last, at, batch, manual, by, handled, here, crashes>>

Bots    == 1..MaxBots
Updates == 1..MaxSent

Init ==
  /\ sent = <<>> /\ confirmed = 0 /\ bots = 1
  /\ last = [b \in Bots |-> 0] /\ at = [b \in Bots |-> 0] /\ batch = [b \in Bots |-> 0]
  /\ manual = FALSE /\ by = 0 /\ handled = {} /\ here = 0 /\ crashes = 0
-----------------------------------------------------------------------------
OperatorSends ==
  /\ Len(sent) < MaxSent
  /\ \E c \in {"stop", "resume", "other"} : sent' = Append(sent, c)
  /\ UNCHANGED <<confirmed, bots, last, at, batch, manual, by, handled, here, crashes>>

Later(x, y) == IF x > y THEN x ELSE y

\* Slip: a new worker skips what came in before it.
SkipsPending(b) == IF last[b] = 0 THEN Len(sent) ELSE last[b]
\* getUpdates from last_update_id + 1 on drops everything up to last_update_id.
Offset(b) == last[b]

\* Every update not dropped is returned, to whichever worker asks.
Poll(b) ==
  /\ b <= bots /\ at[b] = batch[b]
  /\ confirmed' = Later(confirmed, Offset(b))
  /\ at' = [at EXCEPT ![b] = confirmed'] /\ batch' = [batch EXCEPT ![b] = Len(sent)]
  /\ UNCHANGED <<sent, bots, last, manual, by, handled, here, crashes>>

\* Slip: last_update_id is never stored.
NotAdvanced(b, n) == last[b]
\* last_update_id moves with every update, before it is handled.
Advanced(b, n) == n

\* The next update of the batch: _handle_update, and _cmd_stop, _cmd_resume or
\* one of the views.  What the handler sends lasts until its next step.
Handle(b) ==
  LET n == at[b] + 1 IN
  /\ b <= bots /\ at[b] < batch[b]
  /\ at' = [at EXCEPT ![b] = n] /\ last' = [last EXCEPT ![b] = Advanced(b, n)]
  /\ handled' = handled \cup {n} /\ here' = Later(here, n)
  /\ IF sent[n] = "other" THEN UNCHANGED <<manual, by>>
     ELSE manual' = (sent[n] = "stop") /\ by' = n
  /\ UNCHANGED <<sent, confirmed, bots, batch, crashes>>

\* main() after a RECONNECT: init_telegram replaces the bot; the worker of the
\* old one goes on.  The bot state is the same singleton.
MainAgain ==
  /\ bots < MaxBots /\ bots' = bots + 1
  /\ UNCHANGED <<sent, confirmed, last, at, batch, manual, by, handled, here, crashes>>

\* The process ends, its workers are daemons, and another one starts.
Restart ==
  /\ crashes < MaxCrashes /\ crashes' = crashes + 1
  /\ bots' = 1 /\ last' = [b \in Bots |-> 0]
  /\ at' = [b \in Bots |-> 0] /\ batch' = [b \in Bots |-> 0]
  /\ manual' = FALSE /\ by' = 0 /\ here' = 0
  /\ UNCHANGED <<sent, confirmed, handled>>

Next ==
  \/ OperatorSends \/ MainAgain \/ Restart
  \/ \E b \in Bots : Poll(b) \/ Handle(b)

Spec == Init /\ [][Next]_linkVars

\* Each worker is scheduled and the server answers it now and then.
LinkFair == \A b \in Bots : WF_linkVars(Poll(b)) /\ WF_linkVars(Handle(b))
FairSpec == Spec /\ LinkFair
-----------------------------------------------------------------------------
\* An update leaves the server only after some worker has handled it, whichever
\* of the workers confirmed it and wherever the process was restarted.
NothingLost == \A u \in 1..confirmed : u \in handled

\* While one worker runs, the stop flag is that of the newest stop or resume it
\* handled, through updates that are delivered again.
NewestRules == bots = 1 =>
  by = 0 \/ \A u \in by + 1..here : sent[u] = "other"

\* The worker keeps up: again and again everything the operator has sent is
\* handled, whichever worker the server answered and wherever it was restarted.
Answered == []<>(1..Len(sent) \subseteq handled)

\* Claimed: once everything is handled, a stop that no later resume took back
\* stands.
StopStands ==
  LET commands == {u \in 1..Len(sent) : sent[u] # "other"} IN
  crashes = 0 /\ (\A b \in Bots : at[b] = batch[b]) /\ here = Len(sent) =>
    \A u \in commands : (sent[u] = "stop" /\ \A v \in commands : v <= u) => manual
=============================================================================

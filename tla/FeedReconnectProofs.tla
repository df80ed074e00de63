------------------------- MODULE FeedReconnectProofs -------------------------
(***************************************************************************)
(* For any number of worker threads, logins and faults, at most one        *)
(* reconnect worker exists, the flag that guards it agrees with it, and    *)
(* what the flags say of the connection is explained.                      *)
(***************************************************************************)
EXTENDS FeedReconnect, FiniteSetTheorems, TLAPS

\* A used-up count goes with a circuit that is not closed.
CountUsedUp == attempts > MaxAttempts => circuit # "closed"

\* The workers that a map of the threads calls alive.
Lone(pcs, flagged) ==
  /\ flagged <=> \E w \in Workers : pcs[w] # "ended"
  /\ \A v, w \in Workers : pcs[v] # "ended" /\ pcs[w] # "ended" => v = w

FInv == TypeOK /\ CountUsedUp /\ Lone(at, running)

LEMMA InitFInv == Init => FInv
  <1> SUFFICES ASSUME Init PROVE FInv
      OBVIOUS
  <1> USE FeedAssumption DEF Init
  <1>1. at \in [Threads -> Steps]
      BY DEF Threads, Steps, Starting
  <1>4. {conn, running, shutdown, refreshed, flag, late, torn} \subseteq BOOLEAN
      BY Zenon
  <1>5. attempts \in 0..MaxAttempts + 1 /\ sessions \in 0..MaxSessions /\ faults \in 0..MaxFaults
      BY SMT
  <1>2. TypeOK
      BY <1>1, <1>4, <1>5, Zenon DEF TypeOK
  <1>3. Lone(at, running)
      BY DEF Lone, Threads
  <1> QED
      BY <1>2, <1>3 DEF FInv, CountUsedUp

\* A trigger starts a worker only where there is none.
LEMMA TriggerLone ==
  ASSUME TypeOK, NEW pcs \in [Threads -> Steps], Lone(pcs, running), Trigger(pcs)
  PROVE  /\ at' \in [Threads -> Steps] /\ Lone(at', running')
         /\ running' \in BOOLEAN /\ left' \in {"no", "gaveup", "missed"}
  <1>1. CASE running
      BY <1>1 DEF Trigger, TypeOK, Lone
  <1>2. CASE ~running
    <2>1. PICK w \in {x \in Workers : at[x] = "ended"} :
            running' = TRUE /\ at' = [pcs EXCEPT ![w] = "loop"]
        BY <1>2 DEF Trigger, Spawn
    <2>2. \A v \in Workers : pcs[v] = "ended"
        BY <1>2 DEF Lone
    <2>3. w \in Threads /\ Workers \subseteq Threads /\ "loop" \in Steps
        BY <2>1 DEF Threads, Steps
    <2>4. at' \in [Threads -> Steps]
        BY <2>1, <2>3
    <2>5. \A v \in Workers : at'[v] = IF v = w THEN "loop" ELSE "ended"
        BY <2>1, <2>2, <2>3
    <2>6. Lone(at', running')
        BY <2>1, <2>5 DEF Lone
    <2> QED
        BY <1>2, <2>1, <2>4, <2>6 DEF Trigger, TypeOK
  <1> QED
      BY <1>1, <1>2

\* A move between two steps of a living thread leaves the workers as they are.
LEMMA MoveLone ==
  ASSUME TypeOK, NEW pcs \in [Threads -> Steps], NEW flagged,
         Lone(at, flagged),
         \A w \in Workers : pcs[w] = "ended" <=> at[w] = "ended"
  PROVE  Lone(pcs, flagged)
  BY DEF Lone

LEMMA DisconnectLone ==
  ASSUME TypeOK, NEW pcs \in [Threads -> Steps], Lone(pcs, running), Disconnect(pcs)
  PROVE  /\ at' \in [Threads -> Steps] /\ Lone(at', running')
         /\ running' \in BOOLEAN /\ left' \in {"no", "gaveup", "missed"}
         /\ conn' \in BOOLEAN /\ circuit' = circuit
  <1>1. conn' \in BOOLEAN /\ circuit' = circuit
      BY DEF Disconnect, TypeOK
  <1>2. CASE shutdown \/ ~conn
      BY <1>1, <1>2 DEF Disconnect, NoTrigger, TypeOK
  <1>3. CASE ~(shutdown \/ ~conn)
      BY <1>1, <1>3, TriggerLone DEF Disconnect
  <1> QED
      BY <1>2, <1>3

-----------------------------------------------------------------------------
\* One step of a start leaves a worker alive wherever it goes.
LEMMA MovedLone ==
  ASSUME FInv, NEW t \in Threads, at[t] # "ended",
         NEW step \in Steps, step # "ended"
  PROVE  Move(t, step) \in [Threads -> Steps] /\ Lone(Move(t, step), running)
  <1>1. Move(t, step) \in [Threads -> Steps]
      BY DEF FInv, TypeOK, Move
  <1>2. \A w \in Workers : Move(t, step)[w] = "ended" <=> at[w] = "ended"
      BY DEF FInv, TypeOK, Move, Threads
  <1> QED
      BY <1>1, <1>2, MoveLone DEF FInv

LEMMA ReturnedStep ==
  ASSUME NEW t \in Threads
  PROVE  Returned(t) \in Steps /\ Returned(t) # "ended"
  BY DEF Returned, Steps

LEMMA StartFInv ==
  ASSUME FInv, NEW t \in Threads, Start(t)
  PROVE  FInv'
  <1> USE FeedAssumption
  <1>t. TypeOK /\ CountUsedUp /\ Lone(at, running)
      BY DEF FInv
  <1>a. at[t] # "ended"
      BY DEF Start, Connect, ConnectRaises, Wait, Subscribe, Retry, Up
  <1>b. /\ Move(t, Returned(t)) \in [Threads -> Steps]
        /\ Lone(Move(t, Returned(t)), running)
      BY <1>a, MovedLone, ReturnedStep
  <1>c. \A s \in {"wait", "subscribe", "retry", "up"} :
          Move(t, s) \in [Threads -> Steps] /\ Lone(Move(t, s), running)
      BY <1>a, MovedLone DEF Steps, Starting
  <1>g. GivesUp(t) => left' \in {"no", "gaveup", "missed"}
      BY <1>t DEF GivesUp, TypeOK
  <1>1. CASE Connect(t)
    <2>1. at' \in [Threads -> Steps] /\ Lone(at', running')
        BY <1>1, <1>b, <1>c DEF Connect
    <2>2. flag' \in BOOLEAN /\ late' \in BOOLEAN /\ ws' \in {"none", "opening", "open", "dead"}
        BY <1>1, <1>t DEF Connect, OpenSocket, client, TypeOK
    <2> QED
        BY <1>1, <1>t, <2>1, <2>2
        DEF Connect, FInv, TypeOK, CountUsedUp, history, counts
  <1>2. CASE ConnectRaises(t)
    <2>1. CASE attempts < MaxAttempts
      <3>1. Trigger(Move(t, Returned(t)))
          BY <1>2, <2>1 DEF ConnectRaises
      <3>2. /\ at' \in [Threads -> Steps] /\ Lone(at', running')
            /\ running' \in BOOLEAN /\ left' \in {"no", "gaveup", "missed"}
          BY <1>b, <1>t, <3>1, TriggerLone
      <3> QED
          BY <1>2, <1>t, <3>2 DEF ConnectRaises, FInv, TypeOK, CountUsedUp, client, counts
    <2>2. CASE ~(attempts < MaxAttempts)
      <3>1. at' \in [Threads -> Steps] /\ Lone(at', running')
          BY <1>2, <1>b, <2>2 DEF ConnectRaises
      <3>2. left' \in {"no", "gaveup", "missed"} /\ running' = running
          BY <1>2, <1>g, <2>2 DEF ConnectRaises
      <3> QED
          BY <1>2, <1>t, <3>1, <3>2 DEF ConnectRaises, FInv, TypeOK, CountUsedUp, client, counts
    <2> QED
        BY <2>1, <2>2
  <1>3. CASE Wait(t)
    <2>1. at' \in [Threads -> Steps] /\ Lone(at', running')
        BY <1>3, <1>b, <1>c DEF Wait
    <2>2. left' \in {"no", "gaveup", "missed"}
        BY <1>3, <1>g, <1>t DEF Wait, TypeOK
    <2> QED
        BY <1>3, <1>t, <2>1, <2>2 DEF Wait, FInv, TypeOK, CountUsedUp, client, counts
  <1>4. CASE Subscribe(t)
    <2>1. CASE Usable
      <3>1. at' \in [Threads -> Steps] /\ Lone(at', running')
          BY <1>4, <1>c, <2>1 DEF Subscribe
      <3> QED
          BY <1>4, <1>t, <2>1, <3>1 DEF Subscribe, FInv, TypeOK, CountUsedUp, counts
    <2>2. CASE ~Usable
      <3>1. Disconnect(Move(t, "retry")) /\ flag' = FALSE
          BY <1>4, <2>2 DEF Subscribe
      <3>2. /\ at' \in [Threads -> Steps] /\ Lone(at', running')
            /\ running' \in BOOLEAN /\ left' \in {"no", "gaveup", "missed"}
            /\ conn' \in BOOLEAN /\ circuit' = circuit
          BY <1>c, <1>t, <3>1, DisconnectLone
      <3> QED
          BY <1>4, <1>t, <3>1, <3>2 DEF Subscribe, FInv, TypeOK, CountUsedUp, counts
    <2> QED
        BY <2>1, <2>2
  <1>5. CASE Retry(t)
    <2>1. at' \in [Threads -> Steps] /\ Lone(at', running')
        BY <1>5, <1>b, <1>c DEF Retry
    <2>2. left' \in {"no", "gaveup", "missed"} /\ conn' \in BOOLEAN
        BY <1>5, <1>g, <1>t DEF Retry, TypeOK
    <2> QED
        BY <1>5, <1>t, <2>1, <2>2 DEF Retry, FInv, TypeOK, CountUsedUp, client, counts
  <1>6. CASE Up(t)
    <2>1. "watch" \in Steps /\ Returned(t) \in Steps /\ Returned(t) # "ended"
        BY ReturnedStep DEF Steps
    <2>2. at' \in [Threads -> Steps]
        BY <1>6, <1>t, <2>1 DEF Up, TypeOK
    <2>3. \A w \in Workers : at'[w] = "ended" <=> at[w] = "ended"
        BY <1>6, <1>a, <1>t, <2>1 DEF Up, TypeOK, Threads
    <2>4. Lone(at', running')
        BY <1>6, <1>t, <2>2, <2>3, MoveLone DEF Up
    <2>5. torn' \in BOOLEAN
        BY <1>6, <1>t DEF Up, Usable, TypeOK
    <2> QED
        BY <1>6, <1>t, <2>2, <2>4, <2>5 DEF Up, FInv, TypeOK, CountUsedUp, client, counts
  <1> QED
      BY <1>1, <1>2, <1>3, <1>4, <1>5, <1>6 DEF Start

-----------------------------------------------------------------------------
LEMMA WorkerFInv ==
  ASSUME FInv, NEW w \in Workers, Worker(w)
  PROVE  FInv'
  <1> USE FeedAssumption
  <1>t. TypeOK /\ CountUsedUp /\ Lone(at, running) /\ w \in Threads
      BY DEF FInv, Threads
  <1>c. at[w] # "ended" =>
          \A s \in {"connect", "loop", "sleep", "leaving"} :
            Move(w, s) \in [Threads -> Steps] /\ Lone(Move(w, s), running)
      BY <1>t, MovedLone DEF Steps, Starting
  <1>1. CASE Loop(w)
    <2>1. at' \in [Threads -> Steps] /\ Lone(at', running')
        BY <1>1, <1>c DEF Loop
    <2>2. /\ attempts' \in 0..MaxAttempts + 1 /\ circuit' \in {"closed", "cooling", "cooled"}
          /\ CountUsedUp'
        BY <1>1, <1>t DEF Loop, TypeOK, CountUsedUp
    <2> QED
        BY <1>1, <1>t, <2>1, <2>2 DEF Loop, FInv, TypeOK, client, history, counts
  <1>2. CASE Wake(w)
    <2>1. at' \in [Threads -> Steps] /\ Lone(at', running')
        BY <1>2, <1>c DEF Wake
    <2>2. flag' \in BOOLEAN /\ late' \in BOOLEAN /\ torn' \in BOOLEAN /\ ws' = "none"
        BY <1>2, <1>t DEF Wake, StopSocket, TypeOK
    <2> QED
        BY <1>2, <1>t, <2>1, <2>2 DEF Wake, FInv, TypeOK, CountUsedUp, counts
  <1>3. CASE Check(w)
    <2>1. at' \in [Threads -> Steps] /\ Lone(at', running')
        BY <1>3, <1>c DEF Check
    <2>2. attempts' \in {0, attempts}
        BY <1>3 DEF Check
    <2> QED
        BY <1>3, <1>t, <2>1, <2>2
        DEF Check, FInv, TypeOK, CountUsedUp, client, history, counts
  <1>4. CASE Leave(w)
    <2>1. at' = [at EXCEPT ![w] = "ended"] /\ running' = FALSE /\ at[w] = "leaving"
        BY <1>4 DEF Leave, Move
    <2>2. at' \in [Threads -> Steps]
        BY <1>t, <2>1 DEF TypeOK, Steps
    <2>3. \A v \in Workers : at'[v] = "ended"
        BY <1>t, <2>1 DEF TypeOK, Lone, Threads
    <2>4. Lone(at', running')
        BY <2>1, <2>3 DEF Lone
    <2> QED
        BY <1>4, <1>t, <2>1, <2>2, <2>4
        DEF Leave, FInv, TypeOK, CountUsedUp, client, history, counts
  <1> QED
      BY <1>1, <1>2, <1>3, <1>4 DEF Worker

LEMMA BeatFInv ==
  ASSUME FInv, BeatEnds \/ Premarket \/ NoTicks
  PROVE  FInv'
  <1> USE FeedAssumption
  <1>t. TypeOK /\ CountUsedUp /\ Lone(at, running) /\ Beat \in Threads
      BY DEF FInv, Threads
  <1>1. CASE BeatEnds
    <2>1. at' \in [Threads -> Steps] /\ \A w \in Workers : at'[w] = at[w]
        BY <1>1, <1>t DEF BeatEnds, Move, TypeOK, Steps, Threads
    <2>2. Lone(at', running')
        BY <1>1, <1>t, <2>1, MoveLone DEF BeatEnds
    <2> QED
        BY <1>1, <1>t, <2>1, <2>2
        DEF BeatEnds, FInv, TypeOK, CountUsedUp, client, history, counts
  <1>2. CASE Premarket
    <2>1. at' \in [Threads -> Steps] /\ \A w \in Workers : at'[w] = at[w]
        BY <1>2, <1>t DEF Premarket, Move, TypeOK, Steps, Starting, Threads
    <2>2. Lone(at', running')
        BY <1>2, <1>t, <2>1, MoveLone DEF Premarket
    <2>3. flag' \in BOOLEAN /\ late' \in BOOLEAN /\ torn' \in BOOLEAN /\ ws' = "none"
        BY <1>2, <1>t DEF Premarket, StopSocket, TypeOK
    <2> QED
        BY <1>2, <1>t, <2>1, <2>2, <2>3 DEF Premarket, FInv, TypeOK, CountUsedUp, counts
  <1>3. CASE NoTicks
    <2>1. at \in [Threads -> Steps] /\ Disconnect(at)
        BY <1>3, <1>t DEF NoTicks, TypeOK
    <2>2. /\ at' \in [Threads -> Steps] /\ Lone(at', running')
          /\ running' \in BOOLEAN /\ left' \in {"no", "gaveup", "missed"}
          /\ conn' \in BOOLEAN /\ circuit' = circuit
        BY <1>t, <2>1, DisconnectLone
    <2> QED
        BY <1>3, <1>t, <2>2 DEF NoTicks, Fault, FInv, TypeOK, CountUsedUp, client
  <1> QED
      BY <1>1, <1>2, <1>3

LEMMA MainFInv ==
  ASSUME FInv, Login \/ RefreshFails \/ Logout
  PROVE  FInv'
  <1> USE FeedAssumption
  <1>t. TypeOK /\ CountUsedUp /\ Lone(at, running) /\ Main \in Threads
      BY DEF FInv, Threads
  <1>1. CASE Login
    <2>1. at' \in [Threads -> Steps] /\ \A w \in Workers : at'[w] = at[w]
        BY <1>1, <1>t DEF Login, Move, TypeOK, Steps, Starting, Threads
    <2>2. Lone(at', running')
        BY <1>1, <1>t, <2>1, MoveLone DEF Login
    <2>3. sessions' \in 0..MaxSessions /\ faults' \in 0..MaxFaults
        BY <1>1, <1>t DEF Login, TypeOK
    <2>4. {conn', running', shutdown', refreshed', flag', late', torn'} \subseteq BOOLEAN
        BY <1>1, <1>t DEF Login, TypeOK, history
    <2> QED
        BY <1>1, <1>t, <2>1, <2>2, <2>3, <2>4 DEF Login, FInv, TypeOK, CountUsedUp, history
  <1>2. CASE RefreshFails
    <2>1. at \in [Threads -> Steps] /\ Disconnect(at)
        BY <1>2, <1>t DEF RefreshFails, TypeOK
    <2>2. /\ at' \in [Threads -> Steps] /\ Lone(at', running')
          /\ running' \in BOOLEAN /\ left' \in {"no", "gaveup", "missed"}
          /\ conn' \in BOOLEAN /\ circuit' = circuit
        BY <1>t, <2>1, DisconnectLone
    <2> QED
        BY <1>2, <1>t, <2>2 DEF RefreshFails, Fault, FInv, TypeOK, CountUsedUp, client
  <1>3. CASE Logout
    <2>1. at' \in [Threads -> Steps] /\ \A w \in Workers : at'[w] = at[w]
        BY <1>3, <1>t DEF Logout, Move, TypeOK, Steps, Threads
    <2>2. Lone(at', running')
        BY <1>3, <1>t, <2>1, MoveLone DEF Logout
    <2>3. flag' \in BOOLEAN /\ late' \in BOOLEAN /\ ws' = "none"
        BY <1>3, <1>t DEF Logout, StopSocket, TypeOK
    <2> QED
        BY <1>3, <1>t, <2>1, <2>2, <2>3 DEF Logout, FInv, TypeOK, CountUsedUp, history, counts
  <1> QED
      BY <1>1, <1>2, <1>3

LEMMA NetworkFInv ==
  ASSUME FInv, Network \/ CoolsDown
  PROVE  FInv'
  <1> USE FeedAssumption
  <1>t. TypeOK /\ CountUsedUp /\ Lone(at, running) /\ at \in [Threads -> Steps]
      BY DEF FInv, TypeOK
  <1>d. Disconnect(at) \/ LimitHit =>
          /\ at' \in [Threads -> Steps] /\ Lone(at', running')
          /\ running' \in BOOLEAN /\ left' \in {"no", "gaveup", "missed"}
          /\ conn' \in BOOLEAN
          /\ circuit' \in {"closed", "cooling", "cooled"}
          /\ (circuit' = circuit \/ circuit' = "cooling")
    <2>1. CASE Disconnect(at)
        BY <1>t, <2>1, DisconnectLone DEF TypeOK
    <2>2. CASE LimitHit
        BY <1>t, <2>2 DEF LimitHit, NoTrigger, TypeOK
    <2> QED
        BY <2>1, <2>2
  <1>1. CASE SocketOpens
      BY <1>1, <1>t DEF SocketOpens, FInv, TypeOK, CountUsedUp, history, counts
  <1>2. CASE SocketDrops
    <2>1. Disconnect(at) \/ LimitHit
        BY <1>2 DEF SocketDrops
    <2>2. sessions' \in 0..MaxSessions /\ faults' \in 0..MaxFaults
        BY <1>2, <1>t DEF SocketDrops, Fault, TypeOK
    <2>3. /\ {conn', running', shutdown', refreshed', flag', late', torn'} \subseteq BOOLEAN
          /\ ws' \in {"none", "opening", "open", "dead"}
        BY <1>2, <1>d, <1>t, <2>1 DEF SocketDrops, TypeOK
    <2>4. attempts' = attempts /\ CountUsedUp'
        BY <1>2, <1>d, <1>t, <2>1 DEF SocketDrops, CountUsedUp
    <2> QED
        BY <1>d, <1>t, <2>1, <2>2, <2>3, <2>4 DEF FInv, TypeOK
  <1>3. CASE LateFails
    <2>1. Disconnect(at) \/ LimitHit
        BY <1>3 DEF LateFails
    <2>2. sessions' \in 0..MaxSessions /\ faults' \in 0..MaxFaults
        BY <1>3, <1>t DEF LateFails, Fault, TypeOK
    <2>3. /\ {conn', running', shutdown', refreshed', flag', late', torn'} \subseteq BOOLEAN
          /\ ws' \in {"none", "opening", "open", "dead"}
        BY <1>3, <1>d, <1>t, <2>1 DEF LateFails, TypeOK
    <2>4. attempts' = attempts /\ CountUsedUp'
        BY <1>3, <1>d, <1>t, <2>1 DEF LateFails, CountUsedUp
    <2> QED
        BY <1>d, <1>t, <2>1, <2>2, <2>3, <2>4 DEF FInv, TypeOK
  <1>4. CASE TickResets
      BY <1>4, <1>t DEF TickResets, Fault, FInv, TypeOK, CountUsedUp, client, history
  <1>5. CASE CoolsDown
      BY <1>5, <1>t DEF CoolsDown, FInv, TypeOK, CountUsedUp, client, history, counts
  <1> QED
      BY <1>1, <1>2, <1>3, <1>4, <1>5 DEF Network

LEMMA StepFInv == FInv /\ [Next]_vars => FInv'
  <1> SUFFICES ASSUME FInv, [Next]_vars PROVE FInv'
      OBVIOUS
  <1>1. CASE UNCHANGED vars
      BY <1>1 DEF vars, client, history, counts, FInv, TypeOK, CountUsedUp
  <1>2. CASE Next
      BY <1>2, StartFInv, WorkerFInv, BeatFInv, MainFInv, NetworkFInv DEF Next
  <1> QED
      BY <1>1, <1>2

-----------------------------------------------------------------------------
(* What every reachable state has.                                          *)
LEMMA FInvAlways == Spec => []FInv
  BY InitFInv, StepFInv, PTL DEF Spec

\* The variables keep their types, for any number of threads and sessions.
THEOREM FeedTypes == Spec => []TypeOK
  <1>1. FInv => TypeOK
      BY DEF FInv
  <1> QED
      BY <1>1, FInvAlways, PTL

\* _trigger_ws_reconnect never leaves two workers, and _ws_reconnect_running is
\* up exactly while one has not ended, whatever callbacks, logouts and logins do.
THEOREM WorkerAlone == Spec => []OneWorker
  <1>1. FInv => OneWorker
    <2> SUFFICES ASSUME FInv PROVE OneWorker
        OBVIOUS
    <2>1. running <=> Alive # {}
        BY DEF FInv, Lone, Alive
    <2>2. CASE Alive = {}
        BY <2>1, <2>2, FS_EmptySet DEF OneWorker
    <2>3. CASE Alive # {}
      <3>1. PICK w : Alive = {w}
          BY <2>3 DEF FInv, Lone, Alive
      <3>2. Cardinality(Alive) = 1
          BY <3>1, FS_Singleton
      <3> QED
          BY <2>1, <3>2 DEF OneWorker
    <2> QED
        BY <2>2, <2>3
  <1> QED
      BY <1>1, FInvAlways, PTL

-----------------------------------------------------------------------------
(* The flags are explained: who still looks after the connection.           *)

\* A session that is down is being started or retried, has opened its circuit,
\* or it is on record why nobody retries.
Attended ==
  at[Main] # "out" /\ ~shutdown /\ ~conn =>
    circuit # "closed" \/ left # "no" \/ Retrying \/ InStart(Main) \/ InStart(Beat)

\* A connection that is reported up has its socket, or lost it unreported.
Backed == conn => Usable \/ torn

\* Logout takes the socket away, and nobody opens one before the next login.
Dark == shutdown => ws = "none"

\* Before the first login nothing runs.
Fresh == at[Main] = "out" /\ ~shutdown => ~conn /\ \A t \in Threads \ {Main} : at[t] = "ended"

GInv == FInv /\ Attended /\ Backed /\ Dark /\ Fresh

\* The threads that look at the connection again under pcs did so before.
Keeps(pcs) ==
  /\ pcs \in [Threads -> Steps]
  /\ \A w \in Workers : at[w] \notin {"ended", "leaving"} => pcs[w] \notin {"ended", "leaving"}

LEMMA TriggerAttends ==
  ASSUME NEW pcs, Keeps(pcs), Trigger(pcs)
  PROVE  /\ left' = "missed" \/ Retrying'
         /\ at'[Main] = pcs[Main] /\ at'[Beat] = pcs[Beat]
  <1> USE FeedAssumption
  <1>1. CASE running
      BY <1>1 DEF Trigger, Keeps, Retrying
  <1>2. CASE ~running
    <2>1. PICK w \in Workers : at' = [pcs EXCEPT ![w] = "loop"]
        BY <1>2 DEF Trigger, Spawn
    <2>2. w \in Threads /\ w # Main /\ w # Beat
        BY DEF Threads
    <2>3. at'[w] = "loop" /\ at'[Main] = pcs[Main] /\ at'[Beat] = pcs[Beat]
        BY <2>1, <2>2 DEF Keeps
    <2> QED
        BY <2>3 DEF Retrying
  <1> QED
      BY <1>1, <1>2

LEMMA DisconnectAttends ==
  ASSUME NEW pcs, Keeps(pcs), Disconnect(pcs), conn \in BOOLEAN
  PROVE  /\ conn' = (shutdown /\ conn) /\ circuit' = circuit
         /\ at'[Main] = pcs[Main] /\ at'[Beat] = pcs[Beat]
         /\ shutdown \/ ~conn => at' = pcs /\ left' = left
         /\ ~shutdown /\ conn => left' = "missed" \/ Retrying'
  <1>1. CASE shutdown \/ ~conn
      BY <1>1 DEF Disconnect, NoTrigger
  <1>2. CASE ~(shutdown \/ ~conn)
      BY <1>2, TriggerAttends DEF Disconnect
  <1> QED
      BY <1>1, <1>2

\* Nothing but the first login happens before the first login.
LEMMA NotFresh ==
  ASSUME FInv, Fresh, NEW t \in Threads \ {Main}, at[t] # "ended"
  PROVE  at[Main] # "out" \/ shutdown
  BY DEF Fresh

LEMMA MoveKeeps ==
  ASSUME FInv, NEW t \in Threads, NEW step \in Steps \ {"ended", "leaving"}
  PROVE  Keeps(Move(t, step)) /\ Move(t, step)[t] = step
         /\ \A u \in Threads \ {t} : Move(t, step)[u] = at[u]
  BY DEF FInv, TypeOK, Move, Keeps, Threads

\* Whoever leaves a start without a connection retries, is retried for, or has
\* given up; inside the start it still looks after the connection.
LEMMA StartAttends ==
  ASSUME FInv, NEW t \in Threads, Start(t)
  PROVE  Attended'
  <1> USE FeedAssumption
  <1>t. TypeOK /\ conn \in BOOLEAN
      BY DEF FInv, TypeOK
  <1>r. /\ Keeps(Move(t, Returned(t))) /\ Move(t, Returned(t))[t] = Returned(t)
        /\ \A u \in Threads \ {t} : Move(t, Returned(t))[u] = at[u]
      BY MoveKeeps DEF Returned, Steps
  <1>s. \A s \in {"wait", "subscribe", "retry", "up"} :
          Keeps(Move(t, s)) /\ Move(t, s)[t] = s
      BY MoveKeeps DEF Steps, Starting
  <1>i. ASSUME at'[t] \in Starting \/ (t \in Workers /\ at'[t] = "check")
        PROVE  InStart(Main)' \/ InStart(Beat)' \/ Retrying'
      BY <1>i DEF InStart, Retrying, Threads, Starting
  <1>g. ASSUME at' = Move(t, Returned(t)), GivesUp(t)
        PROVE  left' = "gaveup" \/ Retrying'
    <2>1. CASE t \in Workers
        BY <1>g, <1>r, <2>1 DEF Retrying, Returned, Threads
    <2>2. CASE t \notin Workers
        BY <1>g, <1>r, <2>2 DEF Retrying, GivesUp, Keeps
    <2> QED
        BY <2>1, <2>2
  <1>1. CASE Connect(t)
    <2>1. CASE shutdown
        BY <1>1, <2>1 DEF Connect, Attended
    <2>2. CASE ~shutdown
        BY <1>1, <1>s, <1>i, <2>2 DEF Connect, Attended, Starting
    <2> QED
        BY <2>1, <2>2
  <1>2. CASE ConnectRaises(t)
    <2>1. CASE attempts < MaxAttempts
      <3>1. left' = "missed" \/ Retrying'
          BY <1>2, <1>r, <2>1, TriggerAttends DEF ConnectRaises
      <3> QED
          BY <3>1 DEF Attended
    <2>2. CASE ~(attempts < MaxAttempts)
      <3>1. left' = "gaveup" \/ Retrying'
          BY <1>2, <1>g, <2>2 DEF ConnectRaises
      <3> QED
          BY <3>1 DEF Attended
    <2> QED
        BY <2>1, <2>2
  <1>3. CASE Wait(t)
    <2>1. CASE flag
        BY <1>3, <1>s, <1>i, <2>1 DEF Wait, Attended, Starting
    <2>2. CASE ~flag
      <3>1. left' = "gaveup" \/ Retrying'
          BY <1>3, <1>g, <2>2 DEF Wait
      <3> QED
          BY <3>1 DEF Attended
    <2> QED
        BY <2>1, <2>2
  <1>4. CASE Subscribe(t)
    <2>1. CASE Usable
        BY <1>4, <1>s, <1>i, <2>1 DEF Subscribe, Attended, Starting
    <2>2. CASE ~Usable
      <3>1. Disconnect(Move(t, "retry"))
          BY <1>4, <2>2 DEF Subscribe
      <3>2. CASE shutdown \/ ~conn
          BY <1>s, <1>t, <1>i, <3>1, <3>2, DisconnectAttends DEF Attended, Starting
      <3>3. CASE ~(shutdown \/ ~conn)
          BY <1>s, <1>t, <3>1, <3>3, DisconnectAttends DEF Attended
      <3> QED
          BY <3>2, <3>3
    <2> QED
        BY <2>1, <2>2
  <1>5. CASE Retry(t)
    <2>1. CASE at' = Move(t, "up")
        BY <1>s, <1>i, <2>1 DEF Attended, Starting
    <2>2. CASE at' = Move(t, Returned(t)) /\ GivesUp(t)
        BY <1>g, <2>2 DEF Attended
    <2> QED
        BY <1>5, <2>1, <2>2 DEF Retry
  <1>6. CASE Up(t)
      BY <1>6 DEF Up, Attended
  <1> QED
      BY <1>1, <1>2, <1>3, <1>4, <1>5, <1>6 DEF Start

LEMMA StartBacked ==
  ASSUME GInv, NEW t \in Threads, Start(t)
  PROVE  Backed' /\ Dark' /\ Fresh'
  <1> USE FeedAssumption
  <1>t. /\ FInv /\ Backed /\ Dark /\ Fresh
        /\ conn \in BOOLEAN /\ torn \in BOOLEAN /\ flag \in BOOLEAN /\ shutdown \in BOOLEAN
        /\ at \in [Threads -> Steps] /\ Main \in Threads
      BY DEF GInv, FInv, TypeOK, Threads
  <1>a. at[t] \in Starting
      BY DEF Start, Connect, ConnectRaises, Wait, Subscribe, Retry, Up, Starting
  <1>f. at[Main] # "out" \/ shutdown
      BY <1>a, <1>t DEF Fresh, Starting
  <1>m. ASSUME NEW s, at' = Move(t, s), s # "out" PROVE at'[Main] = "out" => at[Main] = "out"
      BY <1>m, <1>t DEF Move
  <1>r. Returned(t) # "out"
      BY DEF Returned
  <1>1. CASE Connect(t)
    <2>1. shutdown' = shutdown /\ conn' = conn /\ torn' = torn
        BY <1>1 DEF Connect, history
    <2>2. at'[Main] = "out" => at[Main] = "out"
        BY <1>1, <1>m, <1>r DEF Connect
    <2>3. Dark' /\ Backed'
        BY <1>1, <1>t, <2>1 DEF Connect, OpenSocket, client, Dark, Backed, Usable
    <2> QED
        BY <1>f, <2>1, <2>2, <2>3 DEF Fresh
  <1>2. CASE ConnectRaises(t)
    <2>1. shutdown' = shutdown /\ conn' = FALSE /\ ws' = ws
        BY <1>2 DEF ConnectRaises, client
    <2>2. at'[Main] = "out" => at[Main] = "out"
      <3>1. CASE attempts < MaxAttempts
        <4>1. at'[Main] = Move(t, Returned(t))[Main]
            BY <1>2, <1>t, <3>1, MoveKeeps, TriggerAttends DEF ConnectRaises, Returned, Steps
        <4> QED
            BY <1>r, <1>t, <4>1 DEF Move
      <3>2. CASE ~(attempts < MaxAttempts)
          BY <1>2, <1>m, <1>r, <3>2 DEF ConnectRaises
      <3> QED
          BY <3>1, <3>2
    <2> QED
        BY <1>f, <1>t, <2>1, <2>2 DEF Fresh, Dark, Backed
  <1>3. CASE Wait(t)
    <2>1. at'[Main] = "out" => at[Main] = "out"
        BY <1>3, <1>m, <1>r DEF Wait
    <2> QED
        BY <1>3, <1>f, <1>t, <2>1 DEF Wait, client, Fresh, Dark, Backed, Usable
  <1>4. CASE Subscribe(t)
    <2>1. CASE Usable
      <3>1. at'[Main] = "out" => at[Main] = "out"
          BY <1>4, <1>m, <2>1 DEF Subscribe
      <3> QED
          BY <1>4, <1>f, <1>t, <2>1, <3>1 DEF Subscribe, Fresh, Dark, Backed, Usable
    <2>2. CASE ~Usable
      <3>1. /\ conn' = (shutdown /\ conn) /\ at'[Main] = Move(t, "retry")[Main]
            /\ shutdown' = shutdown /\ ws' = ws /\ torn' = torn
          BY <1>4, <1>t, <2>2, MoveKeeps, DisconnectAttends DEF Subscribe, Steps, Starting
      <3>2. at'[Main] = "out" => at[Main] = "out"
          BY <1>t, <3>1 DEF Move
      <3> QED
          BY <1>f, <1>t, <2>2, <3>1, <3>2 DEF Fresh, Dark, Backed
    <2> QED
        BY <2>1, <2>2
  <1>5. CASE Retry(t)
    <2>1. at'[Main] = "out" => at[Main] = "out"
        BY <1>5, <1>m, <1>r DEF Retry
    <2> QED
        BY <1>5, <1>f, <1>t, <2>1 DEF Retry, client, Fresh, Dark, Backed, Usable
  <1>6. CASE Up(t)
    <2>1. at'[Main] = "out" => at[Main] = "out"
        BY <1>6, <1>r, <1>t DEF Up
    <2> QED
        BY <1>6, <1>f, <1>t, <2>1 DEF Up, client, Fresh, Dark, Backed, Usable
  <1> QED
      BY <1>1, <1>2, <1>3, <1>4, <1>5, <1>6 DEF Start

\* A worker leaves the loop only with a connection, an open circuit or a logout.
LEMMA WorkerAttends ==
  ASSUME GInv, NEW w \in Workers, Worker(w)
  PROVE  Attended' /\ Backed' /\ Dark' /\ Fresh'
  <1> USE FeedAssumption
  <1>t. /\ Attended /\ Backed /\ Dark /\ Fresh /\ FInv
        /\ conn \in BOOLEAN /\ torn \in BOOLEAN /\ flag \in BOOLEAN /\ shutdown \in BOOLEAN
        /\ at \in [Threads -> Steps] /\ w \in Threads /\ w # Main /\ w # Beat
      BY DEF GInv, FInv, TypeOK, Threads
  <1>a. at[w] # "ended"
      BY DEF Worker, Loop, Wake, Check, Leave
  <1>f. at[Main] # "out" \/ shutdown
      BY <1>a, <1>t DEF Fresh
  <1>m. /\ \A s \in Steps : Move(w, s)[w] = s
        /\ \A s : Move(w, s)[Main] = at[Main] /\ Move(w, s)[Beat] = at[Beat]
      BY <1>t DEF Move, Threads
  <1>1. CASE Loop(w)
    <2>1. CASE shutdown \/ conn
        BY <1>1, <1>f, <1>m, <1>t, <2>1
        DEF Loop, Attended, Backed, Dark, Fresh, Usable, client, history
    <2>2. CASE ~(shutdown \/ conn)
      <3>1. at'[w] = "sleep" \/ circuit' = "cooling"
          BY <1>1, <1>m, <2>2 DEF Loop, Steps
      <3>2. Attended'
          BY <3>1 DEF Attended, Retrying
      <3> QED
          BY <1>1, <1>f, <1>m, <1>t, <2>2, <3>2
          DEF Loop, Backed, Dark, Fresh, Usable, client, history
    <2> QED
        BY <2>1, <2>2
  <1>2. CASE Wake(w)
    <2>1. at'[w] = "connect"
        BY <1>2, <1>m DEF Wake, Steps, Starting
    <2>2. Attended'
        BY <2>1 DEF Attended, Retrying
    <2> QED
        BY <1>2, <1>f, <1>m, <1>t, <2>2 DEF Wake, StopSocket, Backed, Dark, Fresh, Usable
  <1>3. CASE Check(w)
    <2>1. conn \/ at'[w] = "loop"
        BY <1>3, <1>m DEF Check, Steps
    <2>2. Attended'
        BY <1>3, <2>1 DEF Check, Attended, Retrying
    <2> QED
        BY <1>3, <1>f, <1>m, <1>t, <2>2
        DEF Check, Backed, Dark, Fresh, Usable, client, history
  <1>4. CASE Leave(w)
    <2>1. at' = Move(w, "ended") /\ at[w] = "leaving"
        BY <1>4 DEF Leave
    <2>2. Retrying => Retrying'
        BY <1>t, <2>1 DEF Retrying, Move
    <2> QED
        BY <1>4, <1>f, <1>m, <1>t, <2>1, <2>2
        DEF Leave, Attended, InStart, Backed, Dark, Fresh, Usable, client, history
  <1> QED
      BY <1>1, <1>2, <1>3, <1>4 DEF Worker

\* The callbacks that report a disconnect from a thread outside the start.
LEMMA DropAttends ==
  ASSUME GInv, Disconnect(at) \/ LimitHit, shutdown' = shutdown
  PROVE  Attended' /\ (conn' => conn /\ shutdown) /\ at'[Main] = at[Main]
  <1> USE FeedAssumption
  <1>t. Attended /\ conn \in BOOLEAN /\ shutdown \in BOOLEAN /\ Keeps(at)
      BY DEF GInv, FInv, TypeOK, Keeps
  <1>1. CASE Disconnect(at)
    <2>1. CASE shutdown \/ ~conn
        BY <1>1, <1>t, <2>1, DisconnectAttends DEF Attended, Retrying, InStart
    <2>2. CASE ~(shutdown \/ ~conn)
        BY <1>1, <1>t, <2>2, DisconnectAttends DEF Attended
    <2> QED
        BY <2>1, <2>2
  <1>2. CASE LimitHit
      BY <1>2, <1>t DEF LimitHit, NoTrigger, Attended
  <1> QED
      BY <1>1, <1>2

LEMMA BeatAttends ==
  ASSUME GInv, BeatEnds \/ Premarket \/ NoTicks
  PROVE  Attended' /\ Backed' /\ Dark' /\ Fresh'
  <1> USE FeedAssumption
  <1>t. /\ Attended /\ Backed /\ Dark /\ Fresh /\ FInv
        /\ conn \in BOOLEAN /\ torn \in BOOLEAN /\ shutdown \in BOOLEAN
        /\ at \in [Threads -> Steps] /\ {Main, Beat} \subseteq Threads
      BY DEF GInv, FInv, TypeOK, Threads
  <1>f. at[Main] # "out" \/ shutdown
      BY <1>t DEF BeatEnds, Premarket, NoTicks, Fresh
  <1>m. \A s : Move(Beat, s)[Main] = at[Main] /\ \A w \in Workers : Move(Beat, s)[w] = at[w]
      BY <1>t DEF Move, Threads
  <1>1. CASE BeatEnds
      BY <1>1, <1>f, <1>t DEF BeatEnds, Attended, Backed, Dark, Fresh, Usable, client, history
  <1>2. CASE Premarket
    <2>1. at'[Beat] = "connect"
        BY <1>2, <1>t DEF Premarket, Move
    <2>2. Attended'
        BY <2>1 DEF Attended, InStart, Starting
    <2> QED
        BY <1>2, <1>f, <1>m, <1>t, <2>2 DEF Premarket, StopSocket, Backed, Dark, Fresh, Usable
  <1>3. CASE NoTicks
    <2>1. Attended' /\ (conn' => conn /\ shutdown) /\ at'[Main] = at[Main]
        BY <1>3, DropAttends DEF NoTicks
    <2> QED
        BY <1>3, <1>f, <1>t, <2>1 DEF NoTicks, Backed, Dark, Fresh, Usable, client
  <1> QED
      BY <1>1, <1>2, <1>3

LEMMA MainAttends ==
  ASSUME GInv, Login \/ RefreshFails \/ Logout
  PROVE  Attended' /\ Backed' /\ Dark' /\ Fresh'
  <1> USE FeedAssumption
  <1>t. /\ Attended /\ Backed /\ Dark /\ Fresh /\ FInv
        /\ conn \in BOOLEAN /\ torn \in BOOLEAN /\ shutdown \in BOOLEAN
        /\ at \in [Threads -> Steps] /\ {Main, Beat} \subseteq Threads
      BY DEF GInv, FInv, TypeOK, Threads
  <1>1. CASE Login
    <2>1. at'[Main] = "connect"
        BY <1>1, <1>t DEF Login, Move
    <2>2. Attended' /\ Fresh'
        BY <2>1 DEF Attended, Fresh, InStart, Starting
    <2>3. conn => torn
        BY <1>1, <1>t DEF Login, Fresh, Dark, Backed, Usable
    <2> QED
        BY <1>1, <2>2, <2>3 DEF Login, Backed, Dark, history
  <1>2. CASE RefreshFails
    <2>1. Attended' /\ (conn' => conn /\ shutdown) /\ at'[Main] = at[Main]
        BY <1>2, DropAttends DEF RefreshFails
    <2> QED
        BY <1>2, <1>t, <2>1 DEF RefreshFails, Backed, Dark, Fresh, Usable, client
  <1>3. CASE Logout
      BY <1>3 DEF Logout, StopSocket, Attended, Backed, Dark, Fresh
  <1> QED
      BY <1>1, <1>2, <1>3

LEMMA NetworkAttends ==
  ASSUME GInv, Network \/ CoolsDown
  PROVE  Attended' /\ Backed' /\ Dark' /\ Fresh'
  <1> USE FeedAssumption
  <1>t. /\ Attended /\ Backed /\ Dark /\ Fresh /\ FInv
        /\ conn \in BOOLEAN /\ torn \in BOOLEAN /\ shutdown \in BOOLEAN
        /\ ws \in {"none", "opening", "open", "dead"}
      BY DEF GInv, FInv, TypeOK
  <1>d. ASSUME Disconnect(at) \/ LimitHit, shutdown' = shutdown PROVE Fresh'
    <2>1. Attended' /\ (conn' => conn /\ shutdown) /\ at'[Main] = at[Main]
        BY <1>d, DropAttends
    <2>2. CASE at[Main] # "out" \/ shutdown
        BY <1>d, <2>1, <2>2 DEF Fresh
    <2>3. CASE ~(at[Main] # "out" \/ shutdown)
      <3>1. ~conn
          BY <1>t, <2>3 DEF Fresh
      <3>2. at' = at
          BY <1>d, <3>1 DEF Disconnect, LimitHit, NoTrigger
      <3> QED
          BY <1>t, <2>1, <2>3, <3>1, <3>2 DEF Fresh
    <2> QED
        BY <2>2, <2>3
  <1>1. CASE SocketOpens
      BY <1>1, <1>t
      DEF SocketOpens, Attended, InStart, Retrying, Backed, Dark, Fresh, Usable, history
  <1>2. CASE SocketDrops
    <2>1. (Disconnect(at) \/ LimitHit) /\ shutdown' = shutdown
        BY <1>2 DEF SocketDrops
    <2>2. Attended' /\ (conn' => conn /\ shutdown)
        BY <2>1, DropAttends
    <2> QED
        BY <1>2, <1>d, <1>t, <2>1, <2>2 DEF SocketDrops, Backed, Dark, Usable
  <1>3. CASE LateFails
    <2>1. (Disconnect(at) \/ LimitHit) /\ shutdown' = shutdown
        BY <1>3 DEF LateFails
    <2>2. Attended' /\ (conn' => conn /\ shutdown)
        BY <2>1, DropAttends
    <2> QED
        BY <1>3, <1>d, <1>t, <2>1, <2>2 DEF LateFails, Backed, Dark, Usable
  <1>4. CASE TickResets
      BY <1>4, <1>t
      DEF TickResets, Attended, InStart, Retrying, Backed, Dark, Fresh, Usable, client, history
  <1>5. CASE CoolsDown
      BY <1>5, <1>t
      DEF CoolsDown, Attended, InStart, Retrying, Backed, Dark, Fresh, Usable, client, history
  <1> QED
      BY <1>1, <1>2, <1>3, <1>4, <1>5 DEF Network

LEMMA StepGInv == GInv /\ [Next]_vars => GInv'
  <1> SUFFICES ASSUME GInv, [Next]_vars PROVE GInv'
      OBVIOUS
  <1>1. FInv'
      BY StepFInv DEF GInv
  <1>2. CASE UNCHANGED vars
      BY <1>1, <1>2
      DEF vars, client, history, GInv, Attended, InStart, Retrying, Backed, Dark, Fresh, Usable
  <1>3. CASE Next
    <2>1. Attended' /\ Backed' /\ Dark' /\ Fresh'
        BY <1>3, StartAttends, StartBacked, WorkerAttends, BeatAttends, MainAttends,
           NetworkAttends DEF Next, GInv
    <2> QED
        BY <1>1, <2>1 DEF GInv
  <1> QED
      BY <1>2, <1>3

LEMMA GInvAlways == Spec => []GInv
  <1>1. ASSUME Init PROVE GInv
    <2>1. Main \in Threads
        BY DEF Threads
    <2>2. at[Main] = "out" /\ \A t \in Threads \ {Main} : at[t] = "ended"
        BY <1>1, <2>1 DEF Init
    <2> QED
        BY <1>1, <2>2, InitFInv DEF Init, GInv, Attended, Backed, Dark, Fresh
  <1> QED
      BY <1>1, StepGInv, PTL DEF Spec

\* Whatever the three kinds of threads, the callbacks and the operator do: a
\* session that is down and retried by nobody has opened its circuit or it is on
\* record why, and _ws_connected stands for a socket or one lost unreported.
THEOREM FlagsAreExplained == Spec => []FlagsExplained
  <1>1. GInv => FlagsExplained
    <2> SUFFICES ASSUME GInv PROVE FlagsExplained
        OBVIOUS
    <2>1. DownExplained
      <3> SUFFICES ASSUME Quiet, at[Main] = "run", ~shutdown, ~conn
                   PROVE  circuit # "closed" \/ left # "no"
          BY DEF DownExplained
      <3>1. ~Retrying /\ ~InStart(Main) /\ ~InStart(Beat)
          BY DEF Quiet, Alive, Retrying, Threads
      <3> QED
          BY <3>1 DEF GInv, Attended
    <2>2. UpBacked
        BY DEF GInv, Backed, UpBacked, Usable
    <2> QED
        BY <2>1, <2>2 DEF FlagsExplained
  <1> QED
      BY <1>1, GInvAlways, PTL

\* _trigger_ws_reconnect leaves one worker at most and no flag unexplained.
THEOREM ThreadsAreHonest == Spec => []ThreadsHonest
  <1>1. OneWorker /\ FlagsExplained => ThreadsHonest
      BY DEF ThreadsHonest
  <1> QED
      BY <1>1, WorkerAlone, FlagsAreExplained, PTL

=============================================================================

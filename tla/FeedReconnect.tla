---------------------------- MODULE FeedReconnect ----------------------------
(***************************************************************************)
(* The websocket session of core/trading/reconnect_manager.py and          *)
(* broker.py over the client of brokers/angel_one/websocket_client.py.     *)
(* _start_websocket is run by three kinds of threads, with no lock between *)
(* them: the main thread at login, the heartbeat monitor before the market *)
(* opens, and the reconnect worker.  The callbacks of the socket come at   *)
(* any moment.                                                             *)
(***************************************************************************)
EXTENDS Integers, FiniteSets

CONSTANTS
  Main, Beat,     \* the main thread, the WS-Heartbeat thread
  Workers,        \* the WS-Reconnect threads that may come to exist
  MaxAttempts,    \* _ws_max_reconnect_attempts
  MaxSessions,    \* bound: logins
  MaxFaults       \* bound: drops, failed checks and resets by a tick

ASSUME FeedAssumption ==
  /\ Main # Beat /\ {Main, Beat} \cap Workers = {} /\ Workers # {}
  /\ IsFiniteSet(Workers)
  /\ MaxAttempts \in Nat \ {0} /\ MaxSessions \in Nat /\ MaxFaults \in Nat

VARIABLES
  conn,       \* _ws_connected
  circuit,    \* _ws_circuit_open, and whether its cooldown is over
  attempts,   \* _ws_reconnect_attempts
  running,    \* _ws_reconnect_running
  shutdown,   \* _ws_shutdown_requested and the heartbeat's stop event
  refreshed,  \* _ws_premarket_reconnect_done
  flag,       \* client.ws_connected
  ws,         \* client.ws
  late,       \* a socket that was stopped or replaced may still open
  at,         \* where each thread stands
  left,       \* history: why nobody retries although the circuit is closed
  torn,       \* history: the socket went away without conn being told
  sessions, faults

client  == <<flag, ws, late>>
history == <<left, torn>>
counts  == <<sessions, faults>>
vars    == <<conn, circuit, attempts, running, shutdown, refreshed, client, at, history, counts>>

Threads  == {Main, Beat} \cup Workers
Starting == {"connect", "wait", "subscribe", "retry", "up"}
Steps    == Starting \cup {"out", "run", "ended", "watch", "loop", "sleep", "check", "leaving"}

Alive      == {w \in Workers : at[w] # "ended"}
InStart(t) == at[t] \in Starting
\* A worker that will still look at conn again.
Retrying   == \E w \in Workers : at[w] \notin {"ended", "leaving"}

TypeOK ==
  /\ {conn, running, shutdown, refreshed, flag, late, torn} \subseteq BOOLEAN
  /\ circuit \in {"closed", "cooling", "cooled"}
  /\ attempts \in 0..MaxAttempts + 1
  /\ ws \in {"none", "opening", "open", "dead"}
  /\ at \in [Threads -> Steps]
  /\ left \in {"no", "gaveup", "missed"}
  /\ sessions \in 0..MaxSessions /\ faults \in 0..MaxFaults

Init ==
  /\ conn = FALSE /\ circuit = "closed" /\ attempts = 0 /\ running = FALSE
  /\ shutdown = FALSE /\ refreshed = FALSE
  /\ flag = FALSE /\ ws = "none" /\ late = FALSE
  /\ at = [t \in Threads |-> IF t = Main THEN "out" ELSE "ended"]
  /\ left = "no" /\ torn = FALSE /\ sessions = 0 /\ faults = 0

-----------------------------------------------------------------------------
(* _trigger_ws_reconnect: one worker at a time, by _ws_reconnect_running.   *)
Spawn(pcs) ==
  \E w \in {x \in Workers : at[x] = "ended"} :
    running' = TRUE /\ at' = [pcs EXCEPT ![w] = "loop"]

\* Slip: the running worker is not looked at.
TriggerAlways(pcs) == Spawn(pcs) /\ UNCHANGED left

\* A worker that has decided to end still holds the flag: the trigger is lost.
Trigger(pcs) ==
  IF running
  THEN /\ UNCHANGED running /\ at' = pcs
       /\ left' = IF Retrying THEN left ELSE "missed"
  ELSE Spawn(pcs) /\ UNCHANGED left

NoTrigger(pcs) == at' = pcs /\ UNCHANGED <<running, left>>

\* Slip: the disconnect is passed on but the flag stays.
DisconnectKeeps(pcs) ==
  /\ (IF shutdown \/ ~conn THEN NoTrigger(pcs) ELSE Trigger(pcs))
  /\ UNCHANGED <<conn, circuit>>

\* _on_ws_disconnect; pcs is what the calling thread makes of at.
Disconnect(pcs) ==
  /\ conn' = (shutdown /\ conn)
  /\ (IF shutdown \/ ~conn THEN NoTrigger(pcs) ELSE Trigger(pcs))
  /\ UNCHANGED circuit

\* The same with the broker's connection limit (HTTP 429): no worker.
LimitHit ==
  /\ NoTrigger(at)
  /\ IF shutdown THEN UNCHANGED <<conn, circuit>>
     ELSE conn' = FALSE /\ circuit' = "cooling"

\* client.stop_websocket; the broker's own flag is left as it is.
StopSocket ==
  /\ flag' = FALSE /\ ws' = "none" /\ late' = (late \/ ws = "opening")

-----------------------------------------------------------------------------
(* _start_websocket, by any thread.                                         *)
Move(t, step) == [at EXCEPT ![t] = step]
Returned(t) == IF t = Main THEN "run" ELSE IF t = Beat THEN "watch" ELSE "check"

\* It returns unconnected: only a worker tries again by itself.
GivesUp(t) == left' = (IF t \notin Workers /\ ~Retrying THEN "gaveup" ELSE left)

\* client.start_websocket returns at once when a socket reports itself open.
OpenSocket ==
  IF flag THEN UNCHANGED client
  ELSE ws' = "opening" /\ late' = (late \/ ws = "opening") /\ UNCHANGED flag

Connect(t) ==
  /\ at[t] = "connect"
  /\ IF shutdown
     THEN at' = Move(t, Returned(t)) /\ UNCHANGED client
     ELSE /\ at' = Move(t, "wait")
          /\ OpenSocket
  /\ UNCHANGED <<conn, circuit, attempts, running, shutdown, refreshed, history, counts>>

\* The `except` branch asks for a worker itself.
ConnectRaises(t) ==
  /\ at[t] = "connect" /\ ~shutdown /\ conn' = FALSE
  /\ (IF attempts < MaxAttempts THEN Trigger(Move(t, Returned(t)))
      ELSE at' = Move(t, Returned(t)) /\ GivesUp(t) /\ UNCHANGED running)
  /\ UNCHANGED <<circuit, attempts, shutdown, refreshed, client, torn, counts>>

\* Ten seconds for the socket to open; on a timeout conn keeps its value.
Wait(t) ==
  /\ at[t] = "wait"
  /\ IF flag THEN at' = Move(t, "subscribe") /\ UNCHANGED left
     ELSE at' = Move(t, Returned(t)) /\ GivesUp(t)
  /\ UNCHANGED <<conn, circuit, attempts, running, shutdown, refreshed, client, torn, counts>>

Usable == flag /\ ws = "open"

\* subscribe; without a usable socket the client reports a disconnect.
Subscribe(t) ==
  /\ at[t] = "subscribe"
  /\ IF Usable
     THEN /\ at' \in {Move(t, "up"), Move(t, "retry")}
          /\ UNCHANGED <<conn, circuit, running, left, flag>>
     ELSE flag' = FALSE /\ Disconnect(Move(t, "retry"))
  /\ UNCHANGED <<attempts, shutdown, refreshed, ws, late, torn, counts>>

\* The remaining tries, and then the end of it.
Retry(t) ==
  /\ at[t] = "retry"
  /\ \/ /\ Usable /\ at' = Move(t, "up") /\ UNCHANGED <<conn, left>>
     \/ /\ conn' = FALSE /\ at' = Move(t, Returned(t)) /\ GivesUp(t)
  /\ UNCHANGED <<circuit, attempts, running, shutdown, refreshed, client, torn, counts>>

\* Subscribed: nothing looks at the socket or at the shutdown again.
Up(t) ==
  /\ at[t] = "up" /\ conn' = TRUE /\ attempts' = 0
  /\ at' = [at EXCEPT ![t] = Returned(t),
                      ![Beat] = IF t = Beat \/ at[Beat] = "ended" THEN "watch" ELSE @]
  /\ left' = "no" /\ torn' = ~Usable
  /\ UNCHANGED <<circuit, running, shutdown, refreshed, client, counts>>

Start(t) ==
  \/ Connect(t) \/ ConnectRaises(t) \/ Wait(t) \/ Subscribe(t) \/ Retry(t) \/ Up(t)

-----------------------------------------------------------------------------
(* reconnect_worker.                                                        *)
\* Slip: the shutdown is looked at nowhere in the loop.
LoopDeaf(w) ==
  /\ at[w] = "loop" /\ ~conn /\ circuit = "closed"
  /\ attempts' = (IF attempts > MaxAttempts THEN 0 ELSE attempts + 1)
  /\ at' = Move(w, "sleep")
  /\ UNCHANGED <<conn, circuit, running, shutdown, refreshed, client, history, counts>>

\* The top of the loop; while the circuit cools down it sleeps.
Loop(w) ==
  /\ at[w] = "loop"
  /\ LET tries == (IF circuit = "cooled" THEN 0 ELSE attempts) + 1
     IN  \/ /\ shutdown \/ conn
            /\ at' = Move(w, "leaving") /\ UNCHANGED <<circuit, attempts>>
         \/ /\ ~shutdown /\ ~conn /\ circuit # "cooling"
            /\ attempts' = tries
            /\ circuit' = (IF tries > MaxAttempts THEN "cooling" ELSE "closed")
            /\ at' = Move(w, IF tries > MaxAttempts THEN "leaving" ELSE "sleep")
  /\ UNCHANGED <<conn, running, shutdown, refreshed, client, history, counts>>

\* After its delay it stops whatever socket there is; conn is not looked at.
Wake(w) ==
  /\ at[w] = "sleep" /\ at' = Move(w, "connect") /\ StopSocket
  /\ torn' = (torn \/ conn)
  /\ UNCHANGED <<conn, circuit, attempts, running, shutdown, refreshed, left, counts>>

Check(w) ==
  /\ at[w] = "check"
  /\ IF conn THEN attempts' = 0 /\ at' = Move(w, "leaving")
     ELSE at' = Move(w, "loop") /\ UNCHANGED attempts
  /\ UNCHANGED <<conn, circuit, running, shutdown, refreshed, client, history, counts>>

Leave(w) ==
  /\ at[w] = "leaving" /\ running' = FALSE /\ at' = Move(w, "ended")
  /\ UNCHANGED <<conn, circuit, attempts, shutdown, refreshed, client, history, counts>>

Worker(w) == Loop(w) \/ Wake(w) \/ Check(w) \/ Leave(w)

-----------------------------------------------------------------------------
(* heartbeat_monitor: it does nothing while the circuit is open.            *)
BeatEnds ==
  /\ at[Beat] = "watch" /\ shutdown /\ at' = Move(Beat, "ended")
  /\ UNCHANGED <<conn, circuit, attempts, running, shutdown, refreshed, client, history, counts>>

\* _check_premarket_reconnect, once.
Premarket ==
  /\ at[Beat] = "watch" /\ ~shutdown /\ circuit = "closed" /\ ~refreshed
  /\ refreshed' = TRUE /\ StopSocket /\ at' = Move(Beat, "connect")
  /\ torn' = (torn \/ conn)
  /\ UNCHANGED <<conn, circuit, attempts, running, shutdown, left, counts>>

Fault == faults < MaxFaults /\ faults' = faults + 1 /\ UNCHANGED sessions

\* No tick for too long and no usable cache.
NoTicks ==
  /\ at[Beat] = "watch" /\ circuit = "closed" /\ conn /\ Fault /\ Disconnect(at)
  /\ UNCHANGED <<attempts, shutdown, refreshed, client, torn>>

-----------------------------------------------------------------------------
(* The main thread: connect, get_tick and logout.                           *)
Login ==
  /\ at[Main] = "out" /\ sessions < MaxSessions /\ sessions' = sessions + 1
  /\ shutdown' = FALSE /\ at' = Move(Main, "connect")
  /\ flag' = FALSE /\ ws' = "none" /\ late' = FALSE     \* a new client
  /\ UNCHANGED <<conn, circuit, attempts, running, refreshed, history, faults>>

RefreshFails ==
  /\ at[Main] = "run" /\ conn /\ Fault /\ Disconnect(at)
  /\ UNCHANGED <<attempts, shutdown, refreshed, client, torn>>

Logout ==
  /\ at[Main] = "run" /\ at' = Move(Main, "out")
  /\ shutdown' = TRUE /\ conn' = FALSE /\ StopSocket
  /\ UNCHANGED <<circuit, attempts, running, refreshed, history, counts>>

-----------------------------------------------------------------------------
(* The network: callbacks of the client's sockets.                          *)
SocketOpens ==
  /\ \/ ws = "opening" /\ ws' = "open" /\ UNCHANGED late
     \/ late /\ late' = FALSE /\ UNCHANGED ws
  /\ flag' = TRUE
  /\ UNCHANGED <<conn, circuit, attempts, running, shutdown, refreshed, at, history, counts>>

\* _on_ws_error and _on_ws_close of the active socket.
SocketDrops ==
  /\ ws \in {"opening", "open"} /\ ws' = "dead" /\ flag' = FALSE /\ Fault
  /\ (Disconnect(at) \/ LimitHit)
  /\ UNCHANGED <<attempts, shutdown, refreshed, late, torn>>

\* The error of a socket that was stopped is passed on like any other.
LateFails ==
  /\ late /\ late' = FALSE /\ Fault /\ (Disconnect(at) \/ LimitHit)
  /\ UNCHANGED <<attempts, shutdown, refreshed, flag, ws, torn>>

\* _on_ws_tick: a tick of any token, the spot's included, resets the count.
TickResets ==
  /\ flag /\ attempts > 0 /\ attempts' = 0 /\ Fault
  /\ UNCHANGED <<conn, circuit, running, shutdown, refreshed, client, at, history>>

CoolsDown ==
  /\ circuit = "cooling" /\ circuit' = "cooled"
  /\ UNCHANGED <<conn, attempts, running, shutdown, refreshed, client, at, history, counts>>

Network == SocketOpens \/ SocketDrops \/ LateFails \/ TickResets
Next ==
  \/ Login \/ RefreshFails \/ Logout
  \/ BeatEnds \/ Premarket \/ NoTicks
  \/ \E t \in Threads : Start(t)
  \/ \E w \in Workers : Worker(w)
  \/ Network \/ CoolsDown

Spec == Init /\ [][Next]_vars

\* Threads run and time passes; sockets and the operator owe nothing.
FairSpec ==
  /\ Spec
  /\ \A t \in Threads : WF_vars(Start(t))
  /\ \A w \in Workers : WF_vars(Worker(w))
  /\ WF_vars(BeatEnds) /\ WF_vars(CoolsDown)

-----------------------------------------------------------------------------
Quiet == Alive = {} /\ \A t \in Threads : ~InStart(t)

\* At most one reconnect worker, over drops, logouts and new logins, and the
\* flag that guards it is up exactly while there is one.
OneWorker == Cardinality(Alive) <= 1 /\ (running <=> Alive # {})

\* A session that is down with nobody reconnecting has opened its circuit, was
\* given up by a start outside the worker, or lost its drop to an ending worker.
DownExplained ==
  Quiet /\ at[Main] = "run" /\ ~shutdown /\ ~conn => circuit # "closed" \/ left # "no"

\* _ws_connected stands for an open socket, unless a thread stopped the socket
\* under it or the socket dropped just before it was set.
UpBacked == Quiet /\ conn => (ws = "open" /\ flag) \/ torn

\* What the flags say of the connection is explained by what happened to it.
FlagsExplained == DownExplained /\ UpBacked

\* Threads that share one socket do not reconnect it twice, and the flags they
\* leave behind are explained (reconnect_manager.py).
ThreadsHonest == OneWorker /\ FlagsExplained

\* A logout ends the worker and the heartbeat, wherever they stand.
LogoutEnds == shutdown ~> (~shutdown \/ (Quiet /\ at[Beat] = "ended"))

=============================================================================

------------------------------- MODULE RestClient -------------------------------
(***************************************************************************)
(* The REST side of the broker client (brokers/angel_one: auth, orders,    *)
(* market data) as the bot's loop drives it: one call at a time, each with *)
(* its own guards, retries and place in the shared circuit breaker, and    *)
(* the two callers that chain them: token lookup before an order or a      *)
(* price (core/trading/broker.py), and the search for a strike whose       *)
(* premium is in range (core/trading/strike_selector.py).                  *)
(***************************************************************************)
EXTENDS Integers, Sequences, FiniteSets

CONSTANTS
  Strikes,        \* in the order they are searched: the money first
  Premiums, Lowest, Highest, Middle,    \* STRIKE_PREMIUM_MIN, _MAX and their middle
  Tokens,         \* the broker may rename a contract
  Threshold, Cooldown, Ttl, Tries,      \* _api_error_threshold, _api_cooldown_duration, ...
  RetryWaits,     \* 2, 4, 8, ...: the wait after each refused try
  MaxTime, MaxErrors,
  None

VARIABLES
  now, held,      \* held: the session's tokens, "none", "some" (no feed token) or "all"
  logged,         \* is_logged_in
  errors, coolUntil,   \* _api_error_count, _api_cooldown_until
  cache,          \* symbol_cache and symbol_cache_ttl: strike -> [token, until] or None
  tokenMap,       \* Broker.token_map: strike -> token or None, never expires
  call,           \* the request on its way, or None
  answer,         \* what the last call returned to its caller
  scan,           \* the search for a strike, or None
  streak,         \* failed lookups and prices since the last one that worked
  openedAt,       \* that streak when the breaker last opened, 0 if it never did
  told            \* strike -> [token, at] the broker last answered, or None

restVars == <<now, held, logged, errors, coolUntil, cache, tokenMap, call, answer, scan,
              streak, openedAt, told>>
login   == <<held, logged>>
breaker == <<errors, coolUntil, streak, openedAt>>
names   == <<cache, tokenMap, told>>

Contracts == {Strikes[k] : k \in 1..Len(Strikes)}
Later(t) == IF t <= MaxTime THEN t ELSE MaxTime
Cooling == now < coolUntil
\* What a call returns, next to a price.
Nothing == 0
Raised == -1
Served == -2

\* The master's file, or what is left of an older one, names some of the contracts.
Init ==
  /\ tokenMap \in [Contracts -> Tokens \cup {None}]
  /\ now = 0 /\ held = "none" /\ logged = FALSE /\ errors = 0 /\ coolUntil = 0
  /\ cache = [s \in Contracts |-> None]
  /\ call = None /\ answer = None /\ scan = None
  /\ streak = 0 /\ openedAt = 0 /\ told = [s \in Contracts |-> None]
-----------------------------------------------------------------------------
\* The breaker: errors in a row are counted, and the count that equals the threshold opens it.
\* Slip: an answer does not end the row of errors.
WorkedOnly == streak' = 0 /\ UNCHANGED <<errors, coolUntil, openedAt>>
Worked == errors' = 0 /\ streak' = 0 /\ UNCHANGED <<coolUntil, openedAt>>
Failed ==
  /\ errors < MaxErrors
  /\ errors' = errors + 1 /\ streak' = streak + 1
  /\ IF errors' = Threshold THEN coolUntil' = now + Cooldown /\ openedAt' = streak'
                            ELSE UNCHANGED <<coolUntil, openedAt>>

Returns(x) == call' = None /\ answer' = x
Idle == call = None /\ answer = None

\* login, refresh_tokens, logout. A feed token that cannot be fetched leaves the others
\* set; a logout that raises leaves everything.
Login ==
  /\ Idle /\ scan = None
  /\ \/ held' = "all" /\ logged' = TRUE
     \/ held' = "some" /\ UNCHANGED logged
     \/ UNCHANGED login
  /\ UNCHANGED <<now, breaker, names, call, answer, scan>>
Refresh ==
  /\ Idle /\ scan = None /\ held # "none"
  /\ held' \in {held, "all"}
  /\ UNCHANGED <<now, logged, breaker, names, call, answer, scan>>
Logout ==
  /\ Idle /\ scan = None /\ held # "none"
  /\ held' = "none" /\ logged' = FALSE
  /\ UNCHANGED <<now, breaker, names, call, answer, scan>>
-----------------------------------------------------------------------------
\* get_symbol_token: the 24 h cache, then the search unless the breaker is open.
CacheValid(s) == cache[s] # None /\ now < cache[s].until

Resolved(s, who, t) ==
  /\ call' = [op |-> "resolved", s |-> s, try |-> 0, who |-> who, token |-> t] /\ answer' = None
Lookup(s, who) ==
  IF CacheValid(s) THEN Resolved(s, who, cache[s].token) /\ UNCHANGED <<cache, told>>
  ELSE /\ cache' = [cache EXCEPT ![s] = None] /\ UNCHANGED told
       /\ IF Cooling THEN Returns(Nothing)
          ELSE /\ call' = [op |-> "search", s |-> s, try |-> 0, who |-> who, token |-> None]
               /\ answer' = None

\* Broker._get_token, for the strike search: the instrument master's map first, and what
\* the lookup finds goes into it for good.
GetToken(s) ==
  IF tokenMap[s] # None THEN Resolved(s, "scan", tokenMap[s]) /\ UNCHANGED names
  ELSE /\ Lookup(s, "scan")
       /\ tokenMap' = IF CacheValid(s) THEN [tokenMap EXCEPT ![s] = cache[s].token] ELSE tokenMap

\* searchScrip answers with the contract among others, without it, or not at all.
SearchAnswered ==
  /\ call # None /\ call.op = "search"
  /\ \/ \E t \in Tokens :
          /\ held # "none" /\ Worked
          /\ cache' = [cache EXCEPT ![call.s] = [token |-> t, until |-> now + Ttl]]
          /\ told' = [told EXCEPT ![call.s] = [token |-> t, at |-> now]]
          /\ tokenMap' = IF call.who = "scan" THEN [tokenMap EXCEPT ![call.s] = t] ELSE tokenMap
          /\ call' = [call EXCEPT !.op = "resolved", !.token = t]
          /\ UNCHANGED answer
     \/ held # "none" /\ Returns(Nothing) /\ UNCHANGED <<breaker, names>>
     \/ Failed /\ Returns(Nothing) /\ UNCHANGED names
  /\ UNCHANGED <<now, login, scan>>

\* With the token in hand: an order goes out; a price asks the breaker first.
Proceed ==
  /\ call # None /\ call.op = "resolved"
  /\ IF call.who = "order" THEN call' = [call EXCEPT !.op = "plain"] /\ UNCHANGED answer
     ELSE IF Cooling THEN Returns(Nothing)
     ELSE call' = [call EXCEPT !.op = "ltp"] /\ UNCHANGED answer
  /\ UNCHANGED <<now, login, breaker, names, scan>>

Retried(op) == op \in {"ltp", "many"}    \* get_ltp; get_ltp_batch and get_option_greeks
\* "Access denied": wait 2, 4, ... and ask again, up to max_retries.
Denied ==
  /\ call # None /\ Retried(call.op) /\ logged
  /\ now' = Later(now + RetryWaits[call.try + 1])
  /\ IF call.try + 1 < Tries THEN call' = [call EXCEPT !.try = @ + 1] /\ UNCHANGED answer
                             ELSE Returns(Nothing)
  /\ UNCHANGED <<login, breaker, names, scan>>

LtpAnswered ==
  /\ call # None /\ call.op = "ltp"
  /\ \/ ~logged /\ Returns(Raised) /\ UNCHANGED breaker    \* _ensure_logged_in
     \/ logged /\ \E p \in Premiums : Returns(p) /\ Worked
     \/ logged /\ Returns(Nothing) /\ UNCHANGED breaker
     \/ logged /\ Failed /\ Returns(Nothing)
  /\ UNCHANGED <<now, login, names, scan>>

\* get_ltp_batch, get_option_greeks: outside the breaker. A batch that is refused
\* otherwise is asked for again at once.
ManyAnswered ==
  /\ call # None /\ call.op = "many"
  /\ \/ Returns(IF logged THEN Served ELSE Raised)
     \/ logged /\ Returns(Nothing)
     \/ logged /\ call.try + 1 < Tries /\ call' = [call EXCEPT !.try = @ + 1] /\ UNCHANGED answer
  /\ UNCHANGED <<now, login, breaker, names, scan>>

\* One request, no breaker: orders, books, profile, funds, quotes, candles.
PlainAnswered ==
  /\ call # None /\ call.op = "plain"
  /\ Returns(IF logged THEN Served ELSE Raised) \/ (logged /\ Returns(Nothing))
  /\ UNCHANGED <<now, login, breaker, names, scan>>
-----------------------------------------------------------------------------
\* The bot's loop starts a call when the last one has been dealt with.
AskPrice(s) ==     \* get_market_tick
  /\ Idle /\ scan = None /\ Lookup(s, "tick") /\ UNCHANGED <<now, login, breaker, tokenMap, scan>>
PlaceOrder(s) ==   \* place_order: a token it was given, or the lookup
  /\ Idle /\ scan = None
  /\ \/ ~logged /\ Returns(Raised) /\ UNCHANGED <<cache, told>>
     \/ logged /\ Lookup(s, "order")
     \/ /\ logged /\ tokenMap[s] # None /\ UNCHANGED <<cache, told>>
        /\ Resolved(s, "order", tokenMap[s])
  /\ UNCHANGED <<now, login, breaker, tokenMap, scan>>
AskOther(op) ==
  /\ Idle /\ scan = None
  /\ call' = [op |-> op, s |-> None, try |-> 0, who |-> "other", token |-> None]
  /\ UNCHANGED <<now, login, breaker, names, answer, scan>>
TakeAnswer ==
  /\ answer # None /\ scan = None /\ answer' = None
  /\ UNCHANGED <<now, login, breaker, names, call, scan>>

\* _find_strike_by_premium: every strike is priced; the one in range nearest the middle is
\* kept, the money when none is.
Distance(p) == IF p >= Middle THEN p - Middle ELSE Middle - p
InRange(p) == Lowest <= p /\ p <= Highest
StartScan ==
  /\ Idle /\ scan = None
  /\ scan' = [k |-> 1, best |-> None, premium |-> None, seen |-> <<>>]
  /\ GetToken(Strikes[1])
  /\ UNCHANGED <<now, login, breaker>>

Better(p) == p \in Premiums /\ InRange(p)
             /\ (scan.best = None \/ Distance(p) < Distance(scan.premium))
ScanNext ==
  /\ scan # None /\ call = None /\ answer # None /\ scan.k <= Len(Strikes)
  /\ scan' = [scan EXCEPT !.seen = Append(@, answer), !.k = @ + 1,
                          !.best = IF Better(answer) THEN Strikes[scan.k] ELSE @,
                          !.premium = IF Better(answer) THEN answer ELSE @]
  /\ IF scan.k < Len(Strikes) THEN GetToken(Strikes[scan.k + 1])
     ELSE answer' = None /\ UNCHANGED <<names, call>>
  /\ UNCHANGED <<now, login, breaker>>

\* No strike in range: the money, priced once more.
ScanEnds ==
  /\ scan # None /\ scan.k > Len(Strikes) /\ scan' = None
  /\ IF scan.best = None THEN GetToken(Strikes[1]) ELSE UNCHANGED <<names, call, answer>>
  /\ UNCHANGED <<now, login, breaker>>

Wait == /\ now < MaxTime /\ now' = now + 1 /\ call = None /\ scan = None
        /\ UNCHANGED <<login, breaker, names, call, answer, scan>>
Next ==
  \/ Login \/ Refresh \/ Logout \/ SearchAnswered \/ Proceed \/ Denied \/ LtpAnswered
  \/ ManyAnswered \/ PlainAnswered \/ StartScan \/ ScanNext \/ ScanEnds \/ TakeAnswer \/ Wait
  \/ \E s \in Contracts : AskPrice(s) \/ PlaceOrder(s)
  \/ \E op \in {"many", "plain"} : AskOther(op)
Spec == Init /\ [][Next]_restVars
-----------------------------------------------------------------------------
\* The breaker opens for a row of failures only, and while it is open no lookup and no
\* price is asked of the broker (get_ltp, get_symbol_token).
CooldownEarned ==
  /\ Cooling => openedAt >= Threshold
  /\ call # None /\ call.op \in {"search", "ltp"} => ~Cooling

\* What a lookup serves is what the broker last said of the contract, not older than the
\* time to live (get_symbol_token); only the master's map may be older.
TokenTrue ==
  call # None /\ call.op = "resolved" /\ call.who = "tick" =>
    told[call.s] # None /\ told[call.s].token = call.token /\ now <= told[call.s].at + Ttl

\* A scan over every strike settles on one in range that was quoted, no other quoted one
\* nearer the middle, however many quotes the breaker and the limits swallowed; on the
\* money only when no quote was in range (_find_strike_by_premium).
StrikeChosen ==
  scan # None /\ scan.k > Len(Strikes) =>
    LET inRange == {k \in 1..Len(scan.seen) : scan.seen[k] \in Premiums /\ InRange(scan.seen[k])} IN
    /\ Len(scan.seen) = Len(Strikes)
    /\ (scan.best = None) = (inRange = {})
    /\ scan.best # None => \E k \in inRange :
         /\ scan.best = Strikes[k] /\ scan.premium = scan.seen[k]
         /\ \A j \in inRange : Distance(scan.seen[k]) <= Distance(scan.seen[j])

\* A session that counts as logged in has its tokens (login, logout, refresh_tokens).
LoggedInMeansTokens == logged => held # "none"

RestHonest == CooldownEarned /\ TokenTrue /\ StrikeChosen /\ LoggedInMeansTokens
=============================================================================

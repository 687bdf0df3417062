----------------------------- MODULE GetQuotes ------------------------------
(***************************************************************************)
(* PregaoServer.GetQuotes (internal/service/service.go) over the Redis     *)
(* cache and the broker's bookTicker request (internal/broker/binance/     *)
(* client.go).  Calls run at once on any number of replicas and share only *)
(* Redis.  The clock is discrete and every remote request is over, with a  *)
(* result or a timeout, StepTime after it began; commands that Redis was   *)
(* sent may still run for Linger after their sender gave up.               *)
(***************************************************************************)
EXTENDS QuotesCache, FiniteSets

CONSTANTS Calls,       \* the GetQuotes calls of a behaviour
          StepTime,    \* the longest time one request to Redis or the broker takes
          Linger,      \* the longest time after which Redis runs a command nobody waits for
          Second,      \* ticks of the clock per second, the unit of a timestamp
          FaultModes,  \* whether requests to Redis may fail in a behaviour
          MaxTime      \* bound on the clock

ASSUME StepTimeAssumption == {StepTime, Linger} \subseteq Nat /\ FaultModes \subseteq BOOLEAN
ASSUME SecondAssumption == Second \in Nat \ {0}

VARIABLES redisFaults, \* requests to Redis may fail
          now,      \* the clock
          fresh,    \* the keys pregao:quotes:<provider>:<symbol>
          stale,    \* the keys pregao:quotes:stale:<provider>:<symbol>
          pc,       \* pc[c]: where call c is in GetQuotes
          began,    \* began[c]: when the step that c is in began, or c ended
          request,  \* request[c]: cleanSymbols, the symbols trimmed and deduplicated
          misses,   \* misses[c]: the symbols the cache did not answer
          toSet,    \* toSet[c]: the commands of the pipeline that are still to run
          quotes    \* quotes[c]: resultQuotes

vars == <<redisFaults, now, fresh, stale, pc, began, request, misses, toSet, quotes>>

Live   == {"mget", "tickers", "set", "fallback"}
Places == {"idle", "done"} \cup Live

NoQuotes == [s \in Symbols |-> NoQuote]

\* The pipeline of SetQuotes: for each symbol the fresh key, then the stale key.
Pipeline(symbols) == {"fresh", "stale"} \X symbols

\* The symbol whose fresh key is written and whose stale key is not.
HalfSet(c) == {s \in Symbols : <<"stale", s>> \in toSet[c] /\ <<"fresh", s>> \notin toSet[c]}

Init ==
    /\ redisFaults \in FaultModes
    /\ now = 0
    /\ fresh = [s \in Symbols |-> NoEntry]
    /\ stale = [s \in Symbols |-> NoEntry]
    /\ pc = [c \in Calls |-> "idle"]
    /\ began = [c \in Calls |-> 0]
    /\ request \in [Calls -> SUBSET Symbols]
    /\ misses = [c \in Calls |-> {}]
    /\ toSet = [c \in Calls |-> {}]
    /\ quotes = [c \in Calls |-> NoQuotes]

-----------------------------------------------------------------------------
Goto(c, place) ==
    /\ pc' = [pc EXCEPT ![c] = place]
    /\ began' = [began EXCEPT ![c] = now]

\* Quotes found in a step are added to the result.
Add(c, found) ==
    quotes' = [quotes EXCEPT ![c] = [s \in Symbols |->
                                        IF found[s] # NoQuote THEN found[s] ELSE quotes[c][s]]]

Arrive(c) ==
    /\ pc[c] = "idle"
    /\ Goto(c, "mget")
    /\ UNCHANGED <<now, fresh, stale, request, misses, toSet, quotes>>

\* Step 1: the fresh keys.  No symbols, or no misses, end the call.
GetCachedQuotes(c) ==
    /\ pc[c] = "mget"
    /\ LET missed == request[c] \ Hits(fresh, request[c])
       IN  /\ misses' = [misses EXCEPT ![c] = missed]
           /\ Goto(c, IF missed = {} THEN "done" ELSE "tickers")
    /\ Add(c, GetFreshQuotes(fresh, request[c]))
    /\ UNCHANGED <<now, fresh, stale, request, toSet>>

\* Fault: a cache error is returned without misses.
GetCachedQuotesFailsEmpty(c) ==
    /\ pc[c] = "mget"
    /\ redisFaults
    /\ Goto(c, "done")
    /\ UNCHANGED <<now, fresh, stale, request, misses, toSet, quotes>>

\* An error of Redis makes every symbol a miss.
GetCachedQuotesFails(c) ==
    /\ pc[c] = "mget"
    /\ redisFaults
    /\ request[c] # {}
    /\ misses' = [misses EXCEPT ![c] = request[c]]
    /\ Goto(c, "tickers")
    /\ UNCHANGED <<now, fresh, stale, request, toSet, quotes>>

\* Step 2: the broker quotes the misses while the request is under way.  Of a list, tickers it
\* leaves out or that do not parse are skipped; a single ticker that does not parse is an error.
\* The timestamp is the time of the answer in whole seconds, time.Now().Unix().  The code keys
\* the tickers by the symbols in the answer; that these are among the symbols asked for is an
\* assumption on the broker.
GetBookTickers(c) ==
    /\ pc[c] = "tickers"
    /\ \E tickers \in SUBSET misses[c], seen \in began[c]..now :
          /\ Cardinality(misses[c]) = 1 => tickers = misses[c]
          /\ Add(c, [s \in Symbols |->
                        IF s \in tickers
                        THEN [seen |-> seen, timestamp |-> now \div Second, is_stale_cache |-> FALSE]
                        ELSE NoQuote])
          /\ toSet' = [toSet EXCEPT ![c] = Pipeline(tickers)]
          /\ Goto(c, IF tickers = {} THEN "done" ELSE "set")
    /\ UNCHANGED <<now, fresh, stale, request, misses>>

\* A timeout, a rate limit, any status but 200 or an unreadable body.
GetBookTickersFails(c) ==
    /\ pc[c] = "tickers"
    /\ Goto(c, "fallback")
    /\ UNCHANGED <<now, fresh, stale, request, misses, toSet, quotes>>

\* One command of the pipeline runs; commands of other clients may run between two of them.  After
\* an error some that Redis was sent may still run, although the call is over.
SetNext(c, key, s) ==
    /\ pc[c] \in {"set", "done"}
    /\ <<key, s>> \in toSet[c]
    /\ IF key = "fresh" THEN HalfSet(c) = {} ELSE s \in HalfSet(c)
    /\ IF key = "fresh"
       THEN fresh' = SetFresh(fresh, s, quotes[c][s], now) /\ UNCHANGED stale
       ELSE stale' = SetStale(stale, s, quotes[c][s], now) /\ UNCHANGED fresh
    /\ toSet' = [toSet EXCEPT ![c] = @ \ {<<key, s>>}]
    /\ UNCHANGED <<now, pc, began, request, misses, quotes>>

\* SetQuotes returns: the pipeline has run, or an error is logged, and the commands that have not
\* run yet may or may not have reached Redis.
SetQuotesReturns(c) ==
    /\ pc[c] = "set"
    /\ toSet[c] = {} \/ redisFaults
    /\ Goto(c, "done")
    /\ UNCHANGED <<now, fresh, stale, request, misses, toSet, quotes>>

\* Redis never got, or no longer runs, the commands of a call that gave up.
DropCommands(c) ==
    /\ pc[c] = "done"
    /\ redisFaults
    /\ toSet[c] # {}
    /\ toSet' = [toSet EXCEPT ![c] = {}]
    /\ UNCHANGED <<now, fresh, stale, pc, began, request, misses, quotes>>

\* Fault: a quote from the stale keys is stamped with the time of the answer.
FallbackRestamped(c) ==
    /\ pc[c] = "fallback"
    /\ LET found == GetStaleQuotes(stale, misses[c])
       IN  Add(c, [s \in Symbols |-> IF found[s] = NoQuote THEN NoQuote
                                     ELSE [found[s] EXCEPT !.timestamp = now \div Second]])
    /\ Goto(c, "done")
    /\ UNCHANGED <<now, fresh, stale, request, misses, toSet>>

\* Fault: the fallback reads the fresh keys again.
FallbackToFresh(c) ==
    /\ pc[c] = "fallback"
    /\ Add(c, GetFreshQuotes(fresh, misses[c]))
    /\ Goto(c, "done")
    /\ UNCHANGED <<now, fresh, stale, request, misses, toSet>>

\* Step 3: the stale keys of the misses.
Fallback(c) ==
    /\ pc[c] = "fallback"
    /\ Add(c, GetStaleQuotes(stale, misses[c]))
    /\ Goto(c, "done")
    /\ UNCHANGED <<now, fresh, stale, request, misses, toSet>>

FallbackFails(c) ==
    /\ pc[c] = "fallback"
    /\ redisFaults
    /\ Goto(c, "done")
    /\ UNCHANGED <<now, fresh, stale, request, misses, toSet, quotes>>

\* Time passes while no request is overdue, and keys expire.
Tick ==
    /\ now < MaxTime
    /\ \A c \in Calls : pc[c] \in Live => now - began[c] < StepTime
    /\ \A c \in Calls : pc[c] = "done" /\ toSet[c] # {} => now - began[c] < Linger
    /\ now' = now + 1
    /\ fresh' = Evict(fresh, now')
    /\ stale' = Evict(stale, now')
    /\ UNCHANGED <<pc, began, request, misses, toSet, quotes>>

Step(c) ==
    \/ Arrive(c) \/ GetCachedQuotes(c) \/ GetCachedQuotesFails(c)
    \/ GetBookTickers(c) \/ GetBookTickersFails(c)
    \/ \E key \in {"fresh", "stale"}, s \in Symbols : SetNext(c, key, s)
    \/ SetQuotesReturns(c) \/ DropCommands(c) \/ Fallback(c) \/ FallbackFails(c)

Finished == (\A c \in Calls : pc[c] = "done") /\ UNCHANGED vars

Next == \/ /\ (\E c \in Calls : Step(c)) \/ Tick
           /\ UNCHANGED redisFaults
        \/ Finished

Spec == Init /\ [][Next]_vars

-----------------------------------------------------------------------------
(* Properties. *)

\* The shape of every variable.
TypeOK ==
    /\ redisFaults \in BOOLEAN
    /\ now \in Nat
    /\ fresh \in [Symbols -> Entry \cup {NoEntry}]
    /\ stale \in [Symbols -> Entry \cup {NoEntry}]
    /\ pc \in [Calls -> Places]
    /\ began \in [Calls -> Nat]
    /\ request \in [Calls -> SUBSET Symbols]
    /\ misses \in [Calls -> SUBSET Symbols]
    /\ toSet \in [Calls -> SUBSET Pipeline(Symbols)]
    /\ quotes \in [Calls -> QuoteMap]

\* service.go, GetQuotes and redis.go's two expiries: when a call ends, a price that is not
\* flagged was quoted by the broker within FreshTTL and the four requests that lie between the
\* broker and the answer, a flagged one within StaleTTL and the two requests that cached it,
\* although slow calls, and commands that Redis runs after their sender gave up, may overwrite the
\* cache with older prices than it holds.
AgeIsBounded ==
    \A c \in Calls, s \in Symbols :
        pc[c] = "done" /\ quotes[c][s] # NoQuote =>
            began[c] - quotes[c][s].seen <
                Linger + IF quotes[c][s].is_stale_cache THEN StaleTTL + 2 * StepTime
                                                        ELSE FreshTTL + 4 * StepTime

\* service.go:136, time.Now().Unix(): the timestamp of every quote, cached or not, is in whole
\* seconds (docs/INTEGRATION_GUIDE.md:227 says milliseconds): the second in which the broker's answer
\* arrived, never that of a read.  It may begin before the price was quoted, but it
\* does not end before that, and it begins at most one request later.
TimestampIsHonest ==
    \A c \in Calls : \A s \in Quoted(quotes[c]) :
        /\ quotes[c][s].seen < (quotes[c][s].timestamp + 1) * Second
        /\ quotes[c][s].timestamp * Second <= quotes[c][s].seen + StepTime

\* service.go, GetQuotes: a requested symbol that is missing from the answer was asked of the
\* broker, also when Redis failed; provided that the broker answers only what it was asked, nothing
\* else is in the answer.
NothingForgotten ==
    \A c \in Calls :
        pc[c] = "done" => /\ request[c] \ Quoted(quotes[c]) \subseteq misses[c]
                          /\ Quoted(quotes[c]) \subseteq request[c]

\* redis.go, SetQuotes: while Redis works, a fresh key is always backed by a stale key that
\* outlives it, but for the moment between the two commands of a pipeline; the pipelines of
\* other calls may run in that moment.
StaleOutlivesFresh ==
    ~redisFaults => \A s \in Symbols :
        (\A c \in Calls : s \notin HalfSet(c)) /\ fresh[s] # NoEntry =>
            stale[s] # NoEntry /\ stale[s].expires > fresh[s].expires

\* docs/INTEGRATION_GUIDE.md:65, "degrades gracefully to stale cache": while Redis works, a call whose
\* broker request failed answers every requested symbol that the cache holds under either key when it ends.
DegradesToCache ==
    [][\A c \in Calls : ~redisFaults /\ pc[c] = "fallback" /\ pc'[c] = "done" =>
          \A s \in request[c] :
              /\ \A d \in Calls : s \notin HalfSet(d)
              /\ fresh[s] # NoEntry \/ stale[s] # NoEntry
              => quotes'[c][s] # NoQuote]_vars
=============================================================================

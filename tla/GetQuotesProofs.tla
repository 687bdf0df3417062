--------------------------- MODULE GetQuotesProofs --------------------------
(***************************************************************************)
(* Proofs about GetQuotes, for any calls, symbols, expiries and durations, *)
(* and a clock without a practical bound (MaxTime is any natural number).  *)
(***************************************************************************)
EXTENDS GetQuotes, TLAPS

-----------------------------------------------------------------------------
(* The operators of the cache. *)

Keys == [Symbols -> Entry \cup {NoEntry}]

\* Reading keys gives a map of quotes that holds exactly the hits.
LEMMA ReadLemma ==
    ASSUME NEW keys \in Keys, NEW symbols \in SUBSET Symbols, NEW flag \in BOOLEAN
    PROVE  /\ Read(keys, symbols, flag) \in QuoteMap
           /\ \A s \in Symbols :
                 /\ Read(keys, symbols, flag)[s] # NoQuote <=> s \in symbols /\ keys[s] # NoEntry
                 /\ s \in symbols /\ keys[s] # NoEntry =>
                       /\ Read(keys, symbols, flag)[s].seen = keys[s].seen
                       /\ Read(keys, symbols, flag)[s].timestamp = keys[s].timestamp
                       /\ Read(keys, symbols, flag)[s].is_stale_cache = flag
<1>1. \A s \in Symbols : s \in Hits(keys, symbols) <=> s \in symbols /\ keys[s] # NoEntry
  BY DEF Hits
<1>2. \A s \in Symbols : keys[s] # NoEntry =>
         [seen |-> keys[s].seen, timestamp |-> keys[s].timestamp, is_stale_cache |-> flag] \in Quote
  BY DEF Keys, Entry, Quote
<1> QED
  BY <1>1, <1>2, AbsenceAssumption DEF Read, QuoteMap

\* Writing a key.
LEMMA PutLemma ==
    ASSUME NEW keys \in Keys, NEW s \in Symbols, NEW quote \in Quote, NEW ttl \in Nat, NEW t \in Nat
    PROVE  /\ Put(keys, s, quote, ttl, t) \in Keys
           /\ Put(keys, s, quote, ttl, t)[s] # NoEntry
           /\ Put(keys, s, quote, ttl, t)[s].seen = quote.seen
           /\ Put(keys, s, quote, ttl, t)[s].timestamp = quote.timestamp
           /\ Put(keys, s, quote, ttl, t)[s].expires = t + ttl
           /\ \A q \in Symbols \ {s} : Put(keys, s, quote, ttl, t)[q] = keys[q]
<1>1. [seen |-> quote.seen, timestamp |-> quote.timestamp, expires |-> t + ttl] \in Entry
  BY DEF Quote, Entry
<1> QED
  BY <1>1, AbsenceAssumption DEF Put, Keys

\* Expiry drops exactly the keys whose time is over.
LEMMA EvictLemma ==
    ASSUME NEW keys \in Keys, NEW t \in Nat
    PROVE  /\ Evict(keys, t) \in Keys
           /\ \A s \in Symbols :
                 /\ Evict(keys, t)[s] # NoEntry => Evict(keys, t)[s] = keys[s] /\ keys[s].expires > t
                 /\ keys[s] # NoEntry /\ keys[s].expires > t => Evict(keys, t)[s] = keys[s]
<1>1. \A s \in Symbols : keys[s] # NoEntry => keys[s].expires \in Nat
  BY DEF Keys, Entry
<1> QED
  BY <1>1 DEF Evict, Keys

\* Adding quotes to the result of a call leaves the other calls alone.
LEMMA AddLemma ==
    ASSUME TypeOK, NEW c \in Calls, NEW found \in QuoteMap, Add(c, found)
    PROVE  /\ quotes' \in [Calls -> QuoteMap]
           /\ \A d \in Calls \ {c} : quotes'[d] = quotes[d]
           /\ \A s \in Symbols :
                 quotes'[c][s] = IF found[s] # NoQuote THEN found[s] ELSE quotes[c][s]
<1>1. [s \in Symbols |-> IF found[s] # NoQuote THEN found[s] ELSE quotes[c][s]] \in QuoteMap
  BY DEF TypeOK, QuoteMap
<1> QED
  BY <1>1 DEF Add, TypeOK

\* The quotes of the broker's answer.
Answered(tickers, seen) ==
    [s \in Symbols |-> IF s \in tickers
                       THEN [seen |-> seen, timestamp |-> now \div Second, is_stale_cache |-> FALSE]
                       ELSE NoQuote]

\* The second in which a moment lies has begun and is not over.
LEMMA SecondLemma ==
    ASSUME NEW t \in Nat
    PROVE  /\ t \div Second \in Nat
           /\ (t \div Second) * Second <= t
           /\ t < (t \div Second + 1) * Second
<1>1. t \div Second \in Int /\ t % Second \in 0 .. Second - 1 /\ t = Second * (t \div Second) + (t % Second)
  BY SecondAssumption
<1> DEFINE d == t \div Second
           r == t % Second
<1> HIDE DEF d, r
<1>2. d \in Int /\ r \in 0 .. Second - 1 /\ t = Second * d + r
  BY <1>1 DEF d, r
<1>3. Second * d = d * Second /\ (d + 1) * Second = d * Second + Second
  BY <1>2, SecondAssumption
<1>4. d \in Nat
  <2> SUFFICES ASSUME d <= -1 PROVE FALSE
    BY <1>2
  <2>1. Second * d <= -Second
    BY <1>2, SecondAssumption
  <2> QED
    BY <1>2, <2>1, SecondAssumption
<1> QED
  BY <1>2, <1>3, <1>4, SecondAssumption DEF d

\* They form a map that holds exactly the tickers, stamped with the time of the answer.
LEMMA AnsweredLemma ==
    ASSUME TypeOK, NEW tickers \in SUBSET Symbols, NEW seen \in Nat
    PROVE  /\ Answered(tickers, seen) \in QuoteMap
           /\ \A s \in Symbols :
                 /\ Answered(tickers, seen)[s] # NoQuote <=> s \in tickers
                 /\ s \in tickers => /\ Answered(tickers, seen)[s].seen = seen
                                     /\ Answered(tickers, seen)[s].timestamp = now \div Second
                                     /\ Answered(tickers, seen)[s].is_stale_cache = FALSE
<1>1. [seen |-> seen, timestamp |-> now \div Second, is_stale_cache |-> FALSE] \in Quote
  BY SecondLemma DEF TypeOK, Quote
<1> QED
  BY <1>1, AbsenceAssumption DEF Answered, QuoteMap

-----------------------------------------------------------------------------
(* Type correctness. *)

\* What is queued for the cache has a quote.
Queued(c) == \A key \in {"fresh", "stale"}, s \in Symbols :
    <<key, s>> \in toSet[c] => quotes[c][s] # NoQuote

\* Every step keeps the shape of the state, because SetQuotes writes only quotes.
LEMMA TypePreserved ==
    ASSUME TypeOK, \A c \in Calls : Queued(c), [Next]_vars
    PROVE  TypeOK'
<1> USE DEF Places, Live
<1>0. /\ redisFaults \in BOOLEAN /\ now \in Nat
      /\ fresh \in Keys /\ stale \in Keys
      /\ pc \in [Calls -> Places] /\ began \in [Calls -> Nat]
      /\ request \in [Calls -> SUBSET Symbols] /\ misses \in [Calls -> SUBSET Symbols]
      /\ toSet \in [Calls -> SUBSET Pipeline(Symbols)]
      /\ quotes \in [Calls -> QuoteMap]
  BY DEF TypeOK, Keys
<1> DEFINE Shape == /\ now' \in Nat
                    /\ fresh' \in Keys /\ stale' \in Keys
                    /\ pc' \in [Calls -> Places] /\ began' \in [Calls -> Nat]
                    /\ request' \in [Calls -> SUBSET Symbols]
                    /\ misses' \in [Calls -> SUBSET Symbols]
                    /\ toSet' \in [Calls -> SUBSET Pipeline(Symbols)]
                    /\ quotes' \in [Calls -> QuoteMap]
<1>1. ASSUME NEW c \in Calls, Step(c) PROVE Shape
  <2>0. \A place \in Places : Goto(c, place) => pc' \in [Calls -> Places] /\ began' \in [Calls -> Nat]
    BY <1>0 DEF Goto
  <2>1. CASE Arrive(c)
    BY <2>1, <1>0, <2>0 DEF Arrive
  <2>2. CASE GetCachedQuotes(c)
    <3>0. GetFreshQuotes(fresh, request[c]) \in QuoteMap
      BY <1>0, ReadLemma DEF GetFreshQuotes
    <3>1. quotes' \in [Calls -> QuoteMap]
      BY <2>2, <3>0, AddLemma DEF GetCachedQuotes
    <3>2. pc' \in [Calls -> Places] /\ began' \in [Calls -> Nat]
      BY <2>2, <1>0 DEF GetCachedQuotes, Goto
    <3> QED
      BY <2>2, <1>0, <3>1, <3>2 DEF GetCachedQuotes
  <2>3. CASE GetCachedQuotesFails(c)
    BY <2>3, <1>0, <2>0 DEF GetCachedQuotesFails
  <2>4. CASE GetBookTickers(c)
    <3>1. PICK tickers \in SUBSET misses[c], seen \in began[c]..now :
             /\ Add(c, Answered(tickers, seen))
             /\ toSet' = [toSet EXCEPT ![c] = Pipeline(tickers)]
             /\ Goto(c, IF tickers = {} THEN "done" ELSE "set")
      BY <2>4 DEF GetBookTickers, Answered
    <3>2. tickers \in SUBSET Symbols /\ seen \in Nat
      BY <1>0, <3>1
    <3>3. quotes' \in [Calls -> QuoteMap]
      BY <3>1, <3>2, AnsweredLemma, AddLemma
    <3>4. Pipeline(tickers) \in SUBSET Pipeline(Symbols)
      BY <3>2 DEF Pipeline
    <3> QED
      BY <2>4, <1>0, <2>0, <3>1, <3>3, <3>4 DEF GetBookTickers
  <2>5. CASE GetBookTickersFails(c)
    BY <2>5, <1>0, <2>0 DEF GetBookTickersFails
  <2>6. ASSUME NEW key \in {"fresh", "stale"}, NEW s \in Symbols, SetNext(c, key, s) PROVE Shape
    <3>1. toSet' \in [Calls -> SUBSET Pipeline(Symbols)]
      BY <2>6, <1>0 DEF SetNext
    <3>2. quotes[c][s] \in Quote
      BY <2>6, <1>0 DEF SetNext, Queued, QuoteMap
    <3>3. /\ SetFresh(fresh, s, quotes[c][s], now) \in Keys
          /\ SetStale(stale, s, quotes[c][s], now) \in Keys
      BY <3>2, <1>0, PutLemma, TTLAssumption DEF SetFresh, SetStale
    <3> QED
      BY <2>6, <3>1, <3>3, <1>0 DEF SetNext
  <2>7. CASE SetQuotesReturns(c)
    BY <2>7, <1>0, <2>0 DEF SetQuotesReturns
  <2>10. CASE DropCommands(c)
    BY <2>10, <1>0 DEF DropCommands
  <2>8. CASE Fallback(c)
    <3>0. GetStaleQuotes(stale, misses[c]) \in QuoteMap
      BY <1>0, ReadLemma DEF GetStaleQuotes
    <3>1. quotes' \in [Calls -> QuoteMap]
      BY <2>8, <3>0, AddLemma DEF Fallback
    <3> QED
      BY <2>8, <1>0, <2>0, <3>1 DEF Fallback
  <2>9. CASE FallbackFails(c)
    BY <2>9, <1>0, <2>0 DEF FallbackFails
  <2> QED
    BY <1>1, <2>1, <2>2, <2>3, <2>4, <2>5, <2>6, <2>7, <2>8, <2>9, <2>10 DEF Step
<1>2. ASSUME Tick PROVE Shape
  <2>1. now' \in Nat
    BY <1>2, <1>0 DEF Tick
  <2> QED
    BY <1>2, <1>0, <2>1, EvictLemma DEF Tick
<1>3. ASSUME UNCHANGED vars PROVE Shape
  BY <1>0, <1>3 DEF vars
<1>4. redisFaults' = redisFaults
  BY DEF Next, Finished, vars
<1>5. Shape
  BY <1>1, <1>2, <1>3 DEF Next, Finished
<1> QED
  BY <1>0, <1>4, <1>5 DEF TypeOK, Keys

-----------------------------------------------------------------------------
(* The inductive invariant. *)

Honest(q) == /\ q.seen < (q.timestamp + 1) * Second
             /\ q.timestamp * Second <= q.seen + StepTime

\* A key that is set has not expired and expires at most one ticker request, one pipeline and the
\* time of a late command later than its price alone would.
FreshInv(s) == fresh[s] # NoEntry =>
    /\ now < fresh[s].expires
    /\ fresh[s].expires <= now + FreshTTL
    /\ fresh[s].expires <= fresh[s].seen + 2 * StepTime + Linger + FreshTTL
    /\ Honest(fresh[s])

StaleInv(s) == stale[s] # NoEntry =>
    /\ now < stale[s].expires
    /\ stale[s].expires <= stale[s].seen + 2 * StepTime + Linger + StaleTTL
    /\ Honest(stale[s])

\* No request and no late command is overdue.
Timely(c) == /\ pc[c] \in Live => began[c] <= now /\ now <= began[c] + StepTime
             /\ pc[c] = "done" /\ toSet[c] # {} => began[c] <= now /\ now <= began[c] + Linger

\* Only a call in SetQuotes, or one that gave it up, has commands to run, each for a price the
\* broker just quoted.
Piped(c) ==
    /\ pc[c] \notin {"set", "done"} => toSet[c] = {}
    /\ \A key \in {"fresh", "stale"}, s \in Symbols :
          <<key, s>> \in toSet[c] =>
              /\ quotes[c][s] # NoQuote
              /\ pc[c] = "set" => began[c] <= quotes[c][s].seen + StepTime
              /\ pc[c] = "done" => began[c] <= quotes[c][s].seen + 2 * StepTime

\* The symbols that are not quoted after the first step are misses.
Asked(c) ==
    /\ pc[c] \in {"idle", "mget"} => \A s \in Symbols : quotes[c][s] = NoQuote
    /\ misses[c] \subseteq request[c]
    /\ \A s \in Symbols : quotes[c][s] # NoQuote => s \in request[c]
    /\ pc[c] \notin {"idle", "mget"} =>
          \A s \in request[c] : quotes[c][s] # NoQuote \/ s \in misses[c]

\* How old a price that call c holds was when the step c is in began.
Aged(c) == \A s \in Symbols : quotes[c][s] # NoQuote =>
    /\ Honest(quotes[c][s])
    /\ quotes[c][s].is_stale_cache =>
          pc[c] = "done" /\ began[c] < quotes[c][s].seen + StaleTTL + Linger + 2 * StepTime
    /\ ~quotes[c][s].is_stale_cache =>
          /\ pc[c] = "tickers" => began[c] < quotes[c][s].seen + FreshTTL + Linger + 2 * StepTime
          /\ pc[c] \in {"set", "fallback"} =>
                began[c] < quotes[c][s].seen + FreshTTL + Linger + 3 * StepTime
          /\ pc[c] = "done" => began[c] < quotes[c][s].seen + FreshTTL + Linger + 4 * StepTime

CallInv(c) == Timely(c) /\ Piped(c) /\ Asked(c) /\ Aged(c)

IInv == /\ TypeOK
        /\ \A s \in Symbols : FreshInv(s) /\ StaleInv(s)
        /\ \A c \in Calls : CallInv(c)

\* The prices a call holds are quotes, the set keys are entries.
LEMMA Values ==
    ASSUME TypeOK
    PROVE  /\ \A c \in Calls, s \in Symbols : quotes[c][s] # NoQuote =>
                 /\ quotes[c][s] \in Quote
                 /\ quotes[c][s].seen \in Nat /\ quotes[c][s].timestamp \in Nat
                 /\ quotes[c][s].is_stale_cache \in BOOLEAN
           /\ \A s \in Symbols : fresh[s] # NoEntry =>
                 fresh[s].seen \in Nat /\ fresh[s].timestamp \in Nat /\ fresh[s].expires \in Nat
           /\ \A s \in Symbols : stale[s] # NoEntry =>
                 stale[s].seen \in Nat /\ stale[s].timestamp \in Nat /\ stale[s].expires \in Nat
           /\ now \in Nat /\ \A c \in Calls : began[c] \in Nat
           /\ fresh \in Keys /\ stale \in Keys
BY DEF TypeOK, QuoteMap, Quote, Entry, Keys

\* A call that a step leaves alone keeps its invariant.
LEMMA Frame ==
    ASSUME NEW d \in Calls, CallInv(d), now' = now, request' = request,
           pc'[d] = pc[d], began'[d] = began[d], misses'[d] = misses[d],
           toSet'[d] = toSet[d], quotes'[d] = quotes[d]
    PROVE  CallInv(d)'
BY DEF CallInv, Timely, Piped, Asked, Aged, Honest

\* What a step of one call leaves alone.
LEMMA OthersUntouched ==
    ASSUME IInv, NEW c \in Calls, Step(c)
    PROVE  /\ now' = now /\ request' = request
           /\ \A d \in Calls \ {c} : CallInv(d)'
<1>0. TypeOK /\ \A d \in Calls : CallInv(d)
  BY DEF IInv
<1>1. now' = now /\ request' = request
  BY DEF Step, Arrive, GetCachedQuotes, GetCachedQuotesFails, GetBookTickers, GetBookTickersFails,
     SetNext, SetQuotesReturns, DropCommands, Fallback, FallbackFails
<1>2. ASSUME NEW d \in Calls \ {c}
      PROVE  pc'[d] = pc[d] /\ began'[d] = began[d]
  BY <1>0, <1>2 DEF Step, Arrive, GetCachedQuotes, GetCachedQuotesFails, GetBookTickers,
     GetBookTickersFails, SetNext, SetQuotesReturns, DropCommands, Fallback, FallbackFails, Goto, TypeOK
<1>3. ASSUME NEW d \in Calls \ {c}
      PROVE  misses'[d] = misses[d] /\ toSet'[d] = toSet[d]
  BY <1>0, <1>3 DEF Step, Arrive, GetCachedQuotes, GetCachedQuotesFails, GetBookTickers,
     GetBookTickersFails, SetNext, SetQuotesReturns, DropCommands, Fallback, FallbackFails, TypeOK
<1>4. ASSUME NEW d \in Calls \ {c}
      PROVE  quotes'[d] = quotes[d]
  BY <1>0, <1>4 DEF Step, Arrive, GetCachedQuotes, GetCachedQuotesFails, GetBookTickers,
     GetBookTickersFails, SetNext, SetQuotesReturns, DropCommands, Fallback, FallbackFails, Add, TypeOK
<1> QED
  BY <1>0, <1>1, <1>2, <1>3, <1>4, Frame

\* The call that takes a step keeps its invariant.
LEMMA OwnStep ==
    ASSUME IInv, NEW c \in Calls, Step(c)
    PROVE  CallInv(c)'
<1>0. /\ TypeOK /\ Timely(c) /\ Piped(c) /\ Asked(c) /\ Aged(c)
      /\ \A s \in Symbols : FreshInv(s) /\ StaleInv(s)
      /\ now' = now /\ request' = request
  BY OthersUntouched DEF IInv, CallInv
<1>1. /\ pc \in [Calls -> Places] /\ began \in [Calls -> Nat] /\ now \in Nat
      /\ misses \in [Calls -> SUBSET Symbols] /\ request \in [Calls -> SUBSET Symbols]
      /\ toSet \in [Calls -> SUBSET Pipeline(Symbols)] /\ quotes \in [Calls -> QuoteMap]
      /\ fresh \in Keys /\ stale \in Keys
      /\ StepTime \in Nat /\ Linger \in Nat /\ FreshTTL \in Nat /\ FreshTTL > 0 /\ StaleTTL \in Nat
  BY <1>0, StepTimeAssumption, TTLAssumption DEF TypeOK, Keys
<1>2. /\ \A s \in Symbols : quotes[c][s] # NoQuote =>
            /\ quotes[c][s].seen \in Nat /\ quotes[c][s].timestamp \in Nat
            /\ quotes[c][s].is_stale_cache \in BOOLEAN
      /\ \A s \in Symbols : fresh[s] # NoEntry =>
            fresh[s].seen \in Nat /\ fresh[s].timestamp \in Nat /\ fresh[s].expires \in Nat
      /\ \A s \in Symbols : stale[s] # NoEntry =>
            stale[s].seen \in Nat /\ stale[s].timestamp \in Nat /\ stale[s].expires \in Nat
  BY <1>0, Values
<1>g. \A place : Goto(c, place) => pc'[c] = place /\ began'[c] = now
  BY <1>1 DEF Goto
<1> USE DEF Live
<1>3. CASE Arrive(c)
  <2>1. /\ pc[c] = "idle" /\ pc'[c] = "mget" /\ began'[c] = now
        /\ misses' = misses /\ toSet' = toSet /\ quotes' = quotes
    BY <1>3, <1>g DEF Arrive
  <2>2. Timely(c)' /\ Piped(c)' /\ Asked(c)' /\ Aged(c)'
    BY <1>0, <1>1, <2>1 DEF Timely, Piped, Asked, Aged
  <2> QED
    BY <2>2 DEF CallInv
<1>4. CASE GetCachedQuotes(c)
  <2> DEFINE found == GetFreshQuotes(fresh, request[c])
  <2>1. /\ found \in QuoteMap
        /\ \A s \in Symbols :
              /\ found[s] # NoQuote <=> s \in request[c] /\ fresh[s] # NoEntry
              /\ found[s] # NoQuote => /\ found[s].seen = fresh[s].seen
                                       /\ found[s].timestamp = fresh[s].timestamp
                                       /\ found[s].is_stale_cache = FALSE
    <3>1. fresh \in Keys /\ request[c] \in SUBSET Symbols /\ FALSE \in BOOLEAN
      BY <1>1
    <3>2. /\ Read(fresh, request[c], FALSE) \in QuoteMap
          /\ \A s \in Symbols :
                /\ Read(fresh, request[c], FALSE)[s] # NoQuote <=> s \in request[c] /\ fresh[s] # NoEntry
                /\ s \in request[c] /\ fresh[s] # NoEntry =>
                      /\ Read(fresh, request[c], FALSE)[s].seen = fresh[s].seen
                      /\ Read(fresh, request[c], FALSE)[s].timestamp = fresh[s].timestamp
                      /\ Read(fresh, request[c], FALSE)[s].is_stale_cache = FALSE
      BY <3>1, ReadLemma, Zenon
    <3> QED
      BY <3>2, Zenon DEF GetFreshQuotes
  <2> HIDE DEF found
  <2>2. \A s \in Symbols : quotes'[c][s] = IF found[s] # NoQuote THEN found[s] ELSE quotes[c][s]
    BY <1>0, <1>4, <2>1, AddLemma DEF GetCachedQuotes, found
  <2>3. /\ pc[c] = "mget" /\ pc'[c] \in {"done", "tickers"} /\ began'[c] = now
        /\ pc'[c] = "done" => misses'[c] = {}
        /\ misses'[c] = request[c] \ Hits(fresh, request[c]) /\ toSet' = toSet
    BY <1>1, <1>4, <1>g DEF GetCachedQuotes
  <2>4. \A s \in Symbols : quotes'[c][s] = found[s]
    BY <1>0, <2>2, <2>3 DEF Asked
  <2>5. Timely(c)'
    BY <1>0, <1>1, <2>3 DEF Timely
  <2>6. Piped(c)'
    BY <1>0, <2>3 DEF Piped
  <2>7. Asked(c)'
    BY <1>0, <1>1, <2>1, <2>3, <2>4 DEF Asked, Hits
  <2>8. Aged(c)'
    BY <1>0, <1>1, <1>2, <2>1, <2>3, <2>4 DEF Aged, FreshInv, Honest
  <2> QED
    BY <2>5, <2>6, <2>7, <2>8 DEF CallInv
<1>5. CASE GetCachedQuotesFails(c)
  <2>1. /\ pc[c] = "mget" /\ pc'[c] = "tickers" /\ began'[c] = now
        /\ misses'[c] = request[c] /\ toSet' = toSet /\ quotes' = quotes
    BY <1>1, <1>5, <1>g DEF GetCachedQuotesFails
  <2>2. Timely(c)' /\ Piped(c)' /\ Asked(c)' /\ Aged(c)'
    BY <1>0, <1>1, <2>1 DEF Timely, Piped, Asked, Aged
  <2> QED
    BY <2>2 DEF CallInv
<1>6. CASE GetBookTickers(c)
  <2>1. PICK tickers \in SUBSET misses[c], seen \in began[c]..now :
           /\ Add(c, Answered(tickers, seen))
           /\ toSet' = [toSet EXCEPT ![c] = Pipeline(tickers)]
           /\ Goto(c, IF tickers = {} THEN "done" ELSE "set")
    BY <1>6 DEF GetBookTickers, Answered
  <2>2. tickers \in SUBSET Symbols /\ seen \in Nat /\ began[c] <= seen /\ seen <= now
    BY <1>1, <2>1
  <2> DEFINE found == Answered(tickers, seen)
  <2>3. /\ found \in QuoteMap
        /\ \A s \in Symbols :
              /\ found[s] # NoQuote <=> s \in tickers
              /\ s \in tickers => /\ found[s].seen = seen /\ found[s].timestamp = now \div Second
                                  /\ found[s].is_stale_cache = FALSE
    BY <1>0, <2>2, AnsweredLemma
  <2>4. Add(c, found)
    BY <2>1
  <2> HIDE DEF found
  <2>5. \A s \in Symbols : quotes'[c][s] = IF s \in tickers THEN found[s] ELSE quotes[c][s]
    BY <1>0, <2>3, <2>4, AddLemma
  <2>6. /\ pc[c] = "tickers" /\ began'[c] = now /\ misses' = misses
        /\ pc'[c] = IF tickers = {} THEN "done" ELSE "set"
        /\ toSet'[c] = Pipeline(tickers)
    BY <1>1, <1>6, <1>g, <2>1 DEF GetBookTickers
  <2>7. began[c] <= now /\ now <= began[c] + StepTime
    BY <1>0, <2>6 DEF Timely
  <2>8. Timely(c)'
    BY <1>0, <1>1, <2>6 DEF Timely
  <2>9. Piped(c)'
    <3>1. \A key \in {"fresh", "stale"}, s \in Symbols : <<key, s>> \in toSet'[c] => s \in tickers
      BY <2>6 DEF Pipeline
    <3>2. pc'[c] \notin {"set", "done"} => toSet'[c] = {}
      BY <2>6 DEF Pipeline
    <3>3. \A s \in tickers : /\ quotes'[c][s] # NoQuote
                             /\ began'[c] <= quotes'[c][s].seen + StepTime
                             /\ began'[c] <= quotes'[c][s].seen + 2 * StepTime
      BY <1>1, <2>2, <2>3, <2>5, <2>6, <2>7
    <3> QED
      BY <3>1, <3>2, <3>3 DEF Piped
  <2>10. Asked(c)'
    BY <1>0, <1>1, <2>2, <2>3, <2>5, <2>6 DEF Asked
  <2>11. Aged(c)'
    <3>1. \A s \in Symbols \ tickers : quotes'[c][s] = quotes[c][s]
      BY <2>5
    <3>2. \A s \in tickers : /\ quotes'[c][s].seen = seen /\ quotes'[c][s].timestamp = now \div Second
                             /\ quotes'[c][s].is_stale_cache = FALSE
      BY <2>2, <2>3, <2>5
    <3>3. \A s \in tickers : Honest(quotes'[c][s])
      <4>1. seen < (now \div Second + 1) * Second /\ (now \div Second) * Second <= seen + StepTime
        <5> DEFINE upper == (now \div Second + 1) * Second
                   lower == (now \div Second) * Second
        <5>1. now < upper /\ lower <= now /\ upper \in Int /\ lower \in Int
          BY <1>1, SecondLemma, SecondAssumption
        <5> HIDE DEF upper, lower
        <5>2. seen < upper /\ lower <= seen + StepTime
          BY <1>1, <2>2, <2>7, <5>1
        <5> QED
          BY <5>2 DEF upper, lower
      <4> QED
        BY <3>2, <4>1 DEF Honest
    <3>4. \A s \in Symbols \ tickers : quotes[c][s] # NoQuote => Honest(quotes'[c][s])
      BY <1>0, <3>1 DEF Aged
    <3> QED
      BY <1>0, <1>1, <1>2, <2>2, <2>6, <2>7, <3>1, <3>2, <3>3, <3>4 DEF Aged
  <2> QED
    BY <2>8, <2>9, <2>10, <2>11 DEF CallInv
<1>7. CASE GetBookTickersFails(c)
  <2>1. /\ pc[c] = "tickers" /\ pc'[c] = "fallback" /\ began'[c] = now
        /\ misses' = misses /\ toSet' = toSet /\ quotes' = quotes
    BY <1>7, <1>g DEF GetBookTickersFails
  <2>2. Timely(c)' /\ Piped(c)' /\ Asked(c)'
    BY <1>0, <1>1, <2>1 DEF Timely, Piped, Asked
  <2>3. Aged(c)'
    BY <1>0, <1>1, <1>2, <2>1 DEF Timely, Aged, Honest
  <2> QED
    BY <2>2, <2>3 DEF CallInv
<1>8. ASSUME NEW key \in {"fresh", "stale"}, NEW s \in Symbols, SetNext(c, key, s) PROVE CallInv(c)'
  <2>1. /\ pc' = pc /\ began' = began /\ misses' = misses /\ quotes' = quotes
        /\ toSet'[c] \subseteq toSet[c]
    BY <1>1, <1>8 DEF SetNext
  <2> QED
    BY <1>0, <2>1 DEF CallInv, Timely, Piped, Asked, Aged, Honest
<1>9. CASE SetQuotesReturns(c)
  <2>1. /\ pc[c] = "set" /\ pc'[c] = "done" /\ began'[c] = now
        /\ misses' = misses /\ toSet' = toSet /\ quotes' = quotes
    BY <1>1, <1>9, <1>g DEF SetQuotesReturns
  <2>4. Timely(c)' /\ Asked(c)'
    BY <1>0, <1>1, <2>1 DEF Timely, Asked
  <2>5. Piped(c)'
    <3>1. began[c] <= now /\ now <= began[c] + StepTime
      BY <1>0, <2>1 DEF Timely
    <3> QED
      BY <1>0, <1>1, <1>2, <2>1, <3>1 DEF Piped
  <2>2. Timely(c)' /\ Piped(c)' /\ Asked(c)'
    BY <2>4, <2>5
  <2>3. Aged(c)'
    BY <1>0, <1>1, <1>2, <2>1 DEF Timely, Aged, Honest
  <2> QED
    BY <2>2, <2>3 DEF CallInv
<1>12. CASE DropCommands(c)
  <2>1. /\ pc' = pc /\ began' = began /\ misses' = misses /\ quotes' = quotes /\ toSet'[c] = {}
    BY <1>1, <1>12 DEF DropCommands
  <2> QED
    BY <1>0, <2>1 DEF CallInv, Timely, Piped, Asked, Aged
<1>10. CASE Fallback(c)
  <2> DEFINE found == GetStaleQuotes(stale, misses[c])
  <2>1. /\ found \in QuoteMap
        /\ \A s \in Symbols :
              /\ found[s] # NoQuote <=> s \in misses[c] /\ stale[s] # NoEntry
              /\ found[s] # NoQuote => /\ found[s].seen = stale[s].seen
                                       /\ found[s].timestamp = stale[s].timestamp
                                       /\ found[s].is_stale_cache = TRUE
    <3>1. stale \in Keys /\ misses[c] \in SUBSET Symbols /\ TRUE \in BOOLEAN
      BY <1>1
    <3>2. /\ Read(stale, misses[c], TRUE) \in QuoteMap
          /\ \A s \in Symbols :
                /\ Read(stale, misses[c], TRUE)[s] # NoQuote <=> s \in misses[c] /\ stale[s] # NoEntry
                /\ s \in misses[c] /\ stale[s] # NoEntry =>
                      /\ Read(stale, misses[c], TRUE)[s].seen = stale[s].seen
                      /\ Read(stale, misses[c], TRUE)[s].timestamp = stale[s].timestamp
                      /\ Read(stale, misses[c], TRUE)[s].is_stale_cache = TRUE
      BY <3>1, ReadLemma, Zenon
    <3> QED
      BY <3>2, Zenon DEF GetStaleQuotes
  <2> HIDE DEF found
  <2>2. \A s \in Symbols : quotes'[c][s] = IF found[s] # NoQuote THEN found[s] ELSE quotes[c][s]
    BY <1>0, <1>10, <2>1, AddLemma DEF Fallback, found
  <2>3. /\ pc[c] = "fallback" /\ pc'[c] = "done" /\ began'[c] = now
        /\ misses' = misses /\ toSet' = toSet
    BY <1>10, <1>g DEF Fallback
  <2>4. Timely(c)' /\ Piped(c)'
    BY <1>0, <2>3 DEF Timely, Piped
  <2>5. Asked(c)'
    BY <1>0, <1>1, <2>1, <2>2, <2>3 DEF Asked
  <2>6. Aged(c)'
    <3>1. ASSUME NEW s \in Symbols, found[s] # NoQuote
          PROVE  /\ Honest(quotes'[c][s]) /\ quotes'[c][s].is_stale_cache = TRUE
                 /\ now < quotes'[c][s].seen + StaleTTL + Linger + 2 * StepTime
      BY <1>0, <1>1, <1>2, <2>1, <2>2, <3>1 DEF StaleInv, Honest
    <3>2. ASSUME NEW s \in Symbols, found[s] = NoQuote, quotes[c][s] # NoQuote
          PROVE  /\ Honest(quotes'[c][s]) /\ quotes'[c][s].is_stale_cache = FALSE
                 /\ now < quotes'[c][s].seen + FreshTTL + Linger + 4 * StepTime
      BY <1>0, <1>1, <1>2, <2>2, <2>3, <3>2 DEF Aged, Timely, Honest
    <3> QED
      BY <2>2, <2>3, <3>1, <3>2 DEF Aged, Honest
  <2> QED
    BY <2>4, <2>5, <2>6 DEF CallInv
<1>11. CASE FallbackFails(c)
  <2>1. /\ pc[c] = "fallback" /\ pc'[c] = "done" /\ began'[c] = now
        /\ misses' = misses /\ toSet' = toSet /\ quotes' = quotes
    BY <1>11, <1>g DEF FallbackFails
  <2>2. Timely(c)' /\ Piped(c)' /\ Asked(c)'
    BY <1>0, <1>1, <2>1 DEF Timely, Piped, Asked
  <2>3. Aged(c)'
    BY <1>0, <1>1, <1>2, <2>1 DEF Timely, Aged, Honest
  <2> QED
    BY <2>2, <2>3 DEF CallInv
<1> QED
  BY <1>3, <1>4, <1>5, <1>6, <1>7, <1>8, <1>9, <1>10, <1>11, <1>12 DEF Step

\* The keys of the cache keep their invariant when a call takes a step.
LEMMA KeysStep ==
    ASSUME IInv, NEW c \in Calls, Step(c)
    PROVE  \A s \in Symbols : FreshInv(s)' /\ StaleInv(s)'
<1>0. /\ TypeOK /\ Timely(c) /\ Piped(c) /\ Aged(c) /\ now' = now
      /\ \A s \in Symbols : FreshInv(s) /\ StaleInv(s)
  BY OthersUntouched DEF IInv, CallInv
<1>1. ASSUME fresh' = fresh, stale' = stale PROVE \A s \in Symbols : FreshInv(s)' /\ StaleInv(s)'
  BY <1>0, <1>1 DEF FreshInv, StaleInv, Honest
<1>2. ASSUME NEW key \in {"fresh", "stale"}, NEW s \in Symbols, SetNext(c, key, s)
      PROVE  \A q \in Symbols : FreshInv(q)' /\ StaleInv(q)'
  <2>1. /\ quotes[c][s] # NoQuote
        /\ \/ began[c] <= quotes[c][s].seen + StepTime /\ now <= began[c] + StepTime
           \/ began[c] <= quotes[c][s].seen + 2 * StepTime /\ now <= began[c] + Linger
    BY <1>0, <1>2 DEF SetNext, Piped, Timely, Live
  <2>2. /\ quotes[c][s] \in Quote /\ quotes[c][s].seen \in Nat /\ quotes[c][s].timestamp \in Nat
        /\ now \in Nat /\ began[c] \in Nat /\ fresh \in Keys /\ stale \in Keys
        /\ StepTime \in Nat /\ Linger \in Nat /\ FreshTTL \in Nat /\ FreshTTL > 0 /\ StaleTTL \in Nat /\ StaleTTL > 0
    BY <1>0, <2>1, Values, StepTimeAssumption, TTLAssumption
  <2>3. Honest(quotes[c][s])
    BY <1>0, <2>1 DEF Aged
  <2>4. CASE key = "fresh"
    <3>1. fresh' = Put(fresh, s, quotes[c][s], FreshTTL, now) /\ stale' = stale
      BY <1>2, <2>4 DEF SetNext, SetFresh
    <3>2. /\ fresh'[s].seen = quotes[c][s].seen /\ fresh'[s].timestamp = quotes[c][s].timestamp
          /\ fresh'[s].expires = now + FreshTTL
          /\ \A q \in Symbols \ {s} : fresh'[q] = fresh[q]
      BY <2>2, <3>1 DEF Put, Keys
    <3>3. FreshInv(s)'
      BY <1>0, <2>1, <2>2, <2>3, <3>2 DEF FreshInv, Honest
    <3>4. \A q \in Symbols \ {s} : FreshInv(q)'
      BY <1>0, <3>2 DEF FreshInv, Honest
    <3>5. \A q \in Symbols : StaleInv(q)'
      BY <1>0, <3>1 DEF StaleInv, Honest
    <3> QED
      BY <3>3, <3>4, <3>5
  <2>5. CASE key = "stale"
    <3>1. stale' = Put(stale, s, quotes[c][s], StaleTTL, now) /\ fresh' = fresh
      BY <1>2, <2>5 DEF SetNext, SetStale
    <3>2. /\ stale'[s].seen = quotes[c][s].seen /\ stale'[s].timestamp = quotes[c][s].timestamp
          /\ stale'[s].expires = now + StaleTTL
          /\ \A q \in Symbols \ {s} : stale'[q] = stale[q]
      BY <2>2, <3>1 DEF Put, Keys
    <3>3. StaleInv(s)'
      BY <1>0, <2>1, <2>2, <2>3, <3>2 DEF StaleInv, Honest
    <3>4. \A q \in Symbols \ {s} : StaleInv(q)'
      BY <1>0, <3>2 DEF StaleInv, Honest
    <3>5. \A q \in Symbols : FreshInv(q)'
      BY <1>0, <3>1 DEF FreshInv, Honest
    <3> QED
      BY <3>3, <3>4, <3>5
  <2> QED
    BY <2>4, <2>5
<1>3. \/ fresh' = fresh /\ stale' = stale
      \/ \E key \in {"fresh", "stale"}, s \in Symbols : SetNext(c, key, s)
  BY DEF Step, Arrive, GetCachedQuotes, GetCachedQuotesFails, GetBookTickers, GetBookTickersFails,
     SetQuotesReturns, DropCommands, Fallback, FallbackFails
<1> QED
  BY <1>1, <1>2, <1>3

\* Time passes: no request becomes overdue, and what is left in the cache has not expired.
LEMMA TickStep ==
    ASSUME IInv, Tick
    PROVE  /\ \A s \in Symbols : FreshInv(s)' /\ StaleInv(s)'
           /\ \A c \in Calls : CallInv(c)'
<1>0. /\ TypeOK /\ now' = now + 1 /\ UNCHANGED <<pc, began, request, misses, toSet, quotes>>
      /\ fresh' = Evict(fresh, now') /\ stale' = Evict(stale, now')
      /\ \A s \in Symbols : FreshInv(s) /\ StaleInv(s)
      /\ \A c \in Calls : CallInv(c) /\ (pc[c] \in Live => now - began[c] < StepTime)
      /\ \A c \in Calls : pc[c] = "done" /\ toSet[c] # {} => now - began[c] < Linger
  BY DEF IInv, Tick
<1>1. /\ now \in Nat /\ now' \in Nat /\ fresh \in Keys /\ stale \in Keys
      /\ StepTime \in Nat /\ Linger \in Nat /\ FreshTTL \in Nat /\ StaleTTL \in Nat
      /\ \A c \in Calls : began[c] \in Nat
  BY <1>0, StepTimeAssumption, TTLAssumption, Values
<1>2. \A s \in Symbols : fresh'[s] # NoEntry =>
         fresh'[s] = fresh[s] /\ fresh[s] # NoEntry /\ fresh[s].expires > now'
  BY <1>0, <1>1, EvictLemma
<1>3. \A s \in Symbols : stale'[s] # NoEntry =>
         stale'[s] = stale[s] /\ stale[s] # NoEntry /\ stale[s].expires > now'
  BY <1>0, <1>1, EvictLemma
<1>4. \A s \in Symbols : FreshInv(s)'
  BY <1>0, <1>1, <1>2, Values DEF FreshInv, Honest
<1>5. \A s \in Symbols : StaleInv(s)'
  BY <1>0, <1>1, <1>3, Values DEF StaleInv, Honest
<1>6. \A c \in Calls : Timely(c)'
  BY <1>0, <1>1 DEF CallInv, Timely
<1>7. \A c \in Calls : Piped(c)' /\ Asked(c)' /\ Aged(c)'
  BY <1>0 DEF CallInv, Piped, Asked, Aged, Honest
<1> QED
  BY <1>4, <1>5, <1>6, <1>7 DEF CallInv

\* IInv is inductive.
LEMMA IInvPreserved == IInv /\ [Next]_vars => IInv'
<1> SUFFICES ASSUME IInv, [Next]_vars PROVE IInv'
  OBVIOUS
<1>1. \A c \in Calls : Queued(c)
  BY DEF IInv, CallInv, Piped, Queued
<1>2. TypeOK'
  BY <1>1, TypePreserved DEF IInv
<1>3. ASSUME NEW c \in Calls, Step(c)
      PROVE  /\ \A s \in Symbols : FreshInv(s)' /\ StaleInv(s)'
             /\ \A d \in Calls : CallInv(d)'
  BY <1>3, OthersUntouched, OwnStep, KeysStep
<1>4. ASSUME UNCHANGED vars
      PROVE  /\ \A s \in Symbols : FreshInv(s)' /\ StaleInv(s)'
             /\ \A d \in Calls : CallInv(d)'
  <2>1. \A d \in Calls : CallInv(d)'
    BY <1>4, Frame DEF IInv, vars
  <2> QED
    BY <1>4, <2>1 DEF IInv, vars, FreshInv, StaleInv, Honest
<1> QED
  BY <1>2, <1>3, <1>4, TickStep DEF IInv, Next, Finished

\* The invariant holds throughout.
THEOREM Invariance == Spec => []IInv
<1>1. Init => TypeOK
  BY AbsenceAssumption, StepTimeAssumption
  DEF Init, TypeOK, Places, NoQuotes, QuoteMap, Pipeline
<1>2. Init => /\ \A s \in Symbols : FreshInv(s) /\ StaleInv(s)
              /\ \A c \in Calls : CallInv(c)
  BY DEF Init, FreshInv, StaleInv, CallInv, Timely, Piped, Asked, Aged, Live, NoQuotes
<1> QED
  BY <1>1, <1>2, IInvPreserved, PTL DEF Spec, IInv

-----------------------------------------------------------------------------
(* What the invariant gives. *)

\* The state of GetQuotes keeps its shape.
THEOREM TypeCorrect == Spec => []TypeOK
BY Invariance, PTL DEF IInv

\* The age of every price in an answer is bounded by the expiry of the key it can have come from
\* and the requests in between, although calls write to the cache in any order.
THEOREM AgesAreBounded == Spec => []AgeIsBounded
<1>1. IInv => AgeIsBounded
  <2> SUFFICES ASSUME IInv, NEW c \in Calls, NEW s \in Symbols, pc[c] = "done",
                      quotes[c][s] # NoQuote
               PROVE  began[c] - quotes[c][s].seen <
                        Linger + IF quotes[c][s].is_stale_cache THEN StaleTTL + 2 * StepTime
                                                                ELSE FreshTTL + 4 * StepTime
    BY DEF AgeIsBounded
  <2>1. /\ quotes[c][s].is_stale_cache =>
              began[c] < quotes[c][s].seen + StaleTTL + Linger + 2 * StepTime
        /\ ~quotes[c][s].is_stale_cache =>
              began[c] < quotes[c][s].seen + FreshTTL + Linger + 4 * StepTime
    BY DEF IInv, CallInv, Aged
  <2>2. /\ began[c] \in Nat /\ quotes[c][s].seen \in Nat
        /\ quotes[c][s].is_stale_cache \in BOOLEAN
    BY Values DEF IInv
  <2> QED
    BY <2>1, <2>2, TTLAssumption, StepTimeAssumption
<1> QED
  BY <1>1, Invariance, PTL

\* Every timestamp names a second that was not over when the broker quoted the price and that had
\* begun one request later.
THEOREM TimestampsAreHonest == Spec => []TimestampIsHonest
<1>1. IInv => TimestampIsHonest
  BY DEF IInv, CallInv, Aged, Honest, TimestampIsHonest, Quoted
<1> QED
  BY <1>1, Invariance, PTL

\* A requested symbol that is missing from an answer was asked of the broker.
THEOREM NothingIsForgotten == Spec => []NothingForgotten
<1>1. IInv => NothingForgotten
  BY DEF IInv, CallInv, Asked, NothingForgotten, Quoted, TypeOK
<1> QED
  BY <1>1, Invariance, PTL

-----------------------------------------------------------------------------
(* Fresh keys are backed by stale keys. *)

\* A pipeline still has the stale key of every symbol whose fresh key it has not written.
Paired(c) == \A s \in Symbols : <<"fresh", s>> \in toSet[c] => <<"stale", s>> \in toSet[c]

Backed(s) ==
    fresh[s] # NoEntry => \/ stale[s] # NoEntry /\ stale[s].expires > fresh[s].expires
                          \/ \E c \in Calls : s \in HalfSet(c)

BackedInv == /\ \A c \in Calls : Paired(c)
             /\ ~redisFaults => \A s \in Symbols : Backed(s)

\* The commands of a pipeline run in pairs.
LEMMA PairedPreserved ==
    ASSUME TypeOK, \A c \in Calls : Paired(c), [Next]_vars
    PROVE  \A c \in Calls : Paired(c)'
<1>0. toSet \in [Calls -> SUBSET Pipeline(Symbols)]
  BY DEF TypeOK
<1>1. ASSUME toSet' = toSet PROVE \A c \in Calls : Paired(c)'
  BY <1>1 DEF Paired
<1>2. ASSUME NEW c \in Calls, GetBookTickers(c) PROVE \A d \in Calls : Paired(d)'
  <2>1. PICK tickers : toSet' = [toSet EXCEPT ![c] = Pipeline(tickers)]
    BY <1>2 DEF GetBookTickers
  <2> QED
    BY <1>0, <2>1 DEF Paired, Pipeline
<1>3. ASSUME NEW c \in Calls, NEW key \in {"fresh", "stale"}, NEW s \in Symbols, SetNext(c, key, s)
      PROVE  \A d \in Calls : Paired(d)'
  <2>1. /\ toSet' = [toSet EXCEPT ![c] = toSet[c] \ {<<key, s>>}]
        /\ key = "stale" => <<"fresh", s>> \notin toSet[c]
    BY <1>3 DEF SetNext, HalfSet
  <2> QED
    BY <1>0, <2>1 DEF Paired
<1>4. ASSUME NEW c \in Calls, DropCommands(c) PROVE \A d \in Calls : Paired(d)'
  BY <1>0, <1>4 DEF DropCommands, Paired
<1>5. ASSUME NEW c \in Calls, Step(c) PROVE \A d \in Calls : Paired(d)'
  BY <1>1, <1>2, <1>3, <1>4, <1>5
  DEF Step, Arrive, GetCachedQuotes, GetCachedQuotesFails, GetBookTickersFails, SetQuotesReturns, Fallback,
      FallbackFails
<1> QED
  BY <1>1, <1>5 DEF Next, Tick, Finished, vars

\* While Redis works, a pipeline that wrote a fresh key goes on to write the stale key, and a
\* stale key that is written outlives whatever fresh key there is.
LEMMA BackedPreserved ==
    ASSUME IInv, BackedInv, [Next]_vars
    PROVE  BackedInv'
<1>0. redisFaults' = redisFaults
  BY DEF Next, Finished, vars
<1>1. SUFFICES ASSUME ~redisFaults, NEW s \in Symbols PROVE Backed(s)'
  BY <1>0, PairedPreserved DEF BackedInv, IInv
<1>2. /\ Backed(s) /\ FreshInv(s) /\ TypeOK
      /\ \A c \in Calls : Piped(c) /\ Paired(c)
  BY <1>1 DEF BackedInv, IInv, CallInv
<1>3. /\ now \in Nat /\ fresh \in Keys /\ stale \in Keys
      /\ FreshTTL \in Nat /\ StaleTTL \in Nat /\ FreshTTL < StaleTTL
      /\ fresh[s] # NoEntry => fresh[s].expires \in Nat
      /\ stale[s] # NoEntry => stale[s].expires \in Nat
      /\ toSet \in [Calls -> SUBSET Pipeline(Symbols)]
  BY <1>2, Values, TTLAssumption DEF TypeOK
<1>4. ASSUME fresh'[s] = fresh[s], stale'[s] = stale[s],
             \A c \in Calls : s \in HalfSet(c) => s \in HalfSet(c)'
      PROVE  Backed(s)'
  BY <1>2, <1>4 DEF Backed
<1>5. ASSUME NEW c \in Calls, Step(c) PROVE Backed(s)'
  <2>1. CASE \/ Arrive(c) \/ GetCachedQuotes(c) \/ GetCachedQuotesFails(c)
             \/ GetBookTickersFails(c) \/ SetQuotesReturns(c) \/ Fallback(c) \/ FallbackFails(c)
    <3>1. fresh' = fresh /\ stale' = stale /\ toSet' = toSet
      BY <2>1 DEF Arrive, GetCachedQuotes, GetCachedQuotesFails, GetBookTickersFails,
         SetQuotesReturns, Fallback, FallbackFails
    <3> QED
      BY <1>4, <3>1 DEF HalfSet
  <2>2. CASE GetBookTickers(c)
    <3>1. s \notin HalfSet(c)
      BY <1>2, <2>2 DEF GetBookTickers, Piped, HalfSet
    <3>2. \A d \in Calls \ {c} : toSet'[d] = toSet[d]
      BY <1>3, <2>2 DEF GetBookTickers
    <3>3. fresh' = fresh /\ stale' = stale
      BY <2>2 DEF GetBookTickers
    <3> QED
      BY <1>4, <3>1, <3>2, <3>3 DEF HalfSet
  <2>4. ~DropCommands(c)
    BY <1>1 DEF DropCommands
  <2>3. ASSUME NEW key \in {"fresh", "stale"}, NEW q \in Symbols, SetNext(c, key, q)
        PROVE  Backed(s)'
    <3>1. /\ <<key, q>> \in toSet[c] /\ toSet'[c] = toSet[c] \ {<<key, q>>}
          /\ \A d \in Calls \ {c} : toSet'[d] = toSet[d]
      BY <1>3, <2>3 DEF SetNext
    <3>2. CASE key = "fresh" /\ q = s
      <4>1. s \in HalfSet(c)'
        BY <1>2, <3>1, <3>2 DEF HalfSet, Paired
      <4> QED
        BY <4>1 DEF Backed
    <3>3. CASE key = "stale" /\ q = s
      <4>1. stale' = Put(stale, s, quotes[c][s], StaleTTL, now) /\ fresh' = fresh
        BY <2>3, <3>3 DEF SetNext, SetStale
      <4>2. quotes[c][s] \in Quote
        BY <1>2, <3>1, <3>3, Values DEF Piped
      <4>3. stale'[s] # NoEntry /\ stale'[s].expires = now + StaleTTL
        <5>1. [seen |-> quotes[c][s].seen, timestamp |-> quotes[c][s].timestamp,
               expires |-> now + StaleTTL] \in Entry
          BY <1>3, <4>2 DEF Quote, Entry
        <5> QED
          BY <1>3, <4>1, <5>1, AbsenceAssumption DEF Put, Keys
      <4> QED
        BY <1>2, <1>3, <4>1, <4>3 DEF Backed, FreshInv
    <3>4. CASE q # s
      <4>1. fresh'[s] = fresh[s] /\ stale'[s] = stale[s]
        BY <1>3, <2>3, <3>4 DEF SetNext, SetFresh, SetStale, Put, Keys
      <4>2. \A d \in Calls : s \in HalfSet(d) => s \in HalfSet(d)'
        BY <3>1, <3>4 DEF HalfSet
      <4> QED
        BY <1>4, <4>1, <4>2
    <3> QED
      BY <3>2, <3>3, <3>4
  <2> QED
    BY <1>5, <2>1, <2>2, <2>3, <2>4 DEF Step
<1>6. ASSUME Tick PROVE Backed(s)'
  <2>1. /\ now' \in Nat /\ toSet' = toSet
        /\ fresh' = Evict(fresh, now') /\ stale' = Evict(stale, now')
    BY <1>3, <1>6 DEF Tick
  <2>2. /\ fresh'[s] # NoEntry => fresh'[s] = fresh[s] /\ fresh[s].expires > now'
        /\ stale[s] # NoEntry /\ stale[s].expires > now' => stale'[s] = stale[s]
    BY <1>3, <2>1, EvictLemma
  <2> QED
    BY <1>2, <1>3, <2>1, <2>2 DEF Backed, HalfSet
<1>7. ASSUME UNCHANGED vars PROVE Backed(s)'
  BY <1>4, <1>7 DEF vars, HalfSet
<1> QED
  BY <1>5, <1>6, <1>7 DEF Next, Finished

\* BackedInv holds throughout.
LEMMA BackedInvariance == Spec => []BackedInv
<1>1. Init => BackedInv
  BY DEF Init, BackedInv, Paired, Backed
<1> QED
  BY <1>1, BackedPreserved, Invariance, PTL DEF Spec

\* While Redis works, a fresh key has a stale key that outlives it, but for the moment between
\* the two commands.
THEOREM StaleKeysOutliveFresh == Spec => []StaleOutlivesFresh
<1>1. BackedInv => StaleOutlivesFresh
  BY DEF BackedInv, Backed, StaleOutlivesFresh
<1> QED
  BY <1>1, BackedInvariance, PTL

\* While Redis works, a call whose broker request failed returns every requested symbol that the
\* cache holds.
THEOREM FailuresDegradeToCache == Spec => DegradesToCache
<1> DEFINE Degrades ==
       \A c \in Calls : ~redisFaults /\ pc[c] = "fallback" /\ pc'[c] = "done" =>
          \A s \in request[c] :
              /\ \A d \in Calls : s \notin HalfSet(d)
              /\ fresh[s] # NoEntry \/ stale[s] # NoEntry
              => quotes'[c][s] # NoQuote
<1>1. ASSUME IInv, BackedInv, Next PROVE Degrades
  <2> SUFFICES ASSUME NEW c \in Calls, ~redisFaults, pc[c] = "fallback", pc'[c] = "done",
                      NEW s \in request[c],
                      \A d \in Calls : s \notin HalfSet(d),
                      fresh[s] # NoEntry \/ stale[s] # NoEntry
               PROVE  quotes'[c][s] # NoQuote
    OBVIOUS
  <2>1. /\ TypeOK /\ Asked(c) /\ request[c] \in SUBSET Symbols /\ misses[c] \in SUBSET Symbols
        /\ s \in Symbols /\ stale \in Keys /\ pc \in [Calls -> Places]
    BY <1>1 DEF IInv, CallInv, TypeOK, Keys
  <2>2. stale[s] # NoEntry
    BY <1>1, <2>1 DEF BackedInv, Backed
  <2>3. Fallback(c)
    <3>1. ASSUME NEW d \in Calls, Step(d), d # c PROVE pc'[c] = pc[c]
      BY <2>1, <3>1 DEF Step, Arrive, GetCachedQuotes, GetCachedQuotesFails, GetBookTickers,
         GetBookTickersFails, SetNext, SetQuotesReturns, DropCommands, Fallback, FallbackFails, Goto
    <3>2. Step(c)
      BY <1>1, <3>1 DEF Next, Tick, Finished, vars
    <3> QED
      BY <3>2 DEF Step, Arrive, GetCachedQuotes, GetCachedQuotesFails, GetBookTickers,
         GetBookTickersFails, SetNext, SetQuotesReturns, DropCommands, FallbackFails
  <2>4. /\ GetStaleQuotes(stale, misses[c]) \in QuoteMap
        /\ s \in misses[c] => GetStaleQuotes(stale, misses[c])[s] # NoQuote
    <3>1. /\ Read(stale, misses[c], TRUE) \in QuoteMap
          /\ Read(stale, misses[c], TRUE)[s] # NoQuote <=> s \in misses[c] /\ stale[s] # NoEntry
      BY <2>1, ReadLemma, Zenon
    <3> QED
      BY <2>2, <3>1 DEF GetStaleQuotes
  <2>5. quotes'[c][s] = IF GetStaleQuotes(stale, misses[c])[s] # NoQuote
                        THEN GetStaleQuotes(stale, misses[c])[s] ELSE quotes[c][s]
    BY <2>1, <2>3, <2>4, AddLemma DEF Fallback
  <2> QED
    BY <2>1, <2>4, <2>5 DEF Asked
<1>2. IInv /\ BackedInv /\ [Next]_vars => [Degrades]_vars
  BY <1>1
<1> QED
  BY <1>2, Invariance, BackedInvariance, PTL DEF Spec, DegradesToCache
=============================================================================

---------------------------- MODULE QuotesCache -----------------------------
(***************************************************************************)
(* The Redis quotes cache (internal/cache/redis.go).  A symbol has two     *)
(* keys, fresh and stale, each a function from symbols to entries; NoEntry *)
(* is a key that is not set.  A price is represented by the time at which  *)
(* the broker quoted it: that is all the properties tell apart.            *)
(***************************************************************************)
EXTENDS Integers

CONSTANTS Symbols,   \* trading symbols, trimmed and in upper case
          FreshTTL,  \* the expiry of a fresh key
          StaleTTL,  \* the expiry of a stale key
          NoEntry,   \* Redis answers nil
          NoQuote    \* the symbol is not in a map of quotes

ASSUME TTLAssumption == FreshTTL \in Nat \ {0} /\ StaleTTL \in Nat /\ FreshTTL < StaleTTL

Quote == [seen : Nat, timestamp : Nat, is_stale_cache : BOOLEAN]

Entry == [seen : Nat, timestamp : Nat, expires : Nat]

ASSUME AbsenceAssumption == NoEntry \notin Entry /\ NoQuote \notin Quote

\* A map of quotes: a symbol without a quote has NoQuote.
QuoteMap == [Symbols -> Quote \cup {NoQuote}]

Quoted(quotes) == {s \in Symbols : quotes[s] # NoQuote}

\* SET key value EX ttl.
Put(keys, s, quote, ttl, now) ==
    [keys EXCEPT ![s] = [seen      |-> quote.seen,
                         timestamp |-> quote.timestamp,
                         expires   |-> now + ttl]]

\* Redis drops a key when its time to live is over.
Evict(keys, now) ==
    [s \in Symbols |-> IF keys[s] # NoEntry /\ keys[s].expires <= now THEN NoEntry ELSE keys[s]]

Hits(keys, symbols) == {s \in symbols : keys[s] # NoEntry}

\* The entries of some keys as quotes; the flag is set by the function that reads them.
Read(keys, symbols, flag) ==
    [s \in Symbols |->
        IF s \in Hits(keys, symbols)
        THEN [seen |-> keys[s].seen, timestamp |-> keys[s].timestamp, is_stale_cache |-> flag]
        ELSE NoQuote]

\* GetQuotes: the hits among the fresh keys; what is not a hit is a miss.
GetFreshQuotes(fresh, symbols) == Read(fresh, symbols, FALSE)

\* Fault: the quotes of the stale keys keep the flag they were cached with.
GetStaleQuotesUnflagged(stale, symbols) == Read(stale, symbols, FALSE)

\* Fault: the stored values are handed on as they are.
GetStaleQuotesUndecoded(stale, symbols) ==
    [s \in Symbols |-> IF s \in Hits(stale, symbols) THEN stale[s] ELSE NoQuote]

GetStaleQuotes(stale, symbols) == Read(stale, symbols, TRUE)

\* The two commands that SetQuotes queues for each symbol, in this order.
SetFresh(fresh, s, quote, now) == Put(fresh, s, quote, FreshTTL, now)

\* Fault: both keys are written with the short expiry.
SetStaleWithFreshTTL(stale, s, quote, now) == Put(stale, s, quote, FreshTTL, now)

SetStale(stale, s, quote, now) == Put(stale, s, quote, StaleTTL, now)
=============================================================================

----------------------------- MODULE Reconcile ------------------------------
(***************************************************************************)
(* PregaoServer.SyncBrokerBalances (internal/service/service.go): the      *)
(* audit of the broker's cash against Livro.  A call reads the encrypted   *)
(* credentials, has OpenBao decrypt them (internal/vault/client.go), asks  *)
(* the broker for its balances (internal/broker/binance/client.go) and     *)
(* Livro for the account's (internal/client/livro/client.go).  Fills and   *)
(* deposits move both balances between the two reads.                      *)
(*                                                                         *)
(* Amounts are integers: Unit of them make up 0.0001, the last digit of    *)
(* the reported adjustment.                                                *)
(***************************************************************************)
EXTENDS Decimals, Sequences, FiniteSetsExt

CONSTANTS Calls,     \* the SyncBrokerBalances calls of a behaviour
          Holdings,  \* what the broker account may hold of each fiat asset
          Cash,      \* the balances a Livro account may have
          FaultSets  \* which of the faults below a behaviour may have

FiatAssets == <<"USDT", "USD", "BUSD", "USDC">>

Assets == {FiatAssets[i] : i \in DOMAIN FiatAssets}

ASSUME AmountsAssumption == Holdings \subseteq [Assets -> Nat] /\ Cash \subseteq Int /\ 0 \in Cash

\* "livro":   a request to Livro may fail.
\* "garbled": the broker may send balances that do not parse.
\* "base64":  OpenBao may answer a batch with one plaintext that decodes and one that does not.
ASSUME FaultSetsAssumption == FaultSets \subseteq SUBSET {"livro", "garbled", "base64"}

VARIABLES faults,    \* the faults of this behaviour
          connected, \* livro.NewClient succeeded at start-up
          free,      \* the broker's free balances
          ledger,    \* the balances of the Livro accounts
          opened,    \* the clearing account of the tenant exists in Livro
          request,   \* request[r]: the account named by user_id, or "" for the clearing account
          pc,        \* pc[r]: where call r is
          creds,     \* creds[r]: what the buffers that r decoded plaintexts into hold
          read,      \* read[r]: brokerFiatBal
          answer,    \* answer[r]: what r returned
          span       \* span[r]: the broker's cash at the moments up to the first read of r, and the
                     \* balance of the audited account at the moments from then on

vars == <<faults, connected, free, ledger, opened, request, pc, creds, read, answer, span>>

world == <<faults, connected, free, ledger, opened, request, span>>

-----------------------------------------------------------------------------
Accounts == {"user", "clearing"}

Places == {"idle", "credentials", "batch", "key", "secret", "balances",
           "account", "lookup", "ledger", "done"}

\* A plaintext may be empty; a buffer that is not set or wiped holds nothing.  batch is the half
\* that was decoded of a batch whose other half was not.
Buffers == [key : {"none", "empty", "plain"}, secret : {"none", "empty", "plain"}, batch : {"none", "plain"}]

NoBuffers == [key |-> "none", secret |-> "none", batch |-> "none"]

Answer == [code    : {"none", "OK", "InvalidArgument", "FailedPrecondition", "Internal", "Unavailable"},
           in_sync : BOOLEAN,
           adjust  : Int]

Error(code) == [code |-> code, in_sync |-> FALSE, adjust |-> 0]

\* The first fiat asset with a positive balance; the others do not count.
FiatBalance(balances) ==
    LET positive == {i \in DOMAIN FiatAssets : balances[FiatAssets[i]] > 0}
    IN  IF positive = {} THEN 0 ELSE balances[FiatAssets[Min(positive)]]

Account(r) == IF request[r] = "" THEN "clearing" ELSE request[r]

Init ==
    /\ faults \in FaultSets
    /\ connected \in BOOLEAN
    /\ free \in Holdings
    /\ ledger \in [Accounts -> Cash]
    /\ opened \in BOOLEAN
    /\ ~opened => ledger["clearing"] = 0
    /\ request \in [Calls -> {"user", ""}]
    /\ pc = [r \in Calls |-> "idle"]
    /\ creds = [r \in Calls |-> NoBuffers]
    /\ read = [r \in Calls |-> 0]
    /\ answer = [r \in Calls |-> Error("none")]
    /\ span = [r \in Calls |-> [broker |-> {}, ledger |-> {}]]

-----------------------------------------------------------------------------
Goto(r, place) == pc' = [pc EXCEPT ![r] = place] /\ UNCHANGED answer

Hold(r, key, secret) ==
    creds' = [creds EXCEPT ![r] = [key |-> key, secret |-> secret, batch |-> creds[r].batch]]

\* PlaintextCredentials.Zero.
Zero(r) == Hold(r, "none", "none")

Return(r, a) ==
    /\ pc' = [pc EXCEPT ![r] = "done"]
    /\ answer' = [answer EXCEPT ![r] = a]

\* The handler reports, and the deferred Zero runs.
Report(r, ledgerBal) ==
    /\ Return(r, [code    |-> "OK",
                  in_sync |-> read[r] - ledgerBal = 0,
                  adjust  |-> StringFixed(read[r] - ledgerBal)])
    /\ Zero(r)

\* A blank tenant_id is refused.
Arrive(r) ==
    /\ pc[r] = "idle"
    /\ \/ /\ Goto(r, "credentials")
          /\ span' = [span EXCEPT ![r].broker = {FiatBalance(free)}]
       \/ Return(r, Error("InvalidArgument")) /\ UNCHANGED span
    /\ UNCHANGED <<faults, connected, free, ledger, opened, request, creds, read>>

\* Fault: the error of the repository is returned without a status code.
GetCredentialsUnmapped(r) ==
    /\ pc[r] = "credentials"
    /\ Goto(r, "batch") \/ Return(r, Error("Unknown"))
    /\ UNCHANGED <<world, creds, read>>

GetCredentials(r) ==
    /\ pc[r] = "credentials"
    /\ Goto(r, "batch") \/ \E code \in {"FailedPrecondition", "Internal"} : Return(r, Error(code))
    /\ UNCHANGED <<world, creds, read>>

\* DecryptCredentials asks for both plaintexts at once; whatever is wrong with the answer
\* makes it ask for one at a time.  When only one of the two decodes, its buffer is left as it is.
BatchDecrypt(r) ==
    /\ pc[r] = "batch"
    /\ \/ /\ Goto(r, "balances")
          /\ \E key, secret \in {"empty", "plain"} : Hold(r, key, secret)
       \/ Goto(r, "key") /\ UNCHANGED creds
       \/ /\ "base64" \in faults
          /\ Goto(r, "key")
          /\ creds' = [creds EXCEPT ![r] = [key |-> "none", secret |-> "none", batch |-> "plain"]]
    /\ UNCHANGED <<world, read>>

DecryptKey(r) ==
    /\ pc[r] = "key"
    /\ \/ Goto(r, "secret") /\ \E key \in {"empty", "plain"} : Hold(r, key, "none")
       \/ Return(r, Error("Internal")) /\ UNCHANGED creds
    /\ UNCHANGED <<world, read>>

\* Fault: the wiping is left to a Zero that is never deferred.
DecryptSecretUnwiped(r) ==
    /\ pc[r] = "secret"
    /\ \/ Goto(r, "balances") /\ \E secret \in {"empty", "plain"} : Hold(r, creds[r].key, secret)
       \/ Return(r, Error("Internal")) /\ UNCHANGED creds
    /\ UNCHANGED <<world, read>>

\* An error wipes the key that was decrypted before: the handler defers Zero only after success.
DecryptSecret(r) ==
    /\ pc[r] = "secret"
    /\ \/ Goto(r, "balances") /\ \E secret \in {"empty", "plain"} : Hold(r, creds[r].key, secret)
       \/ Return(r, Error("Internal")) /\ Hold(r, "none", creds[r].secret)
    /\ UNCHANGED <<world, read>>

\* Credentials with an empty part are refused before anything is sent, and the deferred Zero of the
\* handler wipes them.  The signed request wipes them itself; its answer, with the balances that do
\* not parse left out, or an error comes back.
GetAccountBalances(r) ==
    /\ pc[r] = "balances"
    /\ Zero(r)
    /\ LET usable == creds[r].key = "plain" /\ creds[r].secret = "plain"
       IN  \/ /\ usable
              /\ \E skipped \in IF "garbled" \in faults THEN SUBSET Assets ELSE {{}} :
                    read' = [read EXCEPT ![r] =
                                FiatBalance([a \in Assets |-> IF a \in skipped THEN 0 ELSE free[a]])]
              /\ Goto(r, IF ~connected THEN "ledger"
                         ELSE IF request[r] = "" THEN "account" ELSE "ledger")
              /\ span' = [span EXCEPT ![r].ledger = {ledger[Account(r)]}]
           \/ Return(r, Error("Unavailable")) /\ UNCHANGED <<read, span>>
    /\ UNCHANGED <<faults, connected, free, ledger, opened, request>>

\* GetOrCreateBrokerAccount: InitializeAccount creates the account, whose answer may be lost,
\* and is answered with the account or, when it exists, perhaps with an error.
InitializeAccount(r) ==
    /\ pc[r] = "account"
    /\ \/ opened' = TRUE /\ Goto(r, "ledger")
       \/ opened /\ UNCHANGED opened /\ Goto(r, "lookup")
       \/ "livro" \in faults /\ opened' \in {opened, TRUE} /\ Goto(r, "lookup")
    /\ UNCHANGED <<faults, connected, free, ledger, request, span, creds, read>>

\* GetAccount finds the account; without one the ledger balance stays zero.
LookupAccount(r) ==
    /\ pc[r] = "lookup"
    /\ \/ opened /\ Goto(r, "ledger") /\ UNCHANGED creds
       \/ (~opened \/ "livro" \in faults) /\ Report(r, 0)
    /\ UNCHANGED <<world, read>>

\* Fault: the accounts of all users are audited against the clearing account.
GetBalanceOfClearing(r) ==
    /\ pc[r] = "ledger"
    /\ \/ connected /\ Report(r, ledger["clearing"])
       \/ (~connected \/ "livro" \in faults) /\ Report(r, 0)
    /\ UNCHANGED <<world, read>>

\* Without a client, or when Livro fails, the ledger balance stays zero and is reported on.
GetBalance(r) ==
    /\ pc[r] = "ledger"
    /\ \/ connected /\ Report(r, ledger[Account(r)])
       \/ (~connected \/ "livro" \in faults) /\ Report(r, 0)
    /\ UNCHANGED <<world, read>>

-----------------------------------------------------------------------------
(* Orders, fills, deposits and fees move the balances. *)

\* A call that has read the broker's balances looks at the ledger from then on.
AtBroker(r) == pc[r] \in {"credentials", "batch", "key", "secret", "balances"}
AtLedger(r) == pc[r] \in {"account", "lookup", "ledger"}

BrokerMoves ==
    /\ free' \in Holdings \ {free}
    /\ span' = [r \in Calls |->
                   IF AtBroker(r) THEN [span[r] EXCEPT !.broker = @ \cup {FiatBalance(free')}]
                                  ELSE span[r]]
    /\ UNCHANGED <<faults, connected, ledger, opened, request, pc, creds, read, answer>>

LedgerMoves(a) ==
    /\ a = "clearing" => opened
    /\ \E balance \in Cash \ {ledger[a]} : ledger' = [ledger EXCEPT ![a] = balance]
    /\ span' = [r \in Calls |->
                   IF AtLedger(r) THEN [span[r] EXCEPT !.ledger = @ \cup {ledger'[Account(r)]}]
                                  ELSE span[r]]
    /\ UNCHANGED <<faults, connected, free, opened, request, pc, creds, read, answer>>

Step(r) ==
    \/ Arrive(r) \/ GetCredentials(r)
    \/ BatchDecrypt(r) \/ DecryptKey(r) \/ DecryptSecret(r)
    \/ GetAccountBalances(r)
    \/ InitializeAccount(r) \/ LookupAccount(r) \/ GetBalance(r)

Next == (\E r \in Calls : Step(r)) \/ BrokerMoves \/ (\E a \in Accounts : LedgerMoves(a))

Spec == Init /\ [][Next]_vars

-----------------------------------------------------------------------------
(* Properties. *)

\* The shape of every variable.
TypeOK ==
    /\ faults \in FaultSets
    /\ {connected, opened} \subseteq BOOLEAN
    /\ free \in Holdings
    /\ ledger \in [Accounts -> Cash]
    /\ request \in [Calls -> {"user", ""}]
    /\ pc \in [Calls -> Places]
    /\ creds \in [Calls -> Buffers]
    /\ read \in [Calls -> Nat]
    /\ answer \in [Calls -> Answer]
    /\ span \in [Calls -> [broker : SUBSET Nat, ledger : SUBSET Cash]]

\* service.go, SyncBrokerBalances and livro's GetOrCreateBrokerAccount: with Livro connected and
\* no fault, the audit compares the broker's cash at one moment of the call with the balance of
\* the audited account at a later one, also when calls race to create that account.
ReportIsWitnessed ==
    \A r \in Calls :
        faults = {} /\ connected /\ answer[r].code = "OK" =>
            \E b \in span[r].broker, l \in span[r].ledger :
                answer[r].in_sync = (b = l) /\ answer[r].adjust = StringFixed(b - l)

\* vault/client.go, DecryptCredentials with its wiping loop, and the Zero that service.go and
\* binance/client.go defer: wherever a call failed, none that has its balances or its answer holds a
\* plaintext in the buffers it was handed, nor in any other, with the one exception of a batch of which
\* one half decoded (docs/INTEGRATION_GUIDE.md:68 names no exception).
CredentialsWiped ==
    \A r \in Calls : pc[r] \in {"account", "lookup", "ledger", "done"} =>
        /\ "plain" \notin {creds[r].key, creds[r].secret}
        /\ creds[r].batch = "plain" => "base64" \in faults

\* docs/INTEGRATION_GUIDE.md:493, "True if broker fiat balance == Livro balance": a call that has a
\* connection to Livro and says in_sync saw, while it ran, a broker balance and then a ledger balance that are equal.
InSyncMeansEqual ==
    \A r \in Calls : connected /\ answer[r].in_sync => span[r].broker \cap span[r].ledger # {}
=============================================================================

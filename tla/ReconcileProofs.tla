---------------------------- MODULE ReconcileProofs -------------------------
(***************************************************************************)
(* Proofs about Reconcile, for any calls, any holdings and balances and    *)
(* any fault sets.                                                         *)
(***************************************************************************)
EXTENDS Reconcile, TLAPS

-----------------------------------------------------------------------------
(* The broker's cash is a natural number. *)

\* The fiat assets have the four positions that FiatBalance looks at.
LEMMA Positions == DOMAIN FiatAssets = 1 .. 4 /\ \A i \in 1 .. 4 : FiatAssets[i] \in Assets
BY DEF FiatAssets, Assets

\* Some positive position is the first one.
LEMMA MinIsFirst ==
    ASSUME NEW S \in SUBSET (1 .. 4), S # {}
    PROVE  Min(S) \in S
<1>1. \E x \in S : \A y \in S : x <= y
  <2>1. CASE 1 \in S
    BY <2>1
  <2>2. CASE 1 \notin S /\ 2 \in S
    BY <2>2
  <2>3. CASE 1 \notin S /\ 2 \notin S /\ 3 \in S
    BY <2>3
  <2>4. CASE 1 \notin S /\ 2 \notin S /\ 3 \notin S
    <3>1. PICK x \in S : TRUE
      OBVIOUS
    <3>2. \A y \in S : y = 4
      BY <2>4
    <3> QED
      BY <3>1, <3>2
  <2> QED
    BY <2>1, <2>2, <2>3, <2>4
<1> QED
  BY <1>1 DEF Min

\* FiatBalance picks one of the balances or zero.
LEMMA FiatBalanceType ==
    ASSUME NEW balances \in [Assets -> Nat]
    PROVE  FiatBalance(balances) \in Nat
<1> DEFINE positive == {i \in DOMAIN FiatAssets : balances[FiatAssets[i]] > 0}
<1>1. positive \in SUBSET (1 .. 4)
  BY Positions
<1>2. positive # {} => Min(positive) \in 1 .. 4
  BY <1>1, MinIsFirst
<1>3. positive # {} => balances[FiatAssets[Min(positive)]] \in Nat
  BY <1>2, Positions
<1> QED
  BY <1>3 DEF FiatBalance

\* A rounded amount is an integer.
LEMMA StringFixedType ==
    ASSUME NEW x \in Int
    PROVE  StringFixed(x) \in Int
BY UnitAssumption DEF StringFixed, RoundedDiv

-----------------------------------------------------------------------------
(* The inductive invariant. *)

\* The key and the secret of a call are set between the decryption and the signed request only, and
\* nothing is left of a batch that decoded whole or not at all.
Handled(r) ==
    /\ pc[r] \in {"idle", "credentials", "batch", "key", "account", "lookup", "ledger", "done"} =>
          creds[r].key = "none" /\ creds[r].secret = "none"
    /\ pc[r] = "secret" => creds[r].secret = "none"
    /\ creds[r].batch = "plain" => "base64" \in faults

\* Without faults what a call has read is in its span, and so is what it is about to read.
Spanned(r) ==
    /\ AtBroker(r) => FiatBalance(free) \in span[r].broker
    /\ AtLedger(r) /\ faults = {} => read[r] \in span[r].broker
    /\ AtLedger(r) => ledger[Account(r)] \in span[r].ledger
    /\ pc[r] = "lookup" /\ faults = {} => opened
    /\ pc[r] \in {"account", "lookup"} => connected

\* The report of an answered call.
Witnessed(r) ==
    faults = {} /\ connected /\ answer[r].code = "OK" =>
        \E b \in span[r].broker, l \in span[r].ledger :
            answer[r].in_sync = (b = l) /\ answer[r].adjust = StringFixed(b - l)

\* A call answers when it is done.
Silent(r) == pc[r] # "done" => answer[r].code # "OK"

CallInv(r) == Handled(r) /\ Spanned(r) /\ Witnessed(r) /\ Silent(r)

IInv == TypeOK /\ \A r \in Calls : CallInv(r)

USE AmountsAssumption, FaultSetsAssumption DEF Goto

\* The amounts are numbers.
LEMMA Amounts ==
    ASSUME TypeOK
    PROVE  /\ free \in [Assets -> Nat] /\ FiatBalance(free) \in Nat
           /\ \A a \in Accounts : ledger[a] \in Cash /\ ledger[a] \in Int
           /\ \A r \in Calls : Account(r) \in Accounts /\ read[r] \in Nat
BY FiatBalanceType DEF TypeOK, Account, Accounts

\* A step of another call leaves a call alone.
LEMMA Frame ==
    ASSUME NEW q \in Calls, CallInv(q),
           pc'[q] = pc[q], creds'[q] = creds[q], read'[q] = read[q], answer'[q] = answer[q],
           span'[q] = span[q], UNCHANGED <<faults, connected, free, ledger, request>>,
           opened => opened'
    PROVE  CallInv(q)'
<1>1. Handled(q)' /\ Silent(q)'
  BY DEF CallInv, Handled, Silent
<1>2. AtBroker(q)' = AtBroker(q) /\ AtLedger(q)' = AtLedger(q) /\ Account(q)' = Account(q)
  BY DEF AtBroker, AtLedger, Account
<1>3. Spanned(q)'
  BY <1>2 DEF CallInv, Spanned
<1>4. Witnessed(q)'
  BY DEF CallInv, Witnessed
<1> QED
  BY <1>1, <1>3, <1>4 DEF CallInv

\* Writing the buffers.
LEMMA HoldType ==
    ASSUME TypeOK, NEW r \in Calls, NEW key \in {"none", "empty", "plain"},
           NEW secret \in {"none", "empty", "plain"}, Hold(r, key, secret)
    PROVE  /\ creds' \in [Calls -> Buffers]
           /\ creds'[r].key = key /\ creds'[r].secret = secret /\ creds'[r].batch = creds[r].batch
           /\ \A q \in Calls \ {r} : creds'[q] = creds[q]
<1> DEFINE b == [key |-> key, secret |-> secret, batch |-> creds[r].batch]
<1>1. creds \in [Calls -> Buffers] /\ creds[r].batch \in {"none", "plain"}
  BY DEF TypeOK, Buffers
<1>2. b \in Buffers /\ b.key = key /\ b.secret = secret /\ b.batch = creds[r].batch
  BY <1>1 DEF Buffers
<1> HIDE DEF b
<1>3. creds' = [creds EXCEPT ![r] = b]
  BY DEF Hold, b
<1> QED
  BY <1>1, <1>2, <1>3

\* A report is typed, and truthful if the ledger balance was read.
LEMMA ReportStep ==
    ASSUME TypeOK, NEW r \in Calls, NEW bal \in Int, Report(r, bal)
    PROVE  /\ answer' \in [Calls -> Answer] /\ creds' \in [Calls -> Buffers] /\ pc' \in [Calls -> Places]
           /\ pc'[r] = "done"
           /\ creds'[r].key = "none" /\ creds'[r].secret = "none" /\ creds'[r].batch = creds[r].batch
           /\ answer'[r].in_sync = (read[r] = bal) /\ answer'[r].adjust = StringFixed(read[r] - bal)
           /\ \A q \in Calls \ {r} : pc'[q] = pc[q] /\ answer'[q] = answer[q] /\ creds'[q] = creds[q]
<1>0. read[r] \in Nat
  BY Amounts
<1>1. read[r] \in Int /\ read[r] - bal \in Int
  BY <1>0
<1>2. StringFixed(read[r] - bal) \in Int
  BY <1>1, StringFixedType
<1> DEFINE a == [code |-> "OK", in_sync |-> read[r] - bal = 0, adjust |-> StringFixed(read[r] - bal)]
<1>3. a \in Answer
  BY <1>2 DEF Answer
<1>4. Return(r, a) /\ Zero(r)
  BY DEF Report
<1>5. a.in_sync = (read[r] = bal) /\ a.adjust = StringFixed(read[r] - bal)
  BY <1>1
<1> HIDE DEF a
<1>6. /\ creds' \in [Calls -> Buffers]
      /\ creds'[r].key = "none" /\ creds'[r].secret = "none" /\ creds'[r].batch = creds[r].batch
      /\ \A q \in Calls \ {r} : creds'[q] = creds[q]
  BY <1>4, HoldType DEF Zero
<1>7. /\ answer' \in [Calls -> Answer] /\ pc' \in [Calls -> Places] /\ pc'[r] = "done" /\ answer'[r] = a
      /\ \A q \in Calls \ {r} : pc'[q] = pc[q] /\ answer'[q] = answer[q]
  BY <1>3, <1>4 DEF Return, TypeOK, Places
<1> QED
  BY <1>5, <1>6, <1>7

\* A step of one call leaves the others alone.
LEMMA OthersUntouched ==
    ASSUME IInv, NEW r \in Calls, Step(r)
    PROVE  /\ UNCHANGED <<faults, connected, free, ledger, request>>
           /\ opened => opened'
           /\ \A q \in Calls \ {r} : CallInv(q)'
<1>0. TypeOK /\ \A q \in Calls : CallInv(q)
  BY DEF IInv
<1>1. UNCHANGED <<faults, connected, free, ledger, request>> /\ (opened => opened')
  <2>1. CASE InitializeAccount(r)
    <3>1. opened' = TRUE \/ opened' = opened
      BY <2>1 DEF InitializeAccount
    <3>2. UNCHANGED <<faults, connected, free, ledger, request>>
      BY <2>1 DEF InitializeAccount
    <3>3. CASE opened' = TRUE
      BY <3>2, <3>3, Zenon
    <3>4. CASE opened' = opened
      BY <3>2, <3>4, Zenon
    <3> QED
      BY <3>1, <3>3, <3>4, Zenon
  <2>2. CASE \/ Arrive(r) \/ GetAccountBalances(r) \/ GetCredentials(r) \/ BatchDecrypt(r)
             \/ DecryptKey(r) \/ DecryptSecret(r) \/ LookupAccount(r) \/ GetBalance(r)
    <3>1. UNCHANGED <<faults, connected, free, ledger, request>> /\ opened' = opened
      BY <2>2 DEF Arrive, GetAccountBalances, GetCredentials, BatchDecrypt, DecryptKey, DecryptSecret,
         LookupAccount, GetBalance, world
    <3> QED
      BY <3>1, Zenon
  <2> QED
    BY <2>1, <2>2 DEF Step
<1>2. \A q \in Calls \ {r} : pc'[q] = pc[q] /\ answer'[q] = answer[q]
  BY <1>0 DEF Step, Arrive, GetCredentials, BatchDecrypt, DecryptKey, DecryptSecret, GetAccountBalances,
     InitializeAccount, LookupAccount, GetBalance, Return, Report, TypeOK
<1>3. \A q \in Calls \ {r} : creds'[q] = creds[q]
  BY <1>0 DEF Step, Arrive, GetCredentials, BatchDecrypt, DecryptKey, DecryptSecret, GetAccountBalances,
     InitializeAccount, LookupAccount, GetBalance, Return, Report, Hold, Zero, TypeOK
<1>4. \A q \in Calls \ {r} : read'[q] = read[q] /\ span'[q] = span[q]
  <2>0. read \in [Calls -> Nat] /\ span \in [Calls -> [broker : SUBSET Nat, ledger : SUBSET Cash]]
    BY <1>0 DEF TypeOK
  <2>1. CASE Arrive(r)
    BY <2>0, <2>1 DEF Arrive
  <2>2. CASE GetAccountBalances(r)
    BY <2>0, <2>2 DEF GetAccountBalances
  <2>3. CASE \/ GetCredentials(r) \/ BatchDecrypt(r) \/ DecryptKey(r) \/ DecryptSecret(r)
             \/ InitializeAccount(r) \/ LookupAccount(r) \/ GetBalance(r)
    BY <2>3 DEF GetCredentials, BatchDecrypt, DecryptKey, DecryptSecret, InitializeAccount,
       LookupAccount, GetBalance, world
  <2> QED
    BY <2>1, <2>2, <2>3 DEF Step
<1> QED
  BY <1>0, <1>1, <1>2, <1>3, <1>4, Frame

\* The types of what a step of a call may write.
CallShape ==
    /\ pc \in [Calls -> Places] /\ creds \in [Calls -> Buffers] /\ answer \in [Calls -> Answer]
    /\ read \in [Calls -> Nat]
    /\ span \in [Calls -> [broker : SUBSET Nat, ledger : SUBSET Cash]]
    /\ opened \in BOOLEAN

\* What a handler that returns an error writes.
LEMMA ReturnsError ==
    ASSUME TypeOK, NEW r \in Calls, NEW code \in {"InvalidArgument", "FailedPrecondition", "Internal",
           "Unavailable"}, Return(r, Error(code))
    PROVE  /\ pc' \in [Calls -> Places] /\ answer' \in [Calls -> Answer]
           /\ pc'[r] = "done" /\ answer'[r].code # "OK"
<1>1. Error(code) \in Answer /\ Error(code).code # "OK"
  BY DEF Error, Answer
<1> QED
  BY <1>1 DEF Return, TypeOK, Places

\* Going on to another place.
LEMMA GotoType ==
    ASSUME TypeOK, NEW r \in Calls, NEW place \in Places, Goto(r, place)
    PROVE  /\ pc' \in [Calls -> Places] /\ answer' \in [Calls -> Answer]
           /\ pc'[r] = place /\ answer' = answer
BY DEF TypeOK

\* The call that takes a step keeps its type and its invariant.
LEMMA OwnStep ==
    ASSUME IInv, NEW r \in Calls, Step(r)
    PROVE  CallShape' /\ CallInv(r)'
<1>0. /\ TypeOK /\ CallShape /\ Handled(r) /\ Spanned(r) /\ Witnessed(r) /\ Silent(r)
      /\ UNCHANGED <<faults, connected, free, ledger, request>>
      /\ Account(r)' = Account(r)
  BY OthersUntouched DEF IInv, CallInv, CallShape, TypeOK, Account
<1>1. \A place \in Places : Goto(r, place) =>
         /\ pc' \in [Calls -> Places] /\ answer' \in [Calls -> Answer]
         /\ pc'[r] = place /\ answer' = answer
  BY <1>0, GotoType
<1>2. ASSUME NEW code \in {"InvalidArgument", "FailedPrecondition", "Internal", "Unavailable"},
             Return(r, Error(code)), read' \in [Calls -> Nat], opened' = opened,
             creds' \in [Calls -> Buffers], creds'[r].key = "none", creds'[r].secret = "none",
             creds'[r].batch = creds[r].batch,
             span' \in [Calls -> [broker : SUBSET Nat, ledger : SUBSET Cash]]
      PROVE  CallShape' /\ CallInv(r)'
  <2>1. /\ pc' \in [Calls -> Places] /\ answer' \in [Calls -> Answer]
        /\ pc'[r] = "done" /\ answer'[r].code # "OK"
    BY <1>0, <1>2, ReturnsError
  <2>2. CallShape'
    BY <1>0, <1>2, <2>1 DEF CallShape
  <2>3. Handled(r)'
    BY <1>0, <1>2 DEF Handled
  <2> QED
    BY <2>1, <2>2, <2>3 DEF CallInv, Spanned, Witnessed, Silent, AtBroker, AtLedger
<1>3. CASE Arrive(r)
  <2>1. CASE Goto(r, "credentials")
    <3>1. /\ pc'[r] = "credentials" /\ answer' = answer /\ pc' \in [Calls -> Places]
      BY <1>1, <2>1 DEF Places
    <3>2. pc[r] = "idle" /\ read' = read /\ opened' = opened
      BY <1>3 DEF Arrive
    <3>3. creds' = creds /\ span' = [span EXCEPT ![r].broker = {FiatBalance(free)}]
      BY <1>3, <2>1, <3>1, <1>0 DEF Arrive, Return, CallShape
    <3>4. /\ span' \in [Calls -> [broker : SUBSET Nat, ledger : SUBSET Cash]]
          /\ FiatBalance(free) \in span'[r].broker
      BY <1>0, <3>3, Amounts DEF CallShape
    <3>5. CallShape'
      BY <1>0, <3>1, <3>2, <3>3, <3>4 DEF CallShape
    <3>6. Handled(r)' /\ Silent(r)' /\ Witnessed(r)'
      BY <1>0, <3>1, <3>2, <3>3 DEF Handled, Silent, Witnessed
    <3>7. Spanned(r)'
      BY <1>0, <3>1, <3>4 DEF Spanned, AtLedger
    <3> QED
      BY <3>5, <3>6, <3>7 DEF CallInv
  <2>2. CASE Return(r, Error("InvalidArgument"))
    <3>1. creds[r].key = "none" /\ creds[r].secret = "none" /\ creds' = creds /\ read' = read /\ opened' = opened
      BY <1>0, <1>3 DEF Arrive, Handled
    <3>2. span' = span
      BY <1>0, <1>3, <2>2 DEF Arrive, Return, CallShape
    <3> QED
      BY <1>0, <1>2, <2>2, <3>1, <3>2 DEF CallShape
  <2> QED
    BY <1>3, <2>1, <2>2 DEF Arrive
<1>4. ASSUME NEW place \in {"credentials", "batch", "key", "secret", "balances"},
             Goto(r, place), creds' \in [Calls -> Buffers], Handled(r)', AtBroker(r),
             read' = read, span' = span, opened' = opened
      PROVE  CallShape' /\ CallInv(r)'
  <2>1. pc' \in [Calls -> Places] /\ pc'[r] = place /\ answer' = answer
    BY <1>1, <1>4 DEF Places
  <2>2. CallShape'
    BY <1>0, <1>4, <2>1 DEF CallShape
  <2>3. Silent(r)' /\ Witnessed(r)'
    BY <1>0, <1>4, <2>1 DEF Silent, Witnessed, AtBroker
  <2>4. Spanned(r)'
    BY <1>0, <1>4, <2>1 DEF Spanned, AtLedger
  <2> QED
    BY <1>4, <2>2, <2>3, <2>4 DEF CallInv
<1>5. CASE GetCredentials(r)
  <2>0. /\ pc[r] = "credentials" /\ read' = read /\ span' = span /\ opened' = opened /\ creds' = creds
        /\ creds[r].key = "none" /\ creds[r].secret = "none"
    BY <1>0, <1>5 DEF GetCredentials, world, Handled
  <2>1. CASE Goto(r, "batch")
    <3>1. Handled(r)'
      BY <1>0, <2>0 DEF Handled
    <3> QED
      BY <1>0, <1>4, <2>0, <2>1, <3>1 DEF AtBroker, CallShape
  <2>2. ASSUME NEW code \in {"FailedPrecondition", "Internal"}, Return(r, Error(code))
        PROVE  CallShape' /\ CallInv(r)'
    BY <1>0, <1>2, <2>0, <2>2 DEF CallShape
  <2> QED
    BY <1>5, <2>1, <2>2 DEF GetCredentials
<1>6. CASE BatchDecrypt(r)
  <2>0. pc[r] = "batch" /\ read' = read /\ span' = span /\ opened' = opened
    BY <1>6 DEF BatchDecrypt, world
  <2>1. ASSUME Goto(r, "balances"), NEW key \in {"empty", "plain"}, NEW secret \in {"empty", "plain"},
               Hold(r, key, secret)
        PROVE  CallShape' /\ CallInv(r)'
    <3>1. creds' \in [Calls -> Buffers] /\ creds'[r].batch = creds[r].batch
      BY <1>0, <2>1, HoldType
    <3>9. pc'[r] = "balances"
      BY <1>1, <2>1 DEF Places
    <3>2. Handled(r)'
      BY <1>0, <3>1, <3>9 DEF Handled
    <3> QED
      BY <1>4, <2>0, <2>1, <3>1, <3>2 DEF AtBroker
  <2>2. CASE Goto(r, "key") /\ UNCHANGED creds
    <3>1. Handled(r)'
      BY <1>0, <2>0, <2>2 DEF Handled
    <3> QED
      BY <1>0, <1>4, <2>0, <2>2, <3>1 DEF AtBroker, CallShape
  <2>3. CASE /\ "base64" \in faults /\ Goto(r, "key")
             /\ creds' = [creds EXCEPT ![r] = [key |-> "none", secret |-> "none", batch |-> "plain"]]
    <3>1. /\ creds' \in [Calls -> Buffers]
          /\ creds'[r].key = "none" /\ creds'[r].secret = "none"
      BY <1>0, <2>3 DEF CallShape, Buffers
    <3>2. Handled(r)'
      BY <1>0, <2>0, <2>3, <3>1 DEF Handled
    <3> QED
      BY <1>4, <2>0, <2>3, <3>1, <3>2 DEF AtBroker
  <2> QED
    BY <1>6, <2>1, <2>2, <2>3 DEF BatchDecrypt
<1>7. CASE DecryptKey(r)
  <2>0. pc[r] = "key" /\ read' = read /\ span' = span /\ opened' = opened
    BY <1>7 DEF DecryptKey, world
  <2>1. ASSUME Goto(r, "secret"), NEW key \in {"empty", "plain"}, Hold(r, key, "none")
        PROVE  CallShape' /\ CallInv(r)'
    <3>1. creds' \in [Calls -> Buffers] /\ creds'[r].batch = creds[r].batch /\ creds'[r].secret = "none"
      <4>1. creds' \in [Calls -> Buffers] /\ creds'[r].batch = creds[r].batch
        BY <1>0, <2>1, HoldType
      <4>2. creds'[r] = [key |-> key, secret |-> "none", batch |-> creds[r].batch]
        BY <1>0, <2>1 DEF Hold, CallShape
      <4>3. creds'[r].secret = "none"
        BY <4>2
      <4> QED
        BY <4>1, <4>3
    <3>9. pc'[r] = "secret"
      BY <1>1, <2>1 DEF Places
    <3>2. Handled(r)'
      BY <1>0, <3>1, <3>9 DEF Handled
    <3> QED
      BY <1>4, <2>0, <2>1, <3>1, <3>2 DEF AtBroker
  <2>2. CASE Return(r, Error("Internal")) /\ UNCHANGED creds
    <3>1. creds[r].key = "none" /\ creds[r].secret = "none"
      BY <1>0, <2>0 DEF Handled
    <3> QED
      BY <1>0, <1>2, <2>0, <2>2, <3>1 DEF CallShape
  <2> QED
    BY <1>7, <2>1, <2>2 DEF DecryptKey
<1>8. CASE DecryptSecret(r)
  <2>0. pc[r] = "secret" /\ read' = read /\ span' = span /\ opened' = opened
    BY <1>8 DEF DecryptSecret, world
  <2>1. ASSUME Goto(r, "balances"), NEW secret \in {"empty", "plain"}, Hold(r, creds[r].key, secret)
        PROVE  CallShape' /\ CallInv(r)'
    <3>1. creds[r].key \in {"none", "empty", "plain"}
      BY <1>0 DEF CallShape, Buffers
    <3>2. creds' \in [Calls -> Buffers] /\ creds'[r].batch = creds[r].batch
      BY <1>0, <2>1, <3>1, HoldType
    <3>9. pc'[r] = "balances"
      BY <1>1, <2>1 DEF Places
    <3>3. Handled(r)'
      BY <1>0, <3>2, <3>9 DEF Handled
    <3> QED
      BY <1>4, <2>0, <2>1, <3>2, <3>3 DEF AtBroker
  <2>2. CASE Return(r, Error("Internal")) /\ Hold(r, "none", creds[r].secret)
    <3>1. creds[r].secret = "none"
      BY <1>0, <2>0 DEF Handled
    <3>2. /\ creds' \in [Calls -> Buffers] /\ creds'[r].batch = creds[r].batch
          /\ creds'[r].key = "none" /\ creds'[r].secret = "none"
      BY <1>0, <2>2, <3>1, HoldType
    <3> QED
      BY <1>0, <1>2, <2>0, <2>2, <3>2 DEF CallShape
  <2> QED
    BY <1>8, <2>1, <2>2 DEF DecryptSecret
<1>9. CASE GetAccountBalances(r)
  <2>0. pc[r] = "balances" /\ opened' = opened
    BY <1>9 DEF GetAccountBalances
  <2>3. /\ creds' \in [Calls -> Buffers] /\ creds'[r].batch = creds[r].batch
        /\ creds'[r].key = "none" /\ creds'[r].secret = "none"
    BY <1>0, <1>9, HoldType DEF GetAccountBalances, Zero
  <2>1. ASSUME NEW skipped \in IF "garbled" \in faults THEN SUBSET Assets ELSE {{}},
               read' = [read EXCEPT ![r] =
                           FiatBalance([a \in Assets |-> IF a \in skipped THEN 0 ELSE free[a]])],
               Goto(r, IF ~connected THEN "ledger"
                       ELSE IF request[r] = "" THEN "account" ELSE "ledger"),
               span' = [span EXCEPT ![r].ledger = {ledger[Account(r)]}]
        PROVE  CallShape' /\ CallInv(r)'
    <3>0. free \in [Assets -> Nat] /\ ledger[Account(r)] \in Cash
      BY <1>0, Amounts
    <3>2. /\ pc' \in [Calls -> Places] /\ pc'[r] \in {"account", "ledger"} /\ answer' = answer
          /\ pc'[r] = "account" => connected
      BY <1>1, <2>1 DEF Places
    <3>3. [a \in Assets |-> IF a \in skipped THEN 0 ELSE free[a]] \in [Assets -> Nat]
      BY <3>0
    <3>4. read' \in [Calls -> Nat]
      BY <1>0, <2>1, <3>3, FiatBalanceType DEF CallShape
    <3>5. /\ span' \in [Calls -> [broker : SUBSET Nat, ledger : SUBSET Cash]]
          /\ span'[r].broker = span[r].broker /\ ledger[Account(r)] \in span'[r].ledger
      <4>1. r \in Calls /\ span \in [Calls -> [broker : SUBSET Nat, ledger : SUBSET Cash]]
        BY <1>0 DEF CallShape
      <4>2. PICK l : l = ledger[Account(r)]
        OBVIOUS
      <4>3. l \in Cash /\ span' = [span EXCEPT ![r].ledger = {l}]
        BY <2>1, <3>0, <4>2
      <4> QED
        BY ONLY <4>1, <4>2, <4>3
    <3>6. CallShape'
      BY <1>0, <2>0, <2>3, <3>2, <3>4, <3>5 DEF CallShape
    <3>7. faults = {} => read'[r] = FiatBalance(free)
      <4>1. faults = {} => [a \in Assets |-> IF a \in skipped THEN 0 ELSE free[a]] = free
        BY <2>1, <3>0
      <4>2. read'[r] = FiatBalance([a \in Assets |-> IF a \in skipped THEN 0 ELSE free[a]])
        BY <1>0, <2>1 DEF CallShape
      <4> QED
        BY <4>1, <4>2
    <3>8. Spanned(r)'
      BY <1>0, <2>0, <3>2, <3>5, <3>7 DEF Spanned, AtBroker, AtLedger
    <3>9. Handled(r)' /\ Silent(r)' /\ Witnessed(r)'
      BY <1>0, <2>0, <2>3, <3>2 DEF Handled, Silent, Witnessed
    <3> QED
      BY <3>6, <3>8, <3>9 DEF CallInv
  <2>2. CASE Return(r, Error("Unavailable")) /\ UNCHANGED <<read, span>>
    BY <1>0, <1>2, <2>0, <2>2, <2>3 DEF CallShape
  <2> QED
    BY <1>9, <2>1, <2>2 DEF GetAccountBalances
<1>10. CASE InitializeAccount(r)
  <2>1. /\ pc[r] = "account" /\ creds' = creds /\ read' = read /\ span' = span
        /\ Goto(r, "ledger") \/ Goto(r, "lookup")
    BY <1>10 DEF InitializeAccount
  <2>2. pc' \in [Calls -> Places] /\ pc'[r] \in {"ledger", "lookup"} /\ answer' = answer
    BY <1>1, <2>1 DEF Places
  <2>3. opened' \in BOOLEAN /\ (faults = {} /\ pc'[r] = "lookup" => opened' = TRUE)
    BY <1>0, <1>1, <1>10 DEF InitializeAccount, CallShape, Places
  <2>4. CallShape'
    BY <1>0, <2>1, <2>2, <2>3 DEF CallShape
  <2>5. Handled(r)' /\ Silent(r)' /\ Witnessed(r)'
    BY <1>0, <2>1, <2>2 DEF Handled, Silent, Witnessed
  <2>6. Spanned(r)'
    BY <1>0, <2>1, <2>2, <2>3 DEF Spanned, AtBroker, AtLedger
  <2> QED
    BY <2>4, <2>5, <2>6 DEF CallInv
<1>11. ASSUME NEW bal \in Int, Report(r, bal), AtLedger(r), UNCHANGED <<read, span, opened>>,
              faults = {} /\ connected => bal \in span[r].ledger
       PROVE  CallShape' /\ CallInv(r)'
  <2>1. /\ answer' \in [Calls -> Answer] /\ creds' \in [Calls -> Buffers] /\ pc' \in [Calls -> Places]
        /\ pc'[r] = "done"
        /\ creds'[r].key = "none" /\ creds'[r].secret = "none" /\ creds'[r].batch = creds[r].batch
        /\ answer'[r].in_sync = (read[r] = bal) /\ answer'[r].adjust = StringFixed(read[r] - bal)
    BY <1>0, <1>11, ReportStep
  <2>2. CallShape'
    BY <1>0, <1>11, <2>1 DEF CallShape
  <2>3. Witnessed(r)'
    <3>1. faults = {} => read[r] \in span[r].broker
      BY <1>0, <1>11 DEF Spanned
    <3> QED
      BY <1>0, <1>11, <2>1, <3>1 DEF Witnessed
  <2>4. Handled(r)'
    BY <1>0, <2>1 DEF Handled
  <2> QED
    BY <2>1, <2>2, <2>3, <2>4 DEF CallInv, Silent, Spanned, AtBroker, AtLedger
<1>12. CASE LookupAccount(r)
  <2>0. pc[r] = "lookup" /\ read' = read /\ span' = span /\ opened' = opened
    BY <1>12 DEF LookupAccount, world
  <2>1. CASE opened /\ Goto(r, "ledger") /\ UNCHANGED creds
    <3>1. pc' \in [Calls -> Places] /\ pc'[r] = "ledger" /\ answer' = answer
      BY <1>1, <2>1 DEF Places
    <3>2. CallShape'
      BY <1>0, <2>0, <2>1, <3>1 DEF CallShape
    <3>3. Handled(r)' /\ Silent(r)' /\ Witnessed(r)'
      BY <1>0, <2>0, <2>1, <3>1 DEF Handled, Silent, Witnessed
    <3>4. Spanned(r)'
      BY <1>0, <2>0, <3>1 DEF Spanned, AtBroker, AtLedger
    <3> QED
      BY <3>2, <3>3, <3>4 DEF CallInv
  <2>2. CASE (~opened \/ "livro" \in faults) /\ Report(r, 0)
    <3>1. faults # {}
      BY <1>0, <2>0, <2>2 DEF Spanned
    <3> QED
      BY <1>11, <2>0, <2>2, <3>1 DEF AtLedger
  <2> QED
    BY <1>12, <2>1, <2>2 DEF LookupAccount
<1>13. CASE GetBalance(r)
  <2>0. pc[r] = "ledger" /\ read' = read /\ span' = span /\ opened' = opened
    BY <1>13 DEF GetBalance, world
  <2>1. CASE Report(r, ledger[Account(r)])
    <3>1. ledger[Account(r)] \in Int /\ ledger[Account(r)] \in span[r].ledger
      BY <1>0, <2>0, Amounts DEF Spanned, AtLedger
    <3> QED
      BY <1>11, <2>0, <2>1, <3>1 DEF AtLedger
  <2>2. CASE (~connected \/ "livro" \in faults) /\ Report(r, 0)
    BY <1>11, <2>0, <2>2 DEF AtLedger
  <2> QED
    BY <1>13, <2>1, <2>2 DEF GetBalance
<1> QED
  BY <1>3, <1>5, <1>6, <1>7, <1>8, <1>9, <1>10, <1>12, <1>13 DEF Step

\* Money that moves at the broker is noticed by every call that has not read it yet.
LEMMA BrokerStep ==
    ASSUME IInv, BrokerMoves
    PROVE  IInv'
<1>0. /\ TypeOK
      /\ UNCHANGED <<faults, connected, ledger, opened, request, pc, creds, read, answer>>
      /\ free' \in Holdings
  BY DEF IInv, BrokerMoves
<1>1. FiatBalance(free') \in Nat
  BY <1>0, FiatBalanceType
<1>2. ASSUME NEW r \in Calls
      PROVE  /\ span'[r] \in [broker : SUBSET Nat, ledger : SUBSET Cash]
             /\ span'[r].ledger = span[r].ledger /\ span[r].broker \subseteq span'[r].broker
             /\ AtBroker(r) => FiatBalance(free') \in span'[r].broker
  <2>1. span[r] \in [broker : SUBSET Nat, ledger : SUBSET Cash]
    BY <1>0 DEF TypeOK
  <2>2. span'[r] = IF AtBroker(r) THEN [span[r] EXCEPT !.broker = @ \cup {FiatBalance(free')}]
                                  ELSE span[r]
    BY DEF BrokerMoves
  <2> QED
    BY <1>1, <2>1, <2>2
<1>3. span' \in [Calls -> [broker : SUBSET Nat, ledger : SUBSET Cash]]
  <2>1. span' = [r \in Calls |-> span'[r]]
    BY DEF BrokerMoves
  <2> QED
    BY <1>2, <2>1
<1>4. TypeOK'
  BY <1>0, <1>3 DEF TypeOK
<1>5. ASSUME NEW r \in Calls
      PROVE  CallInv(r)'
  <2>0. /\ Handled(r) /\ Spanned(r) /\ Witnessed(r) /\ Silent(r)
        /\ Account(r)' = Account(r) /\ AtBroker(r)' = AtBroker(r) /\ AtLedger(r)' = AtLedger(r)
    BY <1>0 DEF IInv, CallInv, Account, AtBroker, AtLedger
  <2>1. Handled(r)' /\ Silent(r)'
    BY <1>0, <2>0 DEF Handled, Silent
  <2>2. Spanned(r)'
    BY <1>0, <1>2, <2>0 DEF Spanned
  <2>3. Witnessed(r)'
    BY <1>0, <1>2, <2>0 DEF Witnessed
  <2> QED
    BY <2>1, <2>2, <2>3 DEF CallInv
<1> QED
  BY <1>4, <1>5 DEF IInv

\* Money that moves in Livro is noticed by every call that is about to read the ledger.
LEMMA LedgerStep ==
    ASSUME IInv, NEW a \in Accounts, LedgerMoves(a)
    PROVE  IInv'
<1>0. /\ TypeOK
      /\ UNCHANGED <<faults, connected, free, opened, request, pc, creds, read, answer>>
  BY DEF IInv, LedgerMoves
<1>1. ledger' \in [Accounts -> Cash]
  BY <1>0 DEF LedgerMoves, TypeOK
<1>2. ASSUME NEW r \in Calls
      PROVE  /\ span'[r] \in [broker : SUBSET Nat, ledger : SUBSET Cash]
             /\ span'[r].broker = span[r].broker /\ span[r].ledger \subseteq span'[r].ledger
             /\ AtLedger(r) => ledger'[Account(r)] \in span'[r].ledger
  <2>1. span[r] \in [broker : SUBSET Nat, ledger : SUBSET Cash]
    BY <1>0 DEF TypeOK
  <2>2. span'[r] = IF AtLedger(r) THEN [span[r] EXCEPT !.ledger = @ \cup {ledger'[Account(r)]}]
                                  ELSE span[r]
    BY DEF LedgerMoves
  <2>3. ledger'[Account(r)] \in Cash
    BY <1>0, <1>1, Amounts
  <2> QED
    BY <2>1, <2>2, <2>3
<1>3. span' \in [Calls -> [broker : SUBSET Nat, ledger : SUBSET Cash]]
  <2>1. span' = [r \in Calls |-> span'[r]]
    BY DEF LedgerMoves
  <2> QED
    BY <1>2, <2>1
<1>4. TypeOK'
  BY <1>0, <1>1, <1>3 DEF TypeOK
<1>5. ASSUME NEW r \in Calls
      PROVE  CallInv(r)'
  <2>0. /\ Handled(r) /\ Spanned(r) /\ Witnessed(r) /\ Silent(r)
        /\ Account(r)' = Account(r) /\ AtBroker(r)' = AtBroker(r) /\ AtLedger(r)' = AtLedger(r)
    BY <1>0 DEF IInv, CallInv, Account, AtBroker, AtLedger
  <2>1. Handled(r)' /\ Silent(r)'
    BY <1>0, <2>0 DEF Handled, Silent
  <2>2. Spanned(r)'
    BY <1>0, <1>2, <2>0 DEF Spanned
  <2>3. Witnessed(r)'
    BY <1>0, <1>2, <2>0 DEF Witnessed
  <2> QED
    BY <2>1, <2>2, <2>3 DEF CallInv
<1> QED
  BY <1>4, <1>5 DEF IInv

\* Every step keeps the invariant.
LEMMA IInvPreserved == IInv /\ [Next]_vars => IInv'
<1> SUFFICES ASSUME IInv, [Next]_vars
             PROVE  IInv'
  OBVIOUS
<1>1. ASSUME NEW r \in Calls, Step(r)
      PROVE  IInv'
  <2>1. /\ UNCHANGED <<faults, connected, free, ledger, request>>
        /\ \A q \in Calls \ {r} : CallInv(q)'
    BY <1>1, OthersUntouched
  <2>2. CallShape' /\ CallInv(r)'
    BY <1>1, OwnStep
  <2>3. TypeOK
    BY DEF IInv
  <2>4. TypeOK'
    BY <2>1, <2>2, <2>3 DEF CallShape, TypeOK
  <2> QED
    BY <2>1, <2>2, <2>4 DEF IInv
<1>2. CASE UNCHANGED vars
  <2>1. TypeOK'
    BY <1>2 DEF vars, IInv, TypeOK
  <2>2. \A q \in Calls : CallInv(q)'
    BY <1>2, Frame DEF vars, IInv
  <2> QED
    BY <2>1, <2>2 DEF IInv
<1> QED
  BY <1>1, <1>2, BrokerStep, LedgerStep DEF Next

\* Initially no call has done anything.
LEMMA IInvInit == Init => IInv
<1> SUFFICES ASSUME Init
             PROVE  IInv
  OBVIOUS
<1>1. Error("none") \in Answer /\ Error("none").code = "none" /\ NoBuffers \in Buffers
  BY DEF Error, Answer, NoBuffers, Buffers
<1>2. TypeOK
  BY <1>1 DEF Init, TypeOK, Places
<1>3. ASSUME NEW r \in Calls
      PROVE  CallInv(r)
  BY <1>1 DEF Init, CallInv, Handled, NoBuffers, Spanned, Witnessed, Silent, AtBroker, AtLedger
<1> QED
  BY <1>2, <1>3 DEF IInv

\* The inductive invariant holds in every behaviour.
THEOREM Invariance == Spec => []IInv
BY IInvInit, IInvPreserved, PTL DEF Spec

\* Every variable of SyncBrokerBalances keeps its type.
THEOREM TypeCorrect == Spec => []TypeOK
<1>1. IInv => TypeOK
  BY DEF IInv
<1> QED
  BY <1>1, Invariance, PTL

\* With Livro connected and no fault, whatever SyncBrokerBalances reports was true of a broker
\* balance and a later ledger balance of the account, for any number of calls that race.
THEOREM ReportsAreWitnessed == Spec => []ReportIsWitnessed
<1>1. IInv => ReportIsWitnessed
  BY DEF IInv, CallInv, Witnessed, ReportIsWitnessed
<1> QED
  BY <1>1, Invariance, PTL

\* vault/client.go, service.go and binance/client.go: wherever it failed, no call keeps a plaintext
\* past the signed request or its return, except in the buffer of a batch of which one half decoded.
THEOREM CredentialsAreWiped == Spec => []CredentialsWiped
<1>1. IInv => CredentialsWiped
  BY DEF IInv, CallInv, Handled, CredentialsWiped
<1> QED
  BY <1>1, Invariance, PTL
=============================================================================

----------------------------- MODULE VaultProofs -----------------------------
(***************************************************************************)
(* Theorems about the vault for every set of wallets, salts, secrets and   *)
(* amounts and every distribution of NIGHT.                                 *)
(***************************************************************************)
EXTENDS VaultTx, TotalsProofs

-----------------------------------------------------------------------------
(* Types *)

\* At deployment every map is empty and the NIGHT is where Funds says.
LEMMA InitType == Init => TypeOK
<1> USE WalletsAssumption, AmountsAssumption
<1>1. QED
  BY DEF Init, TypeOK, Addresses, ServiceIds, Receipts

\* Writing one key of a map keeps its values in range.
LEMMA InsertType ==
    ASSUME NEW D, NEW V, NEW map \in [D -> V], NEW key, NEW value \in V
    PROVE  /\ Insert(map, key, value) \in [D \cup {key} -> V]
           /\ Insert(map, key, value)[key] = value
           /\ \A k \in D : k # key => Insert(map, key, value)[k] = map[k]
  BY DEF Insert

\* A registration adds one key to both maps and keeps the types.
LEMMA RegisterType ==
    ASSUME TypeOK, NEW salt \in Salts, NEW price \in Prices, NEW owner \in Addresses,
           registerService(salt, price, owner)
    PROVE  TypeOK'
<1> DEFINE sid == deriveServiceId(owner, salt, price)
<1>1. owner \in Wallets /\ price \in 1..MaxUint64
  BY AmountsAssumption DEF registerService, Registrable, Addresses, Uint64
<1>2. sid \in ServiceIds
  BY <1>1 DEF deriveServiceId, ServiceIds
<1>3. /\ servicePrice' = Insert(servicePrice, sid, price)
      /\ serviceOwner' = Insert(serviceOwner, sid, owner)
  BY DEF registerService, Registrable
<1> HIDE DEF sid
<1>4. /\ servicePrice' \in [DOMAIN servicePrice \cup {sid} -> 1..MaxUint64]
      /\ serviceOwner' \in [DOMAIN servicePrice \cup {sid} -> Wallets]
  BY <1>1, <1>3, InsertType DEF TypeOK
<1>5. QED
  BY <1>2, <1>4 DEF registerService, Registrable, TypeOK, pool, mint

\* A deposit keeps the types: the caller has the NIGHT it pays in.
LEMMA DepositType ==
    ASSUME TypeOK, NEW w \in Wallets, NEW amount \in Amounts, NEW seed \in Seeds,
           deposit(w, amount, seed)
    PROVE  TypeOK'
<1> USE AmountsAssumption
<1>1. night' \in [Addresses -> Nat] /\ credit' \in [Wallets -> Nat] /\ reserve' \in Nat
  BY DEF deposit, TypeOK, Addresses
<1>2. mintCounter' \in Nat /\ nonces' \subseteq Nat \X Seeds
  BY DEF deposit, TypeOK, evolveNonce
<1>3. QED
  BY <1>1, <1>2 DEF deposit, TypeOK, registry

\* Spending a coin the wallet can fund leaves no negative amount of credit.
LEMMA SpentType ==
    ASSUME TypeOK, NEW w \in Wallets, NEW coin \in Coins, CanFund(w, coin)
    PROVE  Spent(w, coin) \in [Wallets -> Nat]
  BY AmountsAssumption DEF TypeOK, Coins, CanFund, Spent

\* A payment keeps the types: the merchant's new balance fits in a Uint<64>.
LEMMA PayType ==
    ASSUME TypeOK, NEW w \in Wallets, NEW sid \in DOMAIN servicePrice,
           NEW secret \in Secrets, NEW coin \in Coins, pay(w, sid, secret, coin)
    PROVE  TypeOK'
<1>1. sid \in ServiceIds /\ serviceOwner[sid] \in Wallets /\ servicePrice[sid] \in 1..MaxUint64
  BY DEF TypeOK
<1>2. deriveReceipt(secret, sid) \in Receipts
  BY <1>1 DEF deriveReceipt, Receipts
<1>3. receipts' \subseteq Receipts
  BY <1>2 DEF pay, Credited, TypeOK
<1>4. credit' \in [Wallets -> Nat]
  BY SpentType DEF pay, Credited
<1>5. Balance(serviceOwner[sid]) + servicePrice[sid] \in 0..MaxUint64
  BY <1>1, AmountsAssumption DEF pay, Credited, Balance, TypeOK, Uint64
<1>6. merchantBalance' \in [DOMAIN merchantBalance \cup {serviceOwner[sid]} -> 0..MaxUint64]
  BY <1>5, InsertType DEF pay, Credited, TypeOK, Uint64
<1>7. QED
  BY <1>1, <1>3, <1>4, <1>6 DEF pay, Credited, TypeOK, registry, mint, Uint64

\* A redemption keeps the types.
LEMMA RedeemType ==
    ASSUME TypeOK, NEW w \in Wallets, NEW coin \in Coins, NEW recipient \in Addresses,
           redeem(w, coin, recipient)
    PROVE  TypeOK'
<1>1. credit' \in [Wallets -> Nat]
  BY SpentType DEF redeem
<1>2. night' \in [Addresses -> Nat] /\ reserve' \in Nat
  BY AmountsAssumption DEF redeem, TypeOK, Coins
<1>3. QED
  BY <1>1, <1>2 DEF redeem, TypeOK, registry, mint

\* A withdrawal keeps the types: it takes no more than the balance.
LEMMA WithdrawType ==
    ASSUME TypeOK, NEW sid \in DOMAIN serviceOwner, NEW amount \in Amounts,
           withdraw(sid, amount)
    PROVE  TypeOK'
<1> USE AmountsAssumption
<1>1. /\ serviceOwner[sid] \in Wallets /\ serviceOwner[sid] \in DOMAIN merchantBalance
      /\ merchantBalance[serviceOwner[sid]] \in 0..MaxUint64
  BY DEF withdraw, Withdrawable, TypeOK, Uint64
<1>2. merchantBalance[serviceOwner[sid]] - amount \in 0..MaxUint64
  BY <1>1 DEF withdraw, Withdrawable
<1>3. merchantBalance' \in [DOMAIN merchantBalance \cup {serviceOwner[sid]} -> 0..MaxUint64]
  BY <1>2, InsertType DEF withdraw, Withdrawable, TypeOK, Uint64
<1>4. night' \in [Addresses -> Nat] /\ paidOut' \in [Addresses -> Nat] /\ reserve' \in Nat
  BY <1>1 DEF withdraw, Withdrawable, TypeOK, Addresses
<1>5. QED
  BY <1>1, <1>3, <1>4 DEF withdraw, Withdrawable, TypeOK, registry, mint, Uint64

\* Every step of the ledger keeps the types.
LEMMA StepType == TypeOK /\ [Next]_vars => TypeOK'
<1> SUFFICES ASSUME TypeOK, [Next]_vars PROVE TypeOK'
  OBVIOUS
<1>1. CASE UNCHANGED vars
  BY <1>1 DEF vars, registry, mint, pool, TypeOK
<1>2. CASE Next
  BY <1>2, RegisterType, DepositType, PayType, RedeemType, WithdrawType DEF Next
<1>3. QED
  BY <1>1, <1>2

\* Type correctness of the ledger: the two registry maps have the same keys, every
\* amount is a natural number and every merchant balance fits in a Uint<64>.
THEOREM TypeCorrect == Spec => []TypeOK
<1>1. QED
  BY InitType, StepType, PTL DEF Spec

-----------------------------------------------------------------------------
(* Accounting. The invariant adds to the three equations what their steps need: *)
(* that receipts are finitely many and name registered services.               *)

ReceiptsKnown ==
    /\ IsFiniteSet(receipts)
    /\ \A r \in receipts : r[2] \in DOMAIN servicePrice

LedgerInv ==
    /\ TypeOK
    /\ ReceiptsKnown
    /\ Backed
    /\ NightConserved
    /\ RevenueAccounted

\* The functions that are summed have natural numbers as values.
LEMMA SummandTypes ==
    ASSUME TypeOK, ReceiptsKnown
    PROVE  /\ credit \in [Wallets -> Nat] /\ Balances \in [Wallets -> Nat]
           /\ Holdings \in [Wallets -> Nat]
           /\ \A owner \in Wallets :
                  LET D == {q \in receipts : serviceOwner[q[2]] = owner} IN
                  IsFiniteSet(D) /\ Sales(owner) \in [D -> Nat]
<1>1. credit \in [Wallets -> Nat] /\ Holdings \in [Wallets -> Nat]
  BY DEF TypeOK, Holdings, Addresses
<1>2. Balances \in [Wallets -> Nat]
  BY AmountsAssumption DEF TypeOK, Balances, Balance, Uint64
<1>3. ASSUME NEW owner \in Wallets
      PROVE  LET D == {q \in receipts : serviceOwner[q[2]] = owner} IN
             IsFiniteSet(D) /\ Sales(owner) \in [D -> Nat]
  <2>1. IsFiniteSet({q \in receipts : serviceOwner[q[2]] = owner})
    BY FS_Subset DEF ReceiptsKnown
  <2>2. \A r \in receipts : servicePrice[r[2]] \in Nat
    BY AmountsAssumption DEF TypeOK, ReceiptsKnown
  <2>3. QED
    BY <2>1, <2>2 DEF Sales
<1>4. QED
  BY <1>1, <1>2, <1>3

\* A step that leaves receipts, balances and payouts alone keeps the revenue
\* equation, if it keeps the entries of the services that were paid.
LEMMA RevenueUnchanged ==
    ASSUME LedgerInv, UNCHANGED <<receipts, merchantBalance, paidOut>>,
           \A sid \in DOMAIN servicePrice :
               /\ sid \in DOMAIN servicePrice'
               /\ servicePrice'[sid] = servicePrice[sid]
               /\ serviceOwner'[sid] = serviceOwner[sid]
    PROVE  ReceiptsKnown' /\ RevenueAccounted'
<1>1. ReceiptsKnown'
  BY DEF LedgerInv, ReceiptsKnown
<1>2. ASSUME NEW owner \in Wallets PROVE Sales(owner)' = Sales(owner)
  <2>1. {q \in receipts' : serviceOwner'[q[2]] = owner}
          = {q \in receipts : serviceOwner[q[2]] = owner}
    BY DEF LedgerInv, ReceiptsKnown
  <2>2. \A r \in receipts : servicePrice'[r[2]] = servicePrice[r[2]]
    BY DEF LedgerInv, ReceiptsKnown
  <2>3. QED
    BY <2>1, <2>2 DEF Sales
<1>3. \A owner \in Wallets : Balance(owner)' = Balance(owner)
  BY DEF Balance
<1>4. QED
  BY <1>1, <1>2, <1>3 DEF LedgerInv, RevenueAccounted

\* At deployment nothing is owed, nothing was sold and all NIGHT is in the wallets.
LEMMA InitInv == Init => LedgerInv
<1> SUFFICES ASSUME Init PROVE LedgerInv
  OBVIOUS
<1>1. TypeOK
  BY InitType
<1>2. ReceiptsKnown
  BY FS_EmptySet DEF Init, ReceiptsKnown
<1>3. Total(credit) = 0 /\ Total(Balances) = 0 /\ \A o \in Wallets : Total(Sales(o)) = 0
  <2>1. credit \in [Wallets -> {0}]
    BY DEF Init
  <2>2. Balances \in [Wallets -> {0}]
    BY DEF Init, Balances, Balance
  <2>3. \A o \in Wallets : Sales(o) \in [{} -> {0}]
    BY DEF Init, Sales
  <2>4. QED
    BY <2>1, <2>2, <2>3, TotalZero
<1>4. Holdings = Funds
  <2>1. \A w \in Wallets : Holdings[w] = Funds[w]
    BY DEF Init, Holdings, Addresses
  <2>2. QED
    BY <2>1, AmountsAssumption DEF Holdings
<1>5. Total(Funds) \in Nat
  BY TotalType, WalletsAssumption, AmountsAssumption
<1>6. Backed /\ NightConserved
  BY <1>3, <1>4, <1>5 DEF Backed, NightConserved, Init
<1>7. RevenueAccounted
  BY <1>3 DEF RevenueAccounted, Init, Balance, Addresses
<1>8. QED
  BY <1>1, <1>2, <1>6, <1>7 DEF LedgerInv

\* What changing one holding, one balance or one wallet's credit does to the sums.
LEMMA HoldingsChange ==
    ASSUME TypeOK, TypeOK', NEW a \in Wallets, NEW n \in Nat
    PROVE  /\ night' = [night EXCEPT ![a] = @ + n] => Total(Holdings') = Total(Holdings) + n
           /\ night' = [night EXCEPT ![a] = @ - n] => Total(Holdings) = Total(Holdings') + n
<1> DEFINE before == Holdings
           after  == Holdings'
<1>1. before \in [Wallets -> Nat] /\ after \in [Wallets -> Nat]
  BY DEF TypeOK, Holdings, Addresses
<1>2. ASSUME night' = [night EXCEPT ![a] = @ + n]
      PROVE  after[a] = before[a] + n /\ \A y \in Wallets : y # a => after[y] = before[y]
  BY <1>2 DEF TypeOK, Holdings, Addresses
<1>3. ASSUME night' = [night EXCEPT ![a] = @ - n]
      PROVE  before[a] = after[a] + n /\ \A y \in Wallets : y # a => before[y] = after[y]
  BY <1>3 DEF TypeOK, Holdings, Addresses
<1> HIDE DEF before, after
<1>4. night' = [night EXCEPT ![a] = @ + n] => Total(after) = Total(before) + n
  BY <1>1, <1>2, TotalIncrease, WalletsAssumption
<1>5. night' = [night EXCEPT ![a] = @ - n] => Total(before) = Total(after) + n
  BY <1>1, <1>3, TotalIncrease, WalletsAssumption
<1>6. QED
  BY <1>4, <1>5 DEF before, after

\* Inserting a merchant's balance changes what the vault owes by the difference.
LEMMA BalancesChange ==
    ASSUME TypeOK, TypeOK', NEW o \in Wallets, NEW n \in Nat
    PROVE  /\ merchantBalance' = Insert(merchantBalance, o, Balance(o) + n) =>
                /\ Total(Balances') = Total(Balances) + n
                /\ Balance(o)' = Balance(o) + n
                /\ \A p \in Wallets : p # o => Balance(p)' = Balance(p)
           /\ merchantBalance' = Insert(merchantBalance, o, Balance(o) - n) =>
                /\ Total(Balances) = Total(Balances') + n
                /\ Balance(o) = Balance(o)' + n
                /\ \A p \in Wallets : p # o => Balance(p)' = Balance(p)
<1> DEFINE before == Balances
           after  == Balances'
<1>1. before \in [Wallets -> Nat] /\ after \in [Wallets -> Nat]
  BY AmountsAssumption DEF TypeOK, Balances, Balance, Uint64
<1>2. \A p \in Wallets : before[p] = Balance(p) /\ after[p] = Balance(p)' /\ Balance(p) \in Nat
  BY AmountsAssumption DEF TypeOK, Balances, Balance, Uint64
<1>3. ASSUME merchantBalance' = Insert(merchantBalance, o, Balance(o) + n)
      PROVE  Balance(o)' = Balance(o) + n /\ \A p \in Wallets : p # o => Balance(p)' = Balance(p)
  BY <1>3 DEF Balance, Insert
<1>4. ASSUME merchantBalance' = Insert(merchantBalance, o, Balance(o) - n)
      PROVE  /\ Balance(o)' = Balance(o) - n
             /\ \A p \in Wallets : p # o => Balance(p)' = Balance(p)
  BY <1>4 DEF Balance, Insert
<1>5. ASSUME merchantBalance' = Insert(merchantBalance, o, Balance(o) - n)
      PROVE  Balance(o) = Balance(o)' + n
  BY <1>2, <1>4, <1>5
<1> HIDE DEF before, after
<1>6. merchantBalance' = Insert(merchantBalance, o, Balance(o) + n)
          => Total(after) = Total(before) + n
  BY <1>1, <1>2, <1>3, TotalIncrease, WalletsAssumption
<1>7. merchantBalance' = Insert(merchantBalance, o, Balance(o) - n)
          => Total(before) = Total(after) + n
  BY <1>1, <1>2, <1>4, <1>5, TotalIncrease, WalletsAssumption
<1>8. QED
  BY <1>3, <1>4, <1>5, <1>6, <1>7 DEF before, after

\* Spending a credit coin lowers the outstanding credit by the coin's value.
LEMMA CreditSpent ==
    ASSUME TypeOK, NEW w \in Wallets, NEW coin \in Coins, CanFund(w, coin),
           coin.color = CreditColor, credit' = Spent(w, coin)
    PROVE  Total(credit) = Total(credit') + coin.value
<1>1. credit' \in [Wallets -> Nat]
  BY SpentType
<1>2. /\ coin.value \in Nat /\ credit \in [Wallets -> Nat]
      /\ credit[w] = credit'[w] + coin.value
      /\ \A y \in Wallets : y # w => credit[y] = credit'[y]
  BY AmountsAssumption DEF TypeOK, Spent, Coins, CanFund
<1>3. QED
  BY <1>1, <1>2, TotalIncrease, WalletsAssumption

\* A registration moves no value and changes no sale of an existing service.
LEMMA RegisterInv ==
    ASSUME LedgerInv, NEW salt \in Salts, NEW price \in Prices, NEW owner \in Addresses,
           registerService(salt, price, owner)
    PROVE  LedgerInv'
<1>1. TypeOK'
  BY RegisterType DEF LedgerInv
<1>2. UNCHANGED <<receipts, merchantBalance, paidOut, reserve, night, credit>>
  BY DEF registerService, Registrable, pool
<1>3. \A sid \in DOMAIN servicePrice :
          /\ sid \in DOMAIN servicePrice'
          /\ servicePrice'[sid] = servicePrice[sid] /\ serviceOwner'[sid] = serviceOwner[sid]
  BY DEF registerService, Registrable, Insert, LedgerInv, TypeOK
<1>4. ReceiptsKnown' /\ RevenueAccounted'
  BY <1>2, <1>3, RevenueUnchanged
<1>5. Backed' /\ NightConserved'
  BY <1>2 DEF LedgerInv, Backed, NightConserved, Balances, Balance, Holdings
<1>6. QED
  BY <1>1, <1>4, <1>5 DEF LedgerInv

\* A deposit turns NIGHT of the caller into reserve and credit of the same amount.
LEMMA DepositInv ==
    ASSUME LedgerInv, NEW w \in Wallets, NEW amount \in Amounts, NEW seed \in Seeds,
           deposit(w, amount, seed)
    PROVE  LedgerInv'
<1> USE WalletsAssumption, AmountsAssumption
<1>1. TypeOK'
  BY DepositType DEF LedgerInv
<1>2. UNCHANGED <<servicePrice, serviceOwner, receipts, merchantBalance, paidOut>>
  BY DEF deposit, registry
<1>3. ReceiptsKnown' /\ RevenueAccounted'
  BY <1>2, RevenueUnchanged
<1>4. /\ credit \in [Wallets -> Nat] /\ credit' \in [Wallets -> Nat]
      /\ Holdings \in [Wallets -> Nat] /\ Holdings' \in [Wallets -> Nat]
      /\ Balances \in [Wallets -> Nat]
  <2>1. /\ credit \in [Wallets -> Nat]
        /\ Holdings \in [Wallets -> Nat] /\ Balances \in [Wallets -> Nat]
    BY SummandTypes DEF LedgerInv
  <2>2. credit' \in [Wallets -> Nat] /\ Holdings' \in [Wallets -> Nat]
    BY <1>1 DEF TypeOK, Holdings, Addresses
  <2>3. QED
    BY <2>1, <2>2
<1>5. Total(credit') = Total(credit) + amount
  <2>1. amount \in Nat
    OBVIOUS
  <2>2. credit'[w] = credit[w] + amount /\ \A y \in Wallets : y # w => credit'[y] = credit[y]
    BY <1>4 DEF deposit
  <2>3. QED
    BY <1>4, <2>1, <2>2, TotalIncrease
<1>6. Total(Holdings) = Total(Holdings') + amount
  <2>1. amount \in Nat /\ night' = [night EXCEPT ![w] = @ - amount]
    BY DEF deposit
  <2>2. QED
    BY <1>1, <2>1, HoldingsChange DEF LedgerInv
<1>7. Balances' = Balances
  BY <1>2 DEF Balances, Balance
<1>8. /\ Total(credit) \in Nat /\ Total(Balances) \in Nat
      /\ Total(Holdings') \in Nat /\ reserve \in Nat /\ reserve' = reserve + amount
  BY <1>4, TotalType DEF deposit, LedgerInv, TypeOK
<1>9. Backed' /\ NightConserved'
  BY <1>5, <1>6, <1>7, <1>8 DEF LedgerInv, Backed, NightConserved
<1>10. QED
  BY <1>1, <1>3, <1>9 DEF LedgerInv

\* A payment turns credit into the merchant's balance and adds one sale at its price.
LEMMA PayInv ==
    ASSUME LedgerInv, NEW w \in Wallets, NEW sid \in DOMAIN servicePrice,
           NEW secret \in Secrets, NEW coin \in Coins, pay(w, sid, secret, coin)
    PROVE  LedgerInv'
<1> DEFINE receipt == deriveReceipt(secret, sid)
<1>1. TypeOK'
  BY PayType DEF LedgerInv
<1>0. PICK owner \in Wallets, price \in Nat : owner = serviceOwner[sid] /\ price = servicePrice[sid]
  BY AmountsAssumption DEF LedgerInv, TypeOK
<1>2. /\ receipt[2] = sid /\ receipt \notin receipts /\ receipts' = receipts \cup {receipt}
      /\ merchantBalance' = Insert(merchantBalance, owner, Balance(owner) + price)
  BY <1>0 DEF pay, Credited, deriveReceipt
<1>3. UNCHANGED <<servicePrice, serviceOwner, paidOut, reserve, night>>
  BY DEF pay, Credited, registry
<1>4. ReceiptsKnown'
  BY <1>2, <1>3, FS_AddElement DEF LedgerInv, ReceiptsKnown
<1>5. Total(credit) = Total(credit') + price
  BY <1>0, CreditSpent DEF LedgerInv, pay, Credited, CoinAccepted
<1>6. /\ Total(Balances') = Total(Balances) + price
      /\ Balance(owner)' = Balance(owner) + price
      /\ \A p \in Wallets : p # owner => Balance(p)' = Balance(p)
  BY <1>1, <1>2, BalancesChange DEF LedgerInv
<1>7. /\ Total(credit') \in Nat /\ Total(Balances) \in Nat
  BY <1>1, SummandTypes, TotalType, WalletsAssumption DEF LedgerInv, TypeOK
<1>8. Backed' /\ NightConserved'
  BY <1>2, <1>3, <1>5, <1>6, <1>7 DEF LedgerInv, Backed, NightConserved, Holdings
<1>9. RevenueAccounted'
  <2>1. Total(Sales(owner)') = Total(Sales(owner)) + price
    <3> DEFINE D == {q \in receipts : serviceOwner[q[2]] = owner}
               before == Sales(owner)
               after  == Sales(owner)'
    <3>1. {q \in receipts' : serviceOwner'[q[2]] = owner} = D \cup {receipt}
      BY <1>0, <1>2, <1>3
    <3>2. before \in [D -> Nat] /\ IsFiniteSet(D)
      BY <1>2, SummandTypes DEF LedgerInv
    <3>3. after = [r \in D \cup {receipt} |-> servicePrice[r[2]]]
      BY <1>3, <3>1 DEF Sales
    <3>4. after[receipt] = price /\ \A r \in D : after[r] = before[r]
      BY <1>0, <1>2, <3>3 DEF Sales
    <3>5. after \in [D \cup {receipt} -> Nat]
      BY <1>2, <3>2, <3>3, <3>4
    <3>6. receipt \notin D
      BY <1>2
    <3> HIDE DEF before, after, D, receipt
    <3>7. Total(after) = Total(before) + after[receipt]
      BY <3>2, <3>4, <3>5, <3>6, TotalExtend
    <3>8. QED
      BY <3>4, <3>7 DEF before, after
  <2>2. ASSUME NEW p \in Wallets, p # owner PROVE Sales(p)' = Sales(p)
    <3>1. {q \in receipts' : serviceOwner'[q[2]] = p} = {q \in receipts : serviceOwner[q[2]] = p}
      BY <1>0, <1>2, <1>3, <2>2
    <3>2. QED
      BY <1>3, <3>1 DEF Sales
  <2>3. Balance(owner) \in Nat /\ paidOut[owner] \in Nat
    BY <1>2, AmountsAssumption DEF LedgerInv, TypeOK, Balance, Addresses, Uint64
  <2>4. QED
    BY <1>2, <1>3, <1>6, <2>1, <2>2, <2>3 DEF LedgerInv, RevenueAccounted
<1>10. QED
  BY <1>1, <1>4, <1>8, <1>9 DEF LedgerInv

\* A redemption turns credit and reserve back into NIGHT of some wallet.
LEMMA RedeemInv ==
    ASSUME LedgerInv, NEW w \in Wallets, NEW coin \in Coins, NEW recipient \in Addresses,
           redeem(w, coin, recipient)
    PROVE  LedgerInv'
<1>1. TypeOK'
  BY RedeemType DEF LedgerInv
<1>2. UNCHANGED <<servicePrice, serviceOwner, receipts, merchantBalance, paidOut>>
  BY DEF redeem, registry
<1>3. ReceiptsKnown' /\ RevenueAccounted'
  BY <1>2, RevenueUnchanged
<1>4. recipient \in Wallets /\ coin.value \in Nat
  <2>1. recipient \in Wallets
    BY DEF redeem, Addresses
  <2>2. PICK v \in Amounts : coin.value = v
    BY DEF Coins
  <2>3. v \in Nat
    BY AmountsAssumption
  <2>4. QED
    BY <2>1, <2>2, <2>3
<1>5. Total(credit) = Total(credit') + coin.value
  BY CreditSpent DEF LedgerInv, redeem
<1>6. Total(Holdings') = Total(Holdings) + coin.value
  BY <1>1, <1>4, HoldingsChange DEF LedgerInv, redeem
<1>7. Balances' = Balances
  BY <1>2 DEF Balances, Balance
<1>8. /\ Total(credit') \in Nat /\ Total(Balances) \in Nat /\ Total(Holdings) \in Nat
      /\ reserve \in Nat /\ reserve' = reserve - coin.value
  BY <1>1, SummandTypes, TotalType, WalletsAssumption DEF redeem, LedgerInv, TypeOK
<1>9. Backed' /\ NightConserved'
  BY <1>4, <1>5, <1>6, <1>7, <1>8 DEF LedgerInv, Backed, NightConserved
<1>10. QED
  BY <1>1, <1>3, <1>9 DEF LedgerInv

\* A withdrawal turns a merchant's balance and reserve into the merchant's NIGHT.
LEMMA WithdrawInv ==
    ASSUME LedgerInv, NEW sid \in DOMAIN serviceOwner, NEW amount \in Amounts,
           withdraw(sid, amount)
    PROVE  LedgerInv'
<1>1. TypeOK'
  BY WithdrawType DEF LedgerInv
<1>0. PICK owner \in Wallets : owner = serviceOwner[sid]
  BY DEF LedgerInv, TypeOK, withdraw, Withdrawable
<1>2. /\ amount \in Nat
      /\ merchantBalance' = Insert(merchantBalance, owner, Balance(owner) - amount)
      /\ night' = [night EXCEPT ![owner] = @ + amount]
      /\ paidOut' = [paidOut EXCEPT ![owner] = @ + amount]
  BY <1>0, AmountsAssumption DEF withdraw, Withdrawable, Balance
<1>3. UNCHANGED <<servicePrice, serviceOwner, receipts, credit>>
  BY DEF withdraw, Withdrawable, registry
<1>4. ReceiptsKnown'
  BY <1>3 DEF LedgerInv, ReceiptsKnown
<1>5. /\ Total(Balances) = Total(Balances') + amount
      /\ Balance(owner) = Balance(owner)' + amount
      /\ \A p \in Wallets : p # owner => Balance(p)' = Balance(p)
  BY <1>1, <1>2, BalancesChange DEF LedgerInv
<1>6. Total(Holdings') = Total(Holdings) + amount
  BY <1>1, <1>2, HoldingsChange DEF LedgerInv
<1>7. /\ Total(credit) \in Nat /\ Total(Balances') \in Nat /\ Total(Holdings) \in Nat
      /\ reserve \in Nat /\ reserve' = reserve - amount
  <2>1. Balances' \in [Wallets -> Nat]
    BY <1>1, AmountsAssumption DEF TypeOK, Balances, Balance, Uint64
  <2>2. QED
    BY <2>1, SummandTypes, TotalType, WalletsAssumption DEF withdraw, Withdrawable, LedgerInv, TypeOK
<1>8. Backed' /\ NightConserved'
  BY <1>2, <1>3, <1>5, <1>6, <1>7 DEF LedgerInv, Backed, NightConserved
<1>9. RevenueAccounted'
  <2>1. \A p \in Wallets : Sales(p)' = Sales(p)
    BY <1>3 DEF Sales
  <2>2. /\ paidOut'[owner] = paidOut[owner] + amount
        /\ \A p \in Wallets : p # owner => paidOut'[p] = paidOut[p]
    BY <1>2 DEF LedgerInv, TypeOK, Addresses
  <2>3. paidOut[owner] \in Nat /\ Balance(owner)' \in Nat
    BY <1>1, <1>2, AmountsAssumption DEF LedgerInv, TypeOK, Balance, Addresses, Uint64
  <2>4. QED
    BY <1>2, <1>5, <2>1, <2>2, <2>3 DEF LedgerInv, RevenueAccounted
<1>10. QED
  BY <1>1, <1>4, <1>8, <1>9 DEF LedgerInv

\* The accounting invariant is inductive.
LEMMA StepInv == LedgerInv /\ [Next]_vars => LedgerInv'
<1> SUFFICES ASSUME LedgerInv, [Next]_vars PROVE LedgerInv'
  OBVIOUS
<1>1. CASE UNCHANGED vars
  <2>1. TypeOK'
    BY StepType DEF LedgerInv
  <2>2. ReceiptsKnown' /\ RevenueAccounted'
    BY <1>1, RevenueUnchanged DEF vars, registry
  <2>3. Backed' /\ NightConserved'
    BY <1>1 DEF vars, pool, LedgerInv, Backed, NightConserved, Balances, Balance, Holdings
  <2>4. QED
    BY <2>1, <2>2, <2>3 DEF LedgerInv
<1>2. CASE Next
  BY <1>2, RegisterInv, DepositInv, PayInv, RedeemInv, WithdrawInv DEF Next
<1>3. QED
  BY <1>1, <1>2

\* Solvency: the reserve always equals the unspent credit plus the merchant
\* balances, for any number of wallets and any amounts.
THEOREM Solvency == Spec => []Backed
<1>1. LedgerInv => Backed
  BY DEF LedgerInv
<1>2. QED
  BY <1>1, InitInv, StepInv, PTL DEF Spec

\* No NIGHT is created or burned by any sequence of calls.
THEOREM Conservation == Spec => []NightConserved
<1>1. LedgerInv => NightConserved
  BY DEF LedgerInv
<1>2. QED
  BY <1>1, InitInv, StepInv, PTL DEF Spec

\* Every payment reaches exactly the merchant of its service: balance plus payouts
\* is the sum of the prices of the merchant's receipts.
THEOREM RevenueCorrect == Spec => []RevenueAccounted
<1>1. LedgerInv => RevenueAccounted
  BY DEF LedgerInv
<1>2. QED
  BY <1>1, InitInv, StepInv, PTL DEF Spec

-----------------------------------------------------------------------------
(* Registrations *)

\* Only registerService writes the registry, and no step removes a receipt.
LEMMA RegistryStep ==
    ASSUME [Next]_vars
    PROVE  /\ receipts \subseteq receipts'
           /\ \/ UNCHANGED registry
              \/ \E salt \in Salts, price \in Prices, owner \in Addresses :
                     registerService(salt, price, owner)
<1>1. CASE UNCHANGED vars
  BY <1>1 DEF vars
<1>2. CASE \E salt \in Salts, price \in Prices, owner \in Addresses :
               registerService(salt, price, owner)
  BY <1>2 DEF registerService
<1>3. ASSUME NEW w \in Wallets, NEW amount \in Amounts, NEW seed \in Seeds,
             deposit(w, amount, seed)
      PROVE  receipts' = receipts /\ UNCHANGED registry
  BY <1>3 DEF deposit
<1>4. ASSUME NEW w \in Wallets, NEW sid, NEW secret \in Secrets, NEW coin \in Coins,
             pay(w, sid, secret, coin)
      PROVE  receipts \subseteq receipts' /\ UNCHANGED registry
  BY <1>4 DEF pay
<1>5. ASSUME NEW w \in Wallets, NEW coin \in Coins, NEW recipient \in Addresses,
             redeem(w, coin, recipient)
      PROVE  receipts' = receipts /\ UNCHANGED registry
  BY <1>5 DEF redeem
<1>6. ASSUME NEW sid, NEW amount \in Amounts, withdraw(sid, amount)
      PROVE  receipts' = receipts /\ UNCHANGED registry
  BY <1>6 DEF withdraw
<1>7. QED
  BY <1>1, <1>2, <1>3, <1>4, <1>5, <1>6 DEF Next

\* A registration leaves every other entry alone.
LEMMA RegisterEntry ==
    ASSUME TypeOK, NEW salt \in Salts, NEW price \in Prices, NEW owner \in Addresses,
           registerService(salt, price, owner)
    PROVE  /\ DOMAIN servicePrice \subseteq DOMAIN servicePrice'
           /\ DOMAIN serviceOwner \subseteq DOMAIN serviceOwner'
           /\ \A id \in DOMAIN servicePrice : /\ servicePrice'[id] = servicePrice[id]
                                              /\ serviceOwner'[id] = serviceOwner[id]
  BY DEF registerService, Registrable, Insert, TypeOK

\* Registrations are immutable and receipts are never withdrawn.
THEOREM Immutability == Spec => LedgerGrows
<1> DEFINE Grows ==
       /\ receipts \subseteq receipts'
       /\ \A sid \in DOMAIN servicePrice :
              /\ sid \in DOMAIN servicePrice' /\ servicePrice'[sid] = servicePrice[sid]
              /\ sid \in DOMAIN serviceOwner' /\ serviceOwner'[sid] = serviceOwner[sid]
<1>1. ASSUME TypeOK, [Next]_vars PROVE Grows
  <2>1. CASE UNCHANGED registry
    BY <1>1, <2>1, RegistryStep DEF registry, TypeOK
  <2>2. ASSUME NEW salt \in Salts, NEW price \in Prices, NEW owner \in Addresses,
               registerService(salt, price, owner)
        PROVE  Grows
    <3>1. /\ DOMAIN servicePrice \subseteq DOMAIN servicePrice'
          /\ DOMAIN serviceOwner \subseteq DOMAIN serviceOwner'
          /\ \A id \in DOMAIN servicePrice : /\ servicePrice'[id] = servicePrice[id]
                                             /\ serviceOwner'[id] = serviceOwner[id]
      BY <1>1, <2>2, RegisterEntry
    <3>2. DOMAIN servicePrice = DOMAIN serviceOwner
      BY <1>1 DEF TypeOK
    <3>3. QED
      BY <1>1, <3>1, <3>2, RegistryStep
  <2>3. QED
    BY <1>1, <2>1, <2>2, RegistryStep
<1>2. TypeOK /\ [Next]_vars => [Grows]_vars
  BY <1>1
<1>3. QED
  BY <1>2, TypeCorrect, PTL DEF Spec, LedgerGrows

\* After a registration, an entry is the new one or an entry that was there before.
LEMMA BoundEntry ==
    ASSUME TypeOK, RegistrationBinds,
           NEW salt \in Salts, NEW price \in Prices, NEW owner \in Addresses,
           registerService(salt, price, owner),
           NEW o \in Addresses, NEW s \in Salts, NEW p \in Prices,
           <<o, s, p>> \in DOMAIN servicePrice'
    PROVE  servicePrice'[<<o, s, p>>] = p /\ serviceOwner'[<<o, s, p>>] = o
<1>1. CASE <<o, s, p>> = <<owner, salt, price>>
  BY <1>1 DEF registerService, Insert, deriveServiceId
<1>2. CASE <<o, s, p>> # <<owner, salt, price>>
  <2>1. /\ <<o, s, p>> \in DOMAIN servicePrice
        /\ servicePrice'[<<o, s, p>>] = servicePrice[<<o, s, p>>]
    BY <1>2 DEF registerService, Insert, deriveServiceId
  <2>2. serviceOwner'[<<o, s, p>>] = serviceOwner[<<o, s, p>>]
    BY <1>2, <2>1 DEF registerService, Insert, deriveServiceId, TypeOK
  <2>3. QED
    BY <2>1, <2>2 DEF RegistrationBinds, deriveServiceId
<1>3. QED
  BY <1>1, <1>2

\* The service under the id derived from an owner, a salt and a price has that owner and
\* that price, whoever registered it.
THEOREM Binding == Spec => []RegistrationBinds
<1>1. Init => RegistrationBinds
  BY DEF Init, RegistrationBinds
<1>2. ASSUME TypeOK, RegistrationBinds, [Next]_vars PROVE RegistrationBinds'
  <2> SUFFICES ASSUME NEW o \in Addresses, NEW s \in Salts, NEW p \in Prices,
                      <<o, s, p>> \in DOMAIN servicePrice'
               PROVE  servicePrice'[<<o, s, p>>] = p /\ serviceOwner'[<<o, s, p>>] = o
    BY DEF RegistrationBinds, deriveServiceId
  <2>1. CASE UNCHANGED registry
    BY <1>2, <2>1 DEF registry, RegistrationBinds, deriveServiceId
  <2>2. ASSUME NEW salt \in Salts, NEW price \in Prices, NEW owner \in Addresses,
               registerService(salt, price, owner)
        PROVE  servicePrice'[<<o, s, p>>] = p /\ serviceOwner'[<<o, s, p>>] = o
    BY <1>2, <2>2, BoundEntry
  <2>3. QED
    BY <1>2, <2>1, <2>2, RegistryStep
<1>3. QED
  BY <1>1, <1>2, TypeCorrect, PTL DEF Spec

-----------------------------------------------------------------------------
(* Nonces. Deposits count upward, so the counter of the next one is in no   *)
(* nonce yet, whatever seed the witness returns.                           *)

\* The nonces so far are finitely many and were minted below the counter.
MintedBefore ==
    /\ IsFiniteSet(nonces)
    /\ \A nonce \in nonces : nonce[1] < mintCounter
    /\ NoncesFresh

\* A deposit mints a new nonce, be its seed an old one.
LEMMA DepositFresh ==
    ASSUME TypeOK, MintedBefore, NEW w \in Wallets, NEW amount \in Amounts, NEW seed \in Seeds,
           deposit(w, amount, seed)
    PROVE  MintedBefore'
<1> DEFINE nonce == <<mintCounter, seed>>
<1>1. mintCounter \in Nat /\ mintCounter' = mintCounter + 1 /\ nonces' = nonces \cup {nonce}
  BY DEF TypeOK, deposit, evolveNonce
<1>2. nonce \notin nonces
  BY <1>1 DEF MintedBefore
<1>3. IsFiniteSet(nonces') /\ Cardinality(nonces') = mintCounter'
  <2> HIDE DEF nonce
  <2>1. QED
    BY <1>1, <1>2, FS_AddElement DEF MintedBefore, NoncesFresh
<1>4. \A other \in nonces : other[1] < mintCounter'
  BY <1>1 DEF MintedBefore, TypeOK
<1>5. QED
  BY <1>1, <1>3, <1>4 DEF MintedBefore, NoncesFresh

\* No coin is ever minted under a nonce that another one has (NoncesFresh).
THEOREM Freshness == Spec => []NoncesFresh
<1>1. Init => MintedBefore
  BY FS_EmptySet DEF Init, MintedBefore, NoncesFresh
<1>2. ASSUME TypeOK, MintedBefore, [Next]_vars PROVE MintedBefore'
  <2>1. CASE UNCHANGED mint
    BY <1>2, <2>1 DEF mint, MintedBefore, NoncesFresh
  <2>2. ASSUME NEW w \in Wallets, NEW amount \in Amounts, NEW seed \in Seeds,
               deposit(w, amount, seed)
        PROVE  MintedBefore'
    BY <1>2, <2>2, DepositFresh
  <2>3. QED
    BY <1>2, <2>1, <2>2 DEF Next, registerService, pay, redeem, withdraw, vars
<1>3. MintedBefore => NoncesFresh
  BY DEF MintedBefore
<1>4. QED
  BY <1>1, <1>2, <1>3, TypeCorrect, PTL DEF Spec

-----------------------------------------------------------------------------
(* Transactions. A step of VaultTx leaves the ledger alone or is one circuit  *)
(* call on it: what was proved, together with the reads that inclusion        *)
(* repeats, gives every assertion of the circuit on the current ledger.       *)

\* A transaction taken in flight is of the set of its circuit.
LEMMA Taken ==
    ASSUME TxTypeOK, NEW w \in Wallets, inflight[w] # NoTx
    PROVE  LET tx == inflight[w] IN
           /\ tx.circuit = "registerService" => tx \in RegisterTx
           /\ tx.circuit = "deposit" => tx \in DepositTx
           /\ tx.circuit = "pay" => tx \in PayTx
           /\ tx.circuit = "redeem" => tx \in RedeemTx
           /\ tx.circuit = "withdraw" => tx \in WithdrawTx
<1>1. inflight[w] \in Transactions
  BY DEF TxTypeOK
<1>2. QED
  BY <1>1 DEF Transactions, RegisterTx, DepositTx, PayTx, RedeemTx, WithdrawTx

\* Including a transaction whose reads still hold is a step of the atomic circuits.
LEMMA IncludeRefines ==
    ASSUME TxTypeOK, NEW w \in Wallets, Include(w)
    PROVE  Next
<1> DEFINE tx == inflight[w]
<1>1. CASE IncludeRegister(w)
  <2>1. tx \in RegisterTx
    BY <1>1, Taken DEF IncludeRegister, Takes
  <2>2. /\ tx.salt \in Salts /\ tx.price \in Prices /\ tx.price \in Uint64 /\ tx.price > 0
        /\ tx.owner \in Addresses /\ tx.owner # ZeroAddress
    BY <2>1, WalletsAssumption DEF RegisterTx, Addresses
  <2>3. registerService(tx.salt, tx.price, tx.owner)
    BY <1>1, <2>2 DEF IncludeRegister, RegisterReadsHold, registerService, Registrable
  <2>4. QED
    BY <2>2, <2>3 DEF Next
<1>2. CASE IncludeDeposit(w)
  <2>1. tx \in DepositTx
    BY <1>2, Taken DEF IncludeDeposit, Takes
  <2>2. /\ tx.amount \in Amounts /\ tx.seed \in Seeds /\ tx.amount \in Uint64 /\ tx.amount > 0
        /\ mintCounter = tx.counter /\ mintCounter < MaxMints /\ mintCounter <= MaxUint64
    BY <1>2, <2>1 DEF DepositTx, IncludeDeposit, DepositReadsHold
  <2>3. deposit(w, tx.amount, tx.seed)
    BY <1>2, <2>2 DEF IncludeDeposit, deposit
  <2>4. QED
    BY <2>2, <2>3 DEF Next
<1>3. CASE IncludePay(w)
  <2>1. tx \in PayTx
    BY <1>3, Taken DEF IncludePay, Takes
  <2>2. /\ tx.secret \in Secrets /\ tx.coin \in Coins
        /\ CoinAccepted(tx.coin, tx.price) /\ tx.prior[2] + tx.price \in Uint64
    BY <2>1 DEF PayTx
  <2>3. /\ tx.sid \in DOMAIN servicePrice /\ servicePrice[tx.sid] = tx.price
        /\ deriveReceipt(tx.secret, tx.sid) \notin receipts
        /\ serviceOwner[tx.sid] = tx.owner /\ Balance(tx.owner) = tx.prior[2]
    BY <1>3 DEF IncludePay, PayReadsHold, BalanceRead
  <2>4. pay(w, tx.sid, tx.secret, tx.coin)
    BY <1>3, <2>2, <2>3 DEF IncludePay, pay, Credited
  <2>5. QED
    BY <2>2, <2>3, <2>4 DEF Next
<1>4. CASE IncludeRedeem(w)
  <2>1. tx \in RedeemTx
    BY <1>4, Taken DEF IncludeRedeem, Takes
  <2>2. /\ tx.coin \in Coins /\ tx.recipient \in Addresses /\ tx.recipient # ZeroAddress
        /\ tx.coin.color = CreditColor /\ tx.coin.value > 0
    BY <2>1, WalletsAssumption DEF RedeemTx, Addresses
  <2>3. redeem(w, tx.coin, tx.recipient)
    BY <1>4, <2>2 DEF IncludeRedeem, redeem
  <2>4. QED
    BY <2>2, <2>3 DEF Next
<1>5. CASE IncludeWithdraw(w)
  <2>1. tx \in WithdrawTx
    BY <1>5, Taken DEF IncludeWithdraw, Takes
  <2>2. tx.amount \in Amounts /\ tx.amount > 0 /\ tx.balance >= tx.amount
    BY <2>1 DEF WithdrawTx
  <2>3. /\ tx.sid \in DOMAIN serviceOwner /\ serviceOwner[tx.sid] = tx.owner
        /\ tx.owner \in DOMAIN merchantBalance /\ merchantBalance[tx.owner] = tx.balance
    BY <1>5 DEF IncludeWithdraw, WithdrawReadsHold
  <2>4. withdraw(tx.sid, tx.amount)
    BY <1>5, <2>2, <2>3 DEF IncludeWithdraw, withdraw, Withdrawable
  <2>5. QED
    BY <2>2, <2>3, <2>4 DEF Next
<1>6. QED
  BY <1>1, <1>2, <1>3, <1>4, <1>5 DEF Include

\* What a wallet proves is a transaction of the right type.
LEMMA ProveType ==
    ASSUME TxTypeOK, NEW w \in Wallets, Prove(w)
    PROVE  UNCHANGED vars /\ TxTypeOK'
<1> SUFFICES ASSUME NEW tx \in Transactions, Submit(w, tx) PROVE UNCHANGED vars /\ TxTypeOK'
  <2>1. ASSUME NEW salt \in Salts, NEW price \in Prices, NEW owner \in Addresses,
               ProveRegister(w, salt, price, owner)
        PROVE  \E tx \in Transactions : Submit(w, tx)
    BY <2>1 DEF ProveRegister, Registrable, Transactions, RegisterTx, Addresses
  <2>2. ASSUME NEW amount \in Amounts, NEW seed \in Seeds,
               mintCounter < MaxMints /\ ProveDeposit(w, amount, seed)
        PROVE  \E tx \in Transactions : Submit(w, tx)
    BY <2>2 DEF ProveDeposit, Transactions, DepositTx, TxTypeOK, TypeOK
  <2>3. ASSUME NEW sid \in DOMAIN servicePrice, NEW secret \in Secrets, NEW coin \in Coins,
               ProvePay(w, sid, secret, coin)
        PROVE  \E tx \in Transactions : Submit(w, tx)
    <3>1. PICK price \in 1..MaxUint64, owner \in Wallets :
              price = servicePrice[sid] /\ owner = serviceOwner[sid]
      BY DEF TxTypeOK, TypeOK
    <3>2. PICK balance \in 0..MaxUint64 : balance = Balance(owner)
      BY AmountsAssumption DEF TxTypeOK, TypeOK, Balance, Uint64
    <3>3. /\ BalanceRead(owner) \in {"member", "absent"} \X (0..MaxUint64)
          /\ BalanceRead(owner)[2] = balance
      BY <3>2 DEF BalanceRead
    <3>4. sid \in ServiceIds
      BY DEF TxTypeOK, TypeOK
    <3> DEFINE tx == [circuit |-> "pay", sid |-> sid, secret |-> secret, coin |-> coin,
                      price |-> price, owner |-> owner, prior |-> BalanceRead(owner)]
    <3>5. CoinAccepted(coin, price) /\ balance + price \in Uint64 /\ Submit(w, tx)
      BY <2>3, <3>1, <3>2 DEF ProvePay
    <3>6. tx \in PayTx
      BY <3>3, <3>4, <3>5 DEF PayTx, Uint64
    <3>7. QED
      BY <3>5, <3>6 DEF Transactions
  <2>4. ASSUME NEW coin \in Coins, NEW recipient \in Addresses, ProveRedeem(w, coin, recipient)
        PROVE  \E tx \in Transactions : Submit(w, tx)
    BY <2>4 DEF ProveRedeem, Transactions, RedeemTx, Addresses
  <2>5. ASSUME NEW sid \in DOMAIN serviceOwner, NEW amount \in Amounts,
               ProveWithdraw(w, sid, amount)
        PROVE  \E tx \in Transactions : Submit(w, tx)
    BY <2>5 DEF ProveWithdraw, Withdrawable, Transactions, WithdrawTx, TxTypeOK, TypeOK
  <2>6. QED
    BY <2>1, <2>2, <2>3, <2>4, <2>5 DEF Prove
<1>1. UNCHANGED vars
  BY DEF Submit
<1>2. TypeOK'
  BY <1>1, StepType DEF TxTypeOK
<1>3. QED
  BY <1>1, <1>2 DEF Submit, TxTypeOK

\* A step of the transactions keeps their types and is a step of the ledger or none.
LEMMA TxStep == TxTypeOK /\ [TxNext]_txVars => TxTypeOK' /\ [Next]_vars
<1> SUFFICES ASSUME TxTypeOK, [TxNext]_txVars PROVE TxTypeOK' /\ [Next]_vars
  OBVIOUS
<1>1. CASE UNCHANGED txVars
  <2>1. UNCHANGED vars /\ UNCHANGED inflight
    BY <1>1 DEF txVars
  <2>2. QED
    BY <2>1, StepType DEF TxTypeOK
<1>2. ASSUME NEW w \in Wallets, Prove(w) PROVE TxTypeOK' /\ [Next]_vars
  BY <1>2, ProveType
<1>3. ASSUME NEW w \in Wallets, Include(w) PROVE TxTypeOK' /\ [Next]_vars
  <2>1. Next
    BY <1>3, IncludeRefines
  <2>2. TypeOK'
    BY <2>1, StepType DEF TxTypeOK
  <2>3. inflight' = [inflight EXCEPT ![w] = NoTx]
    BY <1>3 DEF Include, IncludeRegister, IncludeDeposit, IncludePay, IncludeRedeem,
                IncludeWithdraw, Takes
  <2>4. QED
    BY <2>1, <2>2, <2>3 DEF TxTypeOK
<1>4. ASSUME NEW w \in Wallets, Drop(w) PROVE TxTypeOK' /\ [Next]_vars
  <2>1. UNCHANGED vars /\ inflight' = [inflight EXCEPT ![w] = NoTx]
    BY <1>4 DEF Drop
  <2>2. QED
    BY <2>1, StepType DEF TxTypeOK
<1>5. QED
  BY <1>1, <1>2, <1>3, <1>4 DEF TxNext

\* At deployment no transaction is in flight.
LEMMA TxInitType == TxInit => TxTypeOK
  BY InitType DEF TxInit, TxTypeOK

\* Every transaction carries writes that were proved under the circuit's assertions.
THEOREM TxTypeCorrect == TxSpec => []TxTypeOK
<1>1. QED
  BY TxInitType, TxStep, PTL DEF TxSpec

\* Transactions proved early and included late implement the atomic circuits, so
\* solvency, conservation and revenue hold of them as well.
THEOREM Refinement == TxSpec => AtomicCircuits
<1>1. TxInit => Init
  BY DEF TxInit
<1>2. QED
  BY <1>1, TxInitType, TxStep, PTL DEF TxSpec, Spec, AtomicCircuits

\* The reserve backs all claims under any interleaving of proofs and inclusions.
THEOREM TxSolvency == TxSpec => []Backed
<1>1. QED
  BY Refinement, Solvency, PTL DEF AtomicCircuits

\* Nor do transactions that were proved against the same counter mint under one nonce.
THEOREM TxFreshness == TxSpec => []NoncesFresh
<1>1. QED
  BY Refinement, Freshness, PTL DEF AtomicCircuits

\* Of two payments to one merchant that could both be included now, one goes stale when
\* the other lands: the balance one read is not the balance the other leaves.
THEOREM PaymentsConflict == TxSpec => OneOfTwoPaymentsFails
<1> DEFINE Conflict ==
       \A w, v \in Wallets :
           ( /\ w # v /\ inflight[v] # NoTx
             /\ inflight[v].circuit = "pay" /\ PayReadsHold(inflight[v])
             /\ IncludePay(w) /\ inflight[w].owner = inflight[v].owner )
           => ~PayReadsHold(inflight[v])'
<1>1. ASSUME TxTypeOK, [TxNext]_txVars PROVE Conflict
  <2> SUFFICES ASSUME NEW w \in Wallets, NEW v \in Wallets, w # v, inflight[v] # NoTx,
                      inflight[v].circuit = "pay", PayReadsHold(inflight[v]), IncludePay(w),
                      inflight[w].owner = inflight[v].owner, PayReadsHold(inflight[v])'
               PROVE  FALSE
    OBVIOUS
  <2>1. PICK tx \in PayTx : tx = inflight[w]
    BY <1>1, Taken DEF IncludePay, Takes, TxTypeOK
  <2>2. inflight'[v] = inflight[v]
    BY <1>1 DEF IncludePay, Takes, TxTypeOK
  <2>3. tx.prior[2] \in Nat /\ tx.price \in Nat /\ tx.price > 0
    BY AmountsAssumption DEF PayTx, Uint64
  <2>4. inflight[v].prior[2] = tx.prior[2]
    BY <2>1 DEF IncludePay, PayReadsHold
  <2>5. Balance(tx.owner)' = tx.prior[2] + tx.price
    BY <2>1 DEF IncludePay, Insert, Balance
  <2>6. inflight[v].prior[2] = Balance(tx.owner)'
    BY <2>1, <2>2 DEF PayReadsHold, BalanceRead, Balance
  <2>7. QED
    BY <2>3, <2>4, <2>5, <2>6
<1>2. TxTypeOK /\ [TxNext]_txVars => [Conflict]_txVars
  BY <1>1
<1>3. QED
  BY <1>2, TxTypeCorrect, PTL DEF TxSpec, OneOfTwoPaymentsFails
=============================================================================

----------------------------- MODULE VaultLedger -----------------------------
(***************************************************************************)
(* The payment vault (contracts/src/m402Vault.compact) with every circuit  *)
(* taken as one atomic step on the public ledger.  This is what the        *)
(* contract promises; VaultTx splits a call into the proving of a          *)
(* transaction and its inclusion in a block, and implements this module.   *)
(*                                                                         *)
(* Hashes are injective and are represented by their arguments.  NIGHT and *)
(* credit are amounts held by wallets; the platform's coin selection and   *)
(* change outputs are a subtraction from the payer's amount.               *)
(***************************************************************************)
EXTENDS Integers, FiniteSets, Totals

CONSTANTS
    Wallets,      \* the wallets, each named by its address
    ZeroAddress,  \* the all-zero address, which nobody controls
    Salts,        \* registration salts
    Secrets,      \* receipt secrets
    Seeds,        \* what the nonceSeed witness may return
    Prices,       \* prices a registration may name
    Amounts,      \* amounts a caller may name, and values of coins (a Uint<128>)
    MaxUint64,    \* the largest Uint<64>
    MaxMints,     \* bound of the model: deposits per behaviour
    Funds         \* the NIGHT each wallet holds when the vault is deployed

ASSUME WalletsAssumption == IsFiniteSet(Wallets) /\ ZeroAddress \notin Wallets
ASSUME AmountsAssumption == /\ MaxUint64 \in Nat
                            /\ Prices \subseteq Nat
                            /\ Amounts \subseteq Nat
                            /\ Funds \in [Wallets -> Nat]
ASSUME MaxMintsAssumption == MaxMints \in Nat

VARIABLES
    servicePrice,     \* ledger: Map<serviceId, Uint<64>>
    serviceOwner,     \* ledger: Map<serviceId, address>
    receipts,         \* ledger: Set<receipt>
    merchantBalance,  \* ledger: Map<address, Uint<64>>
    mintCounter,      \* ledger: Counter
    reserve,          \* NIGHT held by the contract
    night,            \* NIGHT held by each address
    credit,           \* unspent vault credit held by each wallet
    nonces,           \* nonces of the credit coins minted so far
    paidOut           \* history: NIGHT withdrawn so far to each owner

registry == <<servicePrice, serviceOwner>>
pool     == <<reserve, night, credit>>
mint     == <<mintCounter, nonces>>
vars     == <<registry, receipts, merchantBalance, mint, pool, paidOut>>

-----------------------------------------------------------------------------
Uint64       == 0..MaxUint64
Addresses    == Wallets \cup {ZeroAddress}
CreditColor  == "m402:credit:v1"
ForeignColor == "foreign"
Coins        == [color : {CreditColor, ForeignColor}, value : Amounts]

\* Map.insert: adds the key or overwrites its value.
Insert(map, key, value) ==
    [k \in DOMAIN map \cup {key} |-> IF k = key THEN value ELSE map[k]]

Balance(owner) ==
    IF owner \in DOMAIN merchantBalance THEN merchantBalance[owner] ELSE 0

\* The three exported pure circuits. Mutant: an id that does not bind the price.
deriveServiceIdUnpriced(owner, salt, price) == <<owner, salt, 0>>
deriveServiceId(owner, salt, price) == <<owner, salt, price>>
deriveReceipt(secret, sid) == <<secret, sid>>
evolveNonce(counter, seed) == <<counter, seed>>

\* The wallet's balancing step funds a coin handed to the vault. Only vault
\* credit is scarce: anyone can mint tokens of another colour.
CanFund(w, coin) == coin.color = CreditColor => credit[w] >= coin.value
Spent(w, coin) ==
    IF coin.color = CreditColor
    THEN [credit EXCEPT ![w] = @ - coin.value] ELSE credit

\* What pay asserts of the coin its witness supplies. Mutant: overpayment accepted.
CoinAcceptedAtLeast(coin, price) == coin.color = CreditColor /\ coin.value >= price
CoinAccepted(coin, price) == coin.color = CreditColor /\ coin.value = price

\* What pay writes to merchantBalance.
Credited(owner, price) == Insert(merchantBalance, owner, Balance(owner) + price)

\* What registerService asserts.
Registrable(sid, price, owner) ==
    /\ price \in Uint64 /\ price > 0
    /\ owner # ZeroAddress
    /\ sid \notin DOMAIN servicePrice
    /\ sid \notin DOMAIN serviceOwner

\* What withdraw asserts. Mutant: the balance is not compared with the amount.
WithdrawableAny(sid, amount) ==
    amount > 0 /\ sid \in DOMAIN serviceOwner /\ serviceOwner[sid] \in DOMAIN merchantBalance
Withdrawable(sid, amount) ==
    /\ amount > 0
    /\ sid \in DOMAIN serviceOwner
    /\ serviceOwner[sid] \in DOMAIN merchantBalance
    /\ merchantBalance[serviceOwner[sid]] >= amount

-----------------------------------------------------------------------------
Init ==
    /\ servicePrice = [s \in {} |-> 0] /\ serviceOwner = [s \in {} |-> ZeroAddress]
    /\ receipts = {}
    /\ merchantBalance = [o \in {} |-> 0]
    /\ mintCounter = 0 /\ nonces = {}
    /\ reserve = 0
    /\ night = [a \in Addresses |-> IF a \in Wallets THEN Funds[a] ELSE 0]
    /\ credit = [w \in Wallets |-> 0]
    /\ paidOut = [o \in Addresses |-> 0]

\* registerService: anyone may register any owner, salt and price, once.
registerService(salt, price, owner) ==
    LET sid == deriveServiceId(owner, salt, price) IN
    /\ Registrable(sid, price, owner)
    /\ servicePrice' = Insert(servicePrice, sid, price)
    /\ serviceOwner' = Insert(serviceOwner, sid, owner)
    /\ UNCHANGED <<receipts, merchantBalance, mint, pool, paidOut>>

\* deposit: NIGHT in, credit of the same amount out to the caller.
deposit(w, amount, seed) ==
    /\ amount \in Uint64 /\ amount > 0
    /\ mintCounter <= MaxUint64
    /\ night[w] >= amount
    /\ night' = [night EXCEPT ![w] = @ - amount]
    /\ reserve' = reserve + amount
    /\ credit' = [credit EXCEPT ![w] = @ + amount]
    /\ nonces' = nonces \cup {evolveNonce(mintCounter, seed)}
    /\ mintCounter' = mintCounter + 1
    /\ UNCHANGED <<registry, receipts, merchantBalance, paidOut>>

\* pay: the vault takes a coin of exactly the price and credits the owner.
pay(w, sid, secret, coin) ==
    LET receipt == deriveReceipt(secret, sid)
        price   == servicePrice[sid]
        owner   == serviceOwner[sid]
    IN  /\ sid \in DOMAIN servicePrice
        /\ CoinAccepted(coin, price)
        /\ receipt \notin receipts
        /\ Balance(owner) + price \in Uint64
        /\ CanFund(w, coin)
        /\ credit' = Spent(w, coin)
        /\ receipts' = receipts \cup {receipt}
        /\ merchantBalance' = Credited(owner, price)
        /\ UNCHANGED <<registry, mint, reserve, night, paidOut>>

\* redeem: the holder of a credit coin cashes it out to any address but zero.
redeem(w, coin, recipient) ==
    /\ recipient # ZeroAddress
    /\ coin.color = CreditColor
    /\ coin.value > 0
    /\ CanFund(w, coin)
    /\ reserve >= coin.value
    /\ credit' = Spent(w, coin)
    /\ reserve' = reserve - coin.value
    /\ night' = [night EXCEPT ![recipient] = @ + coin.value]
    /\ UNCHANGED <<registry, receipts, merchantBalance, mint, paidOut>>

\* withdraw: anyone triggers a payout, and only the registered owner is paid.
withdraw(sid, amount) ==
    LET owner == serviceOwner[sid] IN
    /\ Withdrawable(sid, amount)
    /\ reserve >= amount
    /\ reserve' = reserve - amount
    /\ night' = [night EXCEPT ![owner] = @ + amount]
    /\ merchantBalance' = Insert(merchantBalance, owner, merchantBalance[owner] - amount)
    /\ paidOut' = [paidOut EXCEPT ![owner] = @ + amount]
    /\ UNCHANGED <<registry, receipts, mint, credit>>

Next ==
    \/ \E salt \in Salts, price \in Prices, owner \in Addresses :
           registerService(salt, price, owner)
    \/ \E w \in Wallets, amount \in Amounts, seed \in Seeds :
           mintCounter < MaxMints /\ deposit(w, amount, seed)
    \/ \E w \in Wallets, sid \in DOMAIN servicePrice, secret \in Secrets, coin \in Coins :
           pay(w, sid, secret, coin)
    \/ \E w \in Wallets, coin \in Coins, recipient \in Addresses :
           redeem(w, coin, recipient)
    \/ \E sid \in DOMAIN serviceOwner, amount \in Amounts : withdraw(sid, amount)

Spec == Init /\ [][Next]_vars

-----------------------------------------------------------------------------
ServiceIds == Wallets \X Salts \X (1..MaxUint64)
Receipts   == Secrets \X ServiceIds

\* Every variable ranges over the values of its ledger type, both registry maps
\* have the same keys, and merchant balances fit in a Uint<64>.
TypeOK ==
    /\ DOMAIN servicePrice \subseteq ServiceIds
    /\ servicePrice \in [DOMAIN servicePrice -> 1..MaxUint64]
    /\ serviceOwner \in [DOMAIN servicePrice -> Wallets]
    /\ receipts \subseteq Receipts
    /\ DOMAIN merchantBalance \subseteq Wallets
    /\ merchantBalance \in [DOMAIN merchantBalance -> Uint64]
    /\ mintCounter \in Nat
    /\ nonces \subseteq Nat \X Seeds
    /\ reserve \in Nat
    /\ night \in [Addresses -> Nat]
    /\ credit \in [Wallets -> Nat]
    /\ paidOut \in [Addresses -> Nat]

Balances == [o \in Wallets |-> Balance(o)]

\* The reserve equals what the vault owes: unspent credit plus merchant
\* balances. Outstanding claims never exceed the reserve, and no NIGHT is left
\* in the vault that no circuit can release (the overpaid coin of pay).
Backed == reserve = Total(credit) + Total(Balances)

Holdings == [w \in Wallets |-> night[w]]

\* NIGHT is neither made nor burned: what the wallets and the vault hold adds up
\* to what the wallets held at deployment, so nothing was sent to the zero
\* address by a registration or a redemption that named it.
NightConserved == reserve + Total(Holdings) = Total(Funds)

Sales(owner) ==
    [r \in {q \in receipts : serviceOwner[q[2]] = owner} |-> servicePrice[r[2]]]

\* A merchant's balance plus what was paid out to it is the sum of the prices of
\* the receipts of its services: no payment is lost, counted twice or credited
\* to somebody else, whatever the order of payments and withdrawals.
RevenueAccounted ==
    \A owner \in Wallets : Balance(owner) + paidOut[owner] = Total(Sales(owner))

\* Whoever registered it, the service under the id derived from (owner, salt,
\* price) pays that owner and costs that price: a front-runner that copies a
\* pending registration cannot capture the service or fix its price.
RegistrationBinds ==
    \A owner \in Addresses, salt \in Salts, price \in Prices :
        LET sid == deriveServiceId(owner, salt, price) IN
        sid \in DOMAIN servicePrice =>
            servicePrice[sid] = price /\ serviceOwner[sid] = owner

\* No two deposits mint a coin with the same nonce, even when the witness returns
\* the same seed again.
NoncesFresh == Cardinality(nonces) = mintCounter

\* Registrations are immutable and a receipt, once on the ledger, stays there:
\* an auditor's or a gateway's positive answer is never withdrawn.
LedgerGrows ==
    [][/\ receipts \subseteq receipts'
       /\ \A sid \in DOMAIN servicePrice :
              /\ sid \in DOMAIN servicePrice' /\ servicePrice'[sid] = servicePrice[sid]
              /\ sid \in DOMAIN serviceOwner' /\ serviceOwner'[sid] = serviceOwner[sid]]_vars
=============================================================================

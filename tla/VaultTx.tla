------------------------------- MODULE VaultTx -------------------------------
(***************************************************************************)
(* Calls to the vault as transactions.  A wallet runs a circuit locally     *)
(* against the ledger it sees and proves it; the transaction carries what   *)
(* the circuit read (the popeq operations of the compiled contract) and the *)
(* values it writes, computed from those reads.  The chain includes it      *)
(* later, only if every read still returns the same value and the coins are *)
(* still unspent; other wallets' transactions land in between.  One wallet  *)
(* has at most one transaction in flight (its DUST spends conflict).        *)
(***************************************************************************)
EXTENDS VaultLedger

CONSTANT NoTx  \* the wallet has no transaction in flight
VARIABLE inflight  \* the proved and submitted transaction of each wallet

txVars == <<vars, inflight>>

\* What pay reads of merchantBalance: whether the owner has an entry, and its value.
BalanceRead(owner) ==
    <<IF owner \in DOMAIN merchantBalance THEN "member" ELSE "absent", Balance(owner)>>

RegisterTx ==
    {tx \in [circuit : {"registerService"}, salt : Salts, price : Prices, owner : Wallets] :
        tx.price \in Uint64 /\ tx.price > 0}
DepositTx ==
    {tx \in [circuit : {"deposit"}, amount : Amounts, seed : Seeds, counter : Nat] :
        /\ tx.amount \in Uint64 /\ tx.amount > 0
        /\ tx.counter < MaxMints /\ tx.counter <= MaxUint64}
PayTx ==
    {tx \in [circuit : {"pay"}, sid : ServiceIds, secret : Secrets, coin : Coins,
             price : 1..MaxUint64, owner : Wallets, prior : {"member", "absent"} \X Uint64] :
        CoinAccepted(tx.coin, tx.price) /\ tx.prior[2] + tx.price \in Uint64}
RedeemTx ==
    {tx \in [circuit : {"redeem"}, coin : Coins, recipient : Wallets] :
        tx.coin.color = CreditColor /\ tx.coin.value > 0}
WithdrawTx ==
    {tx \in [circuit : {"withdraw"}, sid : ServiceIds, amount : Amounts, owner : Wallets,
             balance : Uint64] :
        tx.amount > 0 /\ tx.balance >= tx.amount}
Transactions == RegisterTx \cup DepositTx \cup PayTx \cup RedeemTx \cup WithdrawTx

-----------------------------------------------------------------------------
(* Proving: the circuit's assertions hold on the ledger the wallet sees.    *)

Submit(w, tx) ==
    /\ inflight[w] = NoTx
    /\ inflight' = [inflight EXCEPT ![w] = tx]
    /\ UNCHANGED vars

ProveRegister(w, salt, price, owner) ==
    LET sid == deriveServiceId(owner, salt, price) IN
    /\ Registrable(sid, price, owner)
    /\ Submit(w, [circuit |-> "registerService", salt |-> salt, price |-> price,
                  owner |-> owner])

ProveDeposit(w, amount, seed) ==
    /\ amount \in Uint64 /\ amount > 0
    /\ mintCounter <= MaxUint64
    /\ night[w] >= amount
    /\ Submit(w, [circuit |-> "deposit", amount |-> amount, seed |-> seed,
                  counter |-> mintCounter])

ProvePay(w, sid, secret, coin) ==
    /\ sid \in DOMAIN servicePrice
    /\ CoinAccepted(coin, servicePrice[sid])
    /\ deriveReceipt(secret, sid) \notin receipts
    /\ Balance(serviceOwner[sid]) + servicePrice[sid] \in Uint64
    /\ CanFund(w, coin)
    /\ Submit(w, [circuit |-> "pay", sid |-> sid, secret |-> secret, coin |-> coin,
                  price |-> servicePrice[sid], owner |-> serviceOwner[sid],
                  prior |-> BalanceRead(serviceOwner[sid])])

ProveRedeem(w, coin, recipient) ==
    /\ recipient # ZeroAddress
    /\ coin.color = CreditColor
    /\ coin.value > 0
    /\ CanFund(w, coin)
    /\ Submit(w, [circuit |-> "redeem", coin |-> coin, recipient |-> recipient])

ProveWithdraw(w, sid, amount) ==
    /\ Withdrawable(sid, amount)
    /\ Submit(w, [circuit |-> "withdraw", sid |-> sid, amount |-> amount,
                  owner |-> serviceOwner[sid],
                  balance |-> merchantBalance[serviceOwner[sid]]])

-----------------------------------------------------------------------------
(* Inclusion: the reads are repeated, the writes are those that were proved.  *)
(* Mutants: reads that are not pinned.                                       *)

DepositReadsIgnored(tx) == tx.counter <= mintCounter
PayReadsIgnorePrior(tx) ==
    /\ tx.sid \in DOMAIN servicePrice
    /\ deriveReceipt(tx.secret, tx.sid) \notin receipts
WithdrawReadsIgnoreBalance(tx) == tx.owner \in DOMAIN merchantBalance

RegisterReadsHold(tx) ==
    LET sid == deriveServiceId(tx.owner, tx.salt, tx.price) IN
    sid \notin DOMAIN servicePrice /\ sid \notin DOMAIN serviceOwner
DepositReadsHold(tx) == mintCounter = tx.counter
PayReadsHold(tx) ==
    /\ tx.sid \in DOMAIN servicePrice /\ servicePrice[tx.sid] = tx.price
    /\ deriveReceipt(tx.secret, tx.sid) \notin receipts
    /\ serviceOwner[tx.sid] = tx.owner
    /\ BalanceRead(tx.owner) = tx.prior
WithdrawReadsHold(tx) ==
    /\ tx.sid \in DOMAIN serviceOwner /\ serviceOwner[tx.sid] = tx.owner
    /\ tx.owner \in DOMAIN merchantBalance /\ merchantBalance[tx.owner] = tx.balance

Takes(w, circuit) ==
    /\ inflight[w] # NoTx
    /\ inflight[w].circuit = circuit
    /\ inflight' = [inflight EXCEPT ![w] = NoTx]

\* Mutant: the id does not bind the owner and an existing entry is overwritten.
IncludeRegisterAgain(w) ==
    LET tx  == inflight[w]
        sid == deriveServiceId(ZeroAddress, tx.salt, tx.price)
    IN  /\ Takes(w, "registerService")
        /\ servicePrice' = Insert(servicePrice, sid, tx.price)
        /\ serviceOwner' = Insert(serviceOwner, sid, tx.owner)
        /\ UNCHANGED <<receipts, merchantBalance, mint, pool, paidOut>>

IncludeRegister(w) ==
    LET tx  == inflight[w]
        sid == deriveServiceId(tx.owner, tx.salt, tx.price)
    IN  /\ Takes(w, "registerService")
        /\ RegisterReadsHold(tx)
        /\ servicePrice' = Insert(servicePrice, sid, tx.price)
        /\ serviceOwner' = Insert(serviceOwner, sid, tx.owner)
        /\ UNCHANGED <<receipts, merchantBalance, mint, pool, paidOut>>

IncludeDeposit(w) ==
    LET tx == inflight[w] IN
    /\ Takes(w, "deposit")
    /\ DepositReadsHold(tx)
    /\ night[w] >= tx.amount
    /\ night' = [night EXCEPT ![w] = @ - tx.amount]
    /\ reserve' = reserve + tx.amount
    /\ credit' = [credit EXCEPT ![w] = @ + tx.amount]
    /\ nonces' = nonces \cup {evolveNonce(tx.counter, tx.seed)}
    /\ mintCounter' = mintCounter + 1
    /\ UNCHANGED <<registry, receipts, merchantBalance, paidOut>>

IncludePay(w) ==
    LET tx == inflight[w] IN
    /\ Takes(w, "pay")
    /\ PayReadsHold(tx)
    /\ CanFund(w, tx.coin)
    /\ credit' = Spent(w, tx.coin)
    /\ receipts' = receipts \cup {deriveReceipt(tx.secret, tx.sid)}
    /\ merchantBalance' = Insert(merchantBalance, tx.owner, tx.prior[2] + tx.price)
    /\ UNCHANGED <<registry, mint, reserve, night, paidOut>>

IncludeRedeem(w) ==
    LET tx == inflight[w] IN
    /\ Takes(w, "redeem")
    /\ CanFund(w, tx.coin)
    /\ reserve >= tx.coin.value
    /\ credit' = Spent(w, tx.coin)
    /\ reserve' = reserve - tx.coin.value
    /\ night' = [night EXCEPT ![tx.recipient] = @ + tx.coin.value]
    /\ UNCHANGED <<registry, receipts, merchantBalance, mint, paidOut>>

IncludeWithdraw(w) ==
    LET tx == inflight[w] IN
    /\ Takes(w, "withdraw")
    /\ WithdrawReadsHold(tx)
    /\ reserve >= tx.amount
    /\ reserve' = reserve - tx.amount
    /\ night' = [night EXCEPT ![tx.owner] = @ + tx.amount]
    /\ merchantBalance' = Insert(merchantBalance, tx.owner, tx.balance - tx.amount)
    /\ paidOut' = [paidOut EXCEPT ![tx.owner] = @ + tx.amount]
    /\ UNCHANGED <<registry, receipts, mint, credit>>

\* The node rejects the transaction (a stale read, a DUST conflict) or it expires;
\* the caller sees CallTxFailedError or gives up. The ledger is untouched.
Drop(w) ==
    /\ inflight[w] # NoTx
    /\ inflight' = [inflight EXCEPT ![w] = NoTx]
    /\ UNCHANGED vars

-----------------------------------------------------------------------------
TxInit == Init /\ inflight = [w \in Wallets |-> NoTx]

Prove(w) ==
    \/ \E salt \in Salts, price \in Prices, owner \in Addresses :
           ProveRegister(w, salt, price, owner)
    \/ \E amount \in Amounts, seed \in Seeds :
           mintCounter < MaxMints /\ ProveDeposit(w, amount, seed)
    \/ \E sid \in DOMAIN servicePrice, secret \in Secrets, coin \in Coins :
           ProvePay(w, sid, secret, coin)
    \/ \E coin \in Coins, recipient \in Addresses : ProveRedeem(w, coin, recipient)
    \/ \E sid \in DOMAIN serviceOwner, amount \in Amounts : ProveWithdraw(w, sid, amount)

Include(w) ==
    \/ IncludeRegister(w)
    \/ IncludeDeposit(w)
    \/ IncludePay(w)
    \/ IncludeRedeem(w)
    \/ IncludeWithdraw(w)

TxNext == \E w \in Wallets : Prove(w) \/ Include(w) \/ Drop(w)

TxSpec == TxInit /\ [][TxNext]_txVars

-----------------------------------------------------------------------------
\* Each wallet has at most one transaction in flight, and its writes were proved
\* under the circuit's assertions.
TxTypeOK == TypeOK /\ inflight \in [Wallets -> Transactions \cup {NoTx}]

\* Transactions proved against a ledger that other transactions have changed since
\* still take effect as one atomic circuit call on the ledger they are included in.
AtomicCircuits == Spec

\* Of two payments to one merchant that could both be included now, whichever lands
\* makes the other's proof stale (design.md, failure modes: "One fails").
OneOfTwoPaymentsFails ==
    [][\A w, v \in Wallets :
           ( /\ w # v /\ inflight[v] # NoTx
             /\ inflight[v].circuit = "pay" /\ PayReadsHold(inflight[v])
             /\ IncludePay(w) /\ inflight[w].owner = inflight[v].owner )
           => ~PayReadsHold(inflight[v])']_txVars
=============================================================================

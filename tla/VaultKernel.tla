----------------------------- MODULE VaultKernel -----------------------------
(***************************************************************************)
(* The vault's circuits as the compiled contract runs them: a call builds  *)
(* up the effects it claims through the helpers of the standard library    *)
(* (mint, receive and send of shielded coins, NIGHT in and out), and the    *)
(* node includes it with the coins the caller's wallet adds to balance it.  *)
(*                                                                         *)
(* Every coin is an output of its own, with a nonce, a colour, a value and  *)
(* a recipient, spent once its nullifier is known.  VaultLedger, which      *)
(* knows the amount each wallet holds only, is implemented by this module.  *)
(***************************************************************************)
EXTENDS Integers, FiniteSets, Totals

CONSTANTS
    Wallets,      \* the wallets, each named by its address
    ZeroAddress,  \* the all-zero address
    Self,         \* the contract's own address
    Salts, Secrets, Seeds, Prices, Amounts,   \* what callers may pass
    MaxUint64,    \* the largest Uint<64>
    MaxMints,     \* bound of the model: deposits per behaviour
    Funds         \* the NIGHT each wallet starts with

ASSUME KernelAddresses ==
    /\ IsFiniteSet(Wallets) /\ ZeroAddress \notin Wallets
    /\ Self \notin Wallets \cup {ZeroAddress}
ASSUME KernelAmounts ==
    /\ MaxUint64 \in Nat /\ Prices \subseteq Nat /\ Amounts \subseteq Nat
    /\ Funds \in [Wallets -> Nat] /\ MaxMints \in Nat

VARIABLES
    servicePrice, serviceOwner, receipts, merchantBalance, mintCounter,  \* the ledger
    coins,        \* every shielded output so far: [coin, recipient]
    nullifiers,   \* the outputs among them that are spent
    reserve,      \* NIGHT held by the contract
    night,        \* NIGHT held by each address
    paidOut       \* history: NIGHT withdrawn so far to each owner

registry == <<servicePrice, serviceOwner>>
shielded == <<coins, nullifiers>>
unshielded == <<reserve, night>>
vars == <<registry, receipts, merchantBalance, mintCounter, shielded, unshielded, paidOut>>

Addresses == Wallets \cup {ZeroAddress}
Uint64 == 0..MaxUint64
Insert(map, key, value) ==
    [k \in DOMAIN map \cup {key} |-> IF k = key THEN value ELSE map[k]]

-----------------------------------------------------------------------------
(* Hashes and colours are injective terms.                                  *)

CreditDomain == "m402:credit:v1"
ForeignColor == "foreign"
tokenType(domain, contract) == domain
creditColor == tokenType(CreditDomain, Self)
deriveReceipt(secret, sid) == <<secret, sid>>
deriveServiceId(owner, salt, price) == <<owner, salt, price>>
\* Mutant: the counter is not mixed in, so the seed alone decides.
evolveNonceSeedOnly(counter, seed) == <<"mint", 0, seed>>
evolveNonce(counter, seed) == <<"mint", counter, seed>>
coinCommitment(coin, recipient) == [coin |-> coin, recipient |-> recipient]
coinNullifier(coin, owner) == [coin |-> coin, recipient |-> owner]

\* A nonce nobody has used: createShieldedCoinInfo and the wallet's change draw it.
freshNonce(i) == <<"fresh", Cardinality(coins) + i>>
Worth(outputs) == Total([o \in outputs |-> o.coin.value])
OfCredit(outputs) == {o \in outputs : o.coin.color = creditColor}
Unspent == coins \ nullifiers
Purse(owner) == OfCredit({o \in Unspent : o.recipient = owner})

-----------------------------------------------------------------------------
(* The standard library's effects.                                          *)

NoEffects ==
    [nullifiers |-> {}, receives |-> {}, spends |-> {}, outputs |-> {},
     minted |-> 0, nightIn |-> 0, nightOut |-> 0]

\* createZswapOutput, and the claims on its commitment: the contract's kernel lists the
\* outputs it answers for, and those it is the recipient of.
Creates(fx, coin, recipient) ==
    LET cm == coinCommitment(coin, recipient) IN
    [fx EXCEPT !.outputs = @ \cup {cm}, !.spends = @ \cup {cm},
               !.receives = IF recipient = Self THEN @ \cup {cm} ELSE @]

mintShieldedToken(fx, coin, recipient) ==
    Creates([fx EXCEPT !.minted = @ + coin.value], coin, recipient)

receiveShielded(fx, coin) ==
    LET cm == coinCommitment(coin, Self) IN
    [fx EXCEPT !.outputs = @ \cup {cm}, !.receives = @ \cup {cm}]

\* The contract's coin goes to the recipient; what is left of it returns to the contract.
sendShielded(fx, input, recipient, value) ==
    LET spent  == [fx EXCEPT !.nullifiers = @ \cup {coinNullifier(input, Self)}]
        output == [nonce |-> <<"sent", input.nonce>>, color |-> input.color, value |-> value]
        change == [nonce |-> <<"change", input.nonce>>, color |-> input.color,
                   value |-> input.value - value]
        sent   == Creates(spent, output, recipient)
    IN  IF change.value = 0 THEN sent ELSE Creates(sent, change, Self)

receiveUnshielded(fx, amount) == [fx EXCEPT !.nightIn = @ + amount]
sendUnshielded(fx, amount) == [fx EXCEPT !.nightOut = @ + amount]

-----------------------------------------------------------------------------
(* The node. The caller's wallet adds coins of its own until the credit     *)
(* balances and takes the rest back; each input is spent for the first time *)
(* and each output the contract claims is there. Equal outputs are one.      *)

Missing(fx) == Worth(OfCredit(fx.outputs)) - Worth(OfCredit(fx.nullifiers)) - fx.minted
Enough(fx, own) == Worth(own) >= Missing(fx)
Change(fx, own, w) ==
    IF Worth(own) = Missing(fx) THEN {}
    ELSE {coinCommitment([nonce |-> freshNonce(1), color |-> creditColor,
                          value |-> Worth(own) - Missing(fx)], w)}

Included(w, fx) ==
    /\ (fx.receives \cup fx.spends) \subseteq fx.outputs
    /\ fx.nullifiers \subseteq (Unspent \cup fx.outputs)
    /\ \E own \in SUBSET Purse(w) :
           /\ Enough(fx, own)
           /\ \A coin \in own : ~Enough(fx, own \ {coin})
           /\ coins' = coins \cup fx.outputs \cup Change(fx, own, w)
           /\ nullifiers' = nullifiers \cup fx.nullifiers \cup own

\* NIGHT that the caller brings and the payee is sent.
Settled(w, fx, payee) ==
    LET paid == [night EXCEPT ![w] = @ - fx.nightIn] IN
    /\ night[w] >= fx.nightIn
    /\ reserve + fx.nightIn >= fx.nightOut
    /\ reserve' = reserve + fx.nightIn - fx.nightOut
    /\ night' = [paid EXCEPT ![payee] = @ + fx.nightOut]

-----------------------------------------------------------------------------
(* The circuits, each after the checks of its wrapper on the argument types. *)

Init ==
    /\ servicePrice = [s \in {} |-> 0] /\ serviceOwner = [s \in {} |-> ZeroAddress]
    /\ receipts = {}
    /\ merchantBalance = [o \in {} |-> 0]
    /\ mintCounter = 0
    /\ coins = {} /\ nullifiers = {}
    /\ reserve = 0
    /\ night = [a \in Addresses |-> IF a \in Wallets THEN Funds[a] ELSE 0]
    /\ paidOut = [o \in Addresses |-> 0]

registerService(salt, price, owner) ==
    LET sid == deriveServiceId(owner, salt, price) IN
    /\ price \in Uint64 /\ price > 0
    /\ owner # ZeroAddress
    /\ sid \notin DOMAIN servicePrice /\ sid \notin DOMAIN serviceOwner
    /\ servicePrice' = Insert(servicePrice, sid, price)
    /\ serviceOwner' = Insert(serviceOwner, sid, owner)
    /\ UNCHANGED <<receipts, merchantBalance, mintCounter, shielded, unshielded, paidOut>>

\* What deposit does with the NIGHT and the new coin. Mutant: a unit of it is kept back.
depositEffectsShort(w, coin) ==
    sendShielded(mintShieldedToken(receiveUnshielded(NoEffects, coin.value), coin, Self),
                 coin, w, coin.value - 1)
depositEffects(w, coin) ==
    sendShielded(mintShieldedToken(receiveUnshielded(NoEffects, coin.value), coin, Self),
                 coin, w, coin.value)

deposit(w, amount, seed) ==
    LET coin == [nonce |-> evolveNonce(mintCounter, seed), color |-> creditColor,
                 value |-> amount]
        fx   == depositEffects(w, coin)
    IN  /\ amount \in Uint64 /\ amount > 0
        /\ mintCounter <= MaxUint64
        /\ Settled(w, fx, w)
        /\ Included(w, fx)
        /\ mintCounter' = mintCounter + 1
        /\ UNCHANGED <<registry, receipts, merchantBalance, paidOut>>

\* The witness describes an output of any colour and value.
pay(w, sid, secret, color, value) ==
    LET coin    == [nonce |-> freshNonce(0), color |-> color, value |-> value]
        receipt == deriveReceipt(secret, sid)
        price   == servicePrice[sid]
        owner   == serviceOwner[sid]
        prior   == IF owner \in DOMAIN merchantBalance THEN merchantBalance[owner] ELSE 0
    IN  /\ sid \in DOMAIN servicePrice
        /\ color = creditColor
        /\ value = price
        /\ receipt \notin receipts
        /\ Included(w, receiveShielded(NoEffects, coin))
        /\ receipts' = receipts \cup {receipt}
        /\ prior + price \in Uint64
        /\ merchantBalance' = Insert(merchantBalance, owner, prior + price)
        /\ UNCHANGED <<registry, mintCounter, unshielded, paidOut>>

\* Mutant: the coin is not taken in before the NIGHT is sent.
redeemEffectsUnreceived(coin) == sendUnshielded(NoEffects, coin.value)
redeemEffects(coin) == sendUnshielded(receiveShielded(NoEffects, coin), coin.value)

redeem(w, color, value, recipient) ==
    LET fx == redeemEffects([nonce |-> freshNonce(0), color |-> color, value |-> value]) IN
    /\ recipient # ZeroAddress
    /\ color = creditColor
    /\ value > 0
    /\ Included(w, fx)
    /\ Settled(w, fx, recipient)
    /\ UNCHANGED <<registry, receipts, merchantBalance, mintCounter, paidOut>>

withdraw(w, sid, amount) ==
    LET owner == serviceOwner[sid] IN
    /\ amount \in Uint64 /\ amount > 0
    /\ sid \in DOMAIN serviceOwner
    /\ owner \in DOMAIN merchantBalance
    /\ merchantBalance[owner] >= amount
    /\ Settled(w, sendUnshielded(NoEffects, amount), owner)
    /\ merchantBalance' = Insert(merchantBalance, owner, merchantBalance[owner] - amount)
    /\ paidOut' = [paidOut EXCEPT ![owner] = @ + amount]
    /\ UNCHANGED <<registry, receipts, mintCounter, shielded>>

Next ==
    \/ \E salt \in Salts, price \in Prices, owner \in Addresses :
           registerService(salt, price, owner)
    \/ \E w \in Wallets, amount \in Amounts, seed \in Seeds :
           mintCounter < MaxMints /\ deposit(w, amount, seed)
    \/ \E w \in Wallets, sid \in DOMAIN servicePrice, secret \in Secrets,
         color \in {creditColor, ForeignColor}, value \in Amounts :
           pay(w, sid, secret, color, value)
    \/ \E w \in Wallets, color \in {creditColor, ForeignColor}, value \in Amounts,
         recipient \in Addresses : redeem(w, color, value, recipient)
    \/ \E w \in Wallets, sid \in DOMAIN serviceOwner, amount \in Amounts :
           withdraw(w, sid, amount)

Spec == Init /\ [][Next]_vars

-----------------------------------------------------------------------------
\* Credit is neither made nor lost by splitting, change and payment: the coins that were
\* minted are worth what the wallets and the contract hold unspent. A nonce that repeats
\* would merge two coins into one output, and its value would be gone.
Minted == {o \in coins : o.coin.nonce[1] = "mint"}
CreditConserved ==
    Worth(Minted) = Worth(OfCredit(Unspent))

\* No part of a deposit stays with the contract, which has no circuit to spend it: what
\* the contract holds unspent are the coins payers and redeemers handed over.
NothingStranded ==
    \A o \in Unspent : o.recipient = Self => o.coin.nonce[1] = "fresh"

\* What the contract holds unspent is what the merchants earned, still owed or paid out,
\* and what was redeemed, so the NIGHT that left for redemptions is the rest of it.
HandedOver ==
    LET earned == Total(merchantBalance) + Total(paidOut)
        held   == Worth({o \in Unspent : o.recipient = Self})
    IN  /\ earned <= held
        /\ reserve = Worth(Minted) - Total(paidOut) - (held - earned)

\* The ledger of amounts: each wallet's credit is the worth of its unspent coins.
Ledger ==
    INSTANCE VaultLedger WITH
        credit <- [w \in Wallets |-> Worth(Purse(w))],
        nonces <- {<<o.coin.nonce[2], o.coin.nonce[3]>> : o \in Minted}

\* Circuits with individual coins, minted, split and received one by one, do what the
\* vault promises in amounts.
ImplementsLedger == Ledger!Spec
=============================================================================

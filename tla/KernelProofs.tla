----------------------------- MODULE KernelProofs -----------------------------
(***************************************************************************)
(* Theorems about the circuits at the level of coins, for every set of      *)
(* wallets, seeds and amounts, and however wallets choose the coins they    *)
(* pay with: no coin is lost or made, and the ledger of amounts is          *)
(* implemented.                                                             *)
(***************************************************************************)
EXTENDS VaultKernel, TotalsProofs

-----------------------------------------------------------------------------
(* The invariant: what is known of every output. Nonces are unique because   *)
(* each kind of them counts something that only grows.                      *)

\* An output of credit.
Credit(nonce, value, recipient) ==
    coinCommitment([nonce |-> nonce, color |-> creditColor, value |-> value], recipient)
IsCredit(o, nonce, recipient) ==
    o.coin.value \in Nat /\ o = Credit(nonce, o.coin.value, recipient)

\* A coin as it was minted: the contract spends it in the same deposit.
IsMinted(o) ==
    /\ o \in nullifiers
    /\ \E counter \in 0..(mintCounter - 1), seed \in Seeds :
           IsCredit(o, evolveNonce(counter, seed), Self)
\* What a deposit sent to a wallet.
IsSent(o) ==
    \E counter \in 0..(mintCounter - 1), seed \in Seeds, w \in Wallets :
        IsCredit(o, <<"sent", evolveNonce(counter, seed)>>, w)
\* A coin handed to the contract, or the change of its payer.
IsFresh(o) ==
    \E i \in 0..(Cardinality(coins) - 1), r \in Wallets \cup {Self} :
        IsCredit(o, <<"fresh", i>>, r)

CoinsOK ==
    /\ IsFiniteSet(coins) /\ nullifiers \subseteq coins
    /\ mintCounter \in Nat
    /\ \A o \in coins : IsMinted(o) \/ IsSent(o) \/ IsFresh(o)

AccountsOK ==
    /\ servicePrice \in [DOMAIN servicePrice -> 1..MaxUint64]
    /\ serviceOwner \in [DOMAIN servicePrice -> Wallets]
    /\ DOMAIN merchantBalance \subseteq Wallets
    /\ merchantBalance \in [DOMAIN merchantBalance -> Nat]
    /\ reserve \in Nat
    /\ night \in [Addresses -> Nat] /\ paidOut \in [Addresses -> Nat]

KernelInv == CoinsOK /\ AccountsOK /\ CreditConserved /\ HandedOver

-----------------------------------------------------------------------------
(* The worth of a set of outputs                                            *)

\* A finite set of outputs whose values are natural numbers.
Countable(outputs) == IsFiniteSet(outputs) /\ \A o \in outputs : o.coin.value \in Nat

\* Its worth is a natural number.
LEMMA WorthType ==
    ASSUME NEW S, Countable(S)
    PROVE  Worth(S) \in Nat
<1> DEFINE value == [o \in S |-> o.coin.value]
<1>1. value \in [S -> Nat]
  BY DEF Countable
<1> HIDE DEF value
<1>2. Total(value) \in Nat
  BY <1>1, TotalType DEF Countable
<1>3. QED
  BY <1>2 DEF Worth, value

\* Nothing is worth nothing.
LEMMA WorthEmpty == Worth({}) = 0
<1>1. [o \in {} |-> o.coin.value] \in [{} -> {0}]
  OBVIOUS
<1>2. QED
  BY <1>1, TotalZero DEF Worth

\* Another output adds its value.
LEMMA WorthAdd ==
    ASSUME NEW S, Countable(S), NEW o, o \notin S, o.coin.value \in Nat
    PROVE  Countable(S \cup {o}) /\ Worth(S \cup {o}) = Worth(S) + o.coin.value
<1> DEFINE f == [q \in S |-> q.coin.value]
           g == [q \in S \cup {o} |-> q.coin.value]
<1>1. /\ IsFiniteSet(S)
      /\ f \in [S -> Nat] /\ g \in [S \cup {o} -> Nat]
      /\ g[o] = o.coin.value /\ \A q \in S : g[q] = f[q]
  BY DEF Countable
<1> HIDE DEF f, g
<1>2. Total(g) = Total(f) + g[o]
  BY <1>1, TotalExtend
<1>3. IsFiniteSet(S \cup {o})
  BY FS_AddElement DEF Countable
<1>4. QED
  BY <1>1, <1>2, <1>3 DEF Worth, f, g, Countable

\* A single output is worth its value.
LEMMA WorthOne ==
    ASSUME NEW o, o.coin.value \in Nat
    PROVE  Countable({o}) /\ Worth({o}) = o.coin.value
<1>1. Countable({})
  BY FS_EmptySet DEF Countable
<1>2. Countable({} \cup {o}) /\ Worth({} \cup {o}) = 0 + o.coin.value
  BY <1>1, WorthAdd, WorthEmpty
<1>3. {} \cup {o} = {o}
  OBVIOUS
<1>4. QED
  BY <1>2, <1>3

\* Two sets that are apart are worth the sum.
LEMMA WorthUnion ==
    ASSUME NEW S, Countable(S), NEW T, Countable(T), S \cap T = {}
    PROVE  Countable(S \cup T) /\ Worth(S \cup T) = Worth(S) + Worth(T)
<1> DEFINE f == [q \in S \cup T |-> q.coin.value]
           g == [q \in S |-> q.coin.value]
           h == [q \in T |-> q.coin.value]
<1>1. /\ IsFiniteSet(S) /\ IsFiniteSet(T)
      /\ f \in [S \cup T -> Nat] /\ g \in [S -> Nat] /\ h \in [T -> Nat]
      /\ \A q \in S : g[q] = f[q]
      /\ \A q \in T : h[q] = f[q]
  BY DEF Countable
<1> HIDE DEF f, g, h
<1>2. Total(f) = Total(g) + Total(h)
  BY <1>1, TotalSplit
<1>3. Countable(S \cup T)
  BY FS_Union DEF Countable
<1>4. QED
  BY <1>2, <1>3 DEF Worth, f, g, h

\* What is taken from a set takes its worth along.
LEMMA WorthRemove ==
    ASSUME NEW S, Countable(S), NEW T \in SUBSET S
    PROVE  /\ Countable(S \ T) /\ Countable(T)
           /\ Worth(T) <= Worth(S)
           /\ Worth(S \ T) = Worth(S) - Worth(T)
<1>1. Countable(S \ T) /\ Countable(T)
  BY FS_Subset DEF Countable
<1>2. (S \ T) \cup T = S /\ (S \ T) \cap T = {}
  OBVIOUS
<1>3. Worth(S) = Worth(S \ T) + Worth(T)
  BY <1>1, <1>2, WorthUnion
<1>4. Worth(T) \in Nat /\ Worth(S \ T) \in Nat
  BY <1>1, WorthType
<1>5. QED
  BY <1>1, <1>3, <1>4

-----------------------------------------------------------------------------
(* The outputs                                                              *)

\* The parts of an output of credit.
LEMMA CreditParts ==
    ASSUME NEW n, NEW v, NEW r
    PROVE  /\ Credit(n, v, r).coin.nonce = n /\ Credit(n, v, r).coin.value = v
           /\ Credit(n, v, r).coin.color = creditColor /\ Credit(n, v, r).recipient = r
  BY DEF Credit, coinCommitment

\* Every output is of credit, and its nonce tells where it came from.
LEMMA Known ==
    ASSUME CoinsOK, NEW o \in coins
    PROVE  /\ o.coin.value \in Nat /\ o.coin.color = creditColor
           /\ o.recipient \in Wallets \cup {Self}
           /\ o.coin.nonce[1] \in {"mint", "sent", "fresh"}
           /\ o.coin.nonce[1] = "mint" => IsMinted(o)
           /\ o.coin.nonce[1] = "sent" => IsSent(o) /\ o.recipient \in Wallets
           /\ o.coin.nonce[1] = "fresh" => IsFresh(o)
<1>1. CASE IsMinted(o)
  BY <1>1, CreditParts DEF IsMinted, IsCredit, evolveNonce
<1>2. CASE IsSent(o)
  BY <1>2, CreditParts DEF IsSent, IsCredit
<1>3. CASE IsFresh(o)
  BY <1>3, CreditParts DEF IsFresh, IsCredit
<1>4. QED
  BY <1>1, <1>2, <1>3 DEF CoinsOK

\* Finitely many outputs of credit.
Clean(S) == Countable(S) /\ \A o \in S : o.coin.color = creditColor

\* Any of them are countable, and the credit among them is all of them.
LEMMA CleanPart ==
    ASSUME NEW S, Clean(S), NEW T \in SUBSET S
    PROVE  Countable(T) /\ OfCredit(T) = T
<1>1. IsFiniteSet(T)
  BY FS_Subset DEF Clean, Countable
<1>2. QED
  BY <1>1 DEF Clean, Countable, OfCredit

\* The outputs so far are of credit.
LEMMA AllClean == CoinsOK => Clean(coins)
  BY Known DEF Clean, Countable, CoinsOK

\* A nonce that counts the outputs so far is in none of them.
LEMMA FreshUnused ==
    ASSUME CoinsOK, NEW i \in Nat, i >= Cardinality(coins), NEW v, NEW r
    PROVE  Credit(<<"fresh", i>>, v, r) \notin coins
<1> DEFINE o == Credit(<<"fresh", i>>, v, r)
<1>1. SUFFICES ASSUME o \in coins PROVE FALSE
  OBVIOUS
<1>2. o.coin.nonce = <<"fresh", i>>
  BY CreditParts
<1> HIDE DEF o
<1>3. IsFresh(o)
  BY <1>1, <1>2, Known
<1>4. PICK j \in 0..(Cardinality(coins) - 1) : o.coin.nonce = <<"fresh", j>>
  BY <1>3, CreditParts DEF IsFresh, IsCredit
<1>5. Cardinality(coins) \in Nat
  BY FS_CardinalityType DEF CoinsOK
<1>6. i = j
  BY <1>2, <1>4
<1>7. QED
  BY <1>4, <1>5, <1>6

\* Nor is one that counts the deposits so far, in a minted coin or one sent on from it.
LEMMA MintUnused ==
    ASSUME CoinsOK, NEW seed, NEW v, NEW r
    PROVE  /\ Credit(evolveNonce(mintCounter, seed), v, r) \notin coins
           /\ Credit(<<"sent", evolveNonce(mintCounter, seed)>>, v, r) \notin coins
<1> DEFINE n == evolveNonce(mintCounter, seed)
           m == Credit(n, v, r)
           s == Credit(<<"sent", n>>, v, r)
<1>1. m.coin.nonce = n /\ s.coin.nonce = <<"sent", n>>
  BY CreditParts
<1>2. n[1] = "mint" /\ n[2] = mintCounter
  BY DEF evolveNonce
<1> HIDE DEF m, s, n
<1>3. ASSUME m \in coins PROVE FALSE
  <2>1. IsMinted(m)
    BY <1>1, <1>2, <1>3, Known
  <2>2. PICK counter \in 0..(mintCounter - 1), other \in Seeds :
            m.coin.nonce = evolveNonce(counter, other)
    BY <2>1, CreditParts DEF IsMinted, IsCredit
  <2>3. counter = mintCounter
    BY <1>1, <1>2, <2>2 DEF evolveNonce
  <2>4. QED
    BY <2>3 DEF CoinsOK
<1>4. ASSUME s \in coins PROVE FALSE
  <2>1. IsSent(s)
    BY <1>1, <1>4, Known
  <2>2. PICK counter \in 0..(mintCounter - 1), other \in Seeds :
            s.coin.nonce = <<"sent", evolveNonce(counter, other)>>
    BY <2>1, CreditParts DEF IsSent, IsCredit
  <2>3. n = evolveNonce(counter, other)
    BY <1>1, <2>2
  <2>4. counter = mintCounter
    BY <1>2, <2>3 DEF evolveNonce
  <2>5. QED
    BY <2>4 DEF CoinsOK
<1>5. QED
  BY <1>3, <1>4 DEF m, s, n

\* What was below the number of deposits stays below.
LEMMA CountersGrow ==
    ASSUME mintCounter \in Nat, mintCounter' = mintCounter \/ mintCounter' = mintCounter + 1
    PROVE  /\ mintCounter' \in Nat
           /\ \A c \in 0..(mintCounter - 1) : c \in 0..(mintCounter' - 1)
  OBVIOUS

\* What was known of the outputs stays so, whatever is added and spent.
LEMMA CoinsKept ==
    ASSUME CoinsOK, coins \subseteq coins', IsFiniteSet(coins'),
           nullifiers \subseteq nullifiers', nullifiers' \subseteq coins',
           mintCounter' = mintCounter \/ mintCounter' = mintCounter + 1,
           \A o \in coins' \ coins : (IsMinted(o) \/ IsSent(o) \/ IsFresh(o))'
    PROVE  CoinsOK'
<1>1. /\ mintCounter' \in Nat
      /\ \A c \in 0..(mintCounter - 1) : c \in 0..(mintCounter' - 1)
  BY CountersGrow DEF CoinsOK
<1>2. \A i \in 0..(Cardinality(coins) - 1) : i \in 0..(Cardinality(coins') - 1)
  <2>1. /\ Cardinality(coins) \in Nat /\ Cardinality(coins') \in Nat
        /\ Cardinality(coins) <= Cardinality(coins')
    BY FS_Subset, FS_CardinalityType DEF CoinsOK
  <2>2. QED
    BY <2>1
<1>3. ASSUME NEW o \in coins PROVE (IsMinted(o) \/ IsSent(o) \/ IsFresh(o))'
  <2>1. CASE IsMinted(o)
    BY <1>1, <2>1 DEF IsMinted
  <2>2. CASE IsSent(o)
    BY <1>1, <2>2 DEF IsSent
  <2>3. CASE IsFresh(o)
    BY <1>2, <2>3 DEF IsFresh
  <2>4. QED
    BY <2>1, <2>2, <2>3 DEF CoinsOK
<1>4. QED
  BY <1>1, <1>3 DEF CoinsOK

-----------------------------------------------------------------------------
(* A coin handed to the contract, by pay or redeem                           *)

\* The credit each wallet holds.
Holding == [v \in Wallets |-> Worth(Purse(v))]

\* A purse is what its owner holds unspent.
LEMMA PurseIs ==
    ASSUME CoinsOK, NEW r
    PROVE  /\ Purse(r) = {o \in Unspent : o.recipient = r}
           /\ Purse(r) \in SUBSET Unspent /\ Unspent \in SUBSET coins
           /\ Countable(Purse(r)) /\ Worth(Purse(r)) \in Nat
           /\ Countable(Unspent) /\ OfCredit(Unspent) = Unspent
<1>1. Unspent \in SUBSET coins /\ {o \in Unspent : o.recipient = r} \in SUBSET coins
  BY DEF Unspent
<1>2. Purse(r) = {o \in Unspent : o.recipient = r}
  BY <1>1, AllClean, CleanPart DEF Purse
<1>3. QED
  BY <1>1, <1>2, AllClean, CleanPart, WorthType

\* The contract's coins and those of each wallet are apart.
LEMMA SelfIsNoWallet == \A w \in Wallets : w # Self
  BY KernelAddresses

\* The coin that is handed over is new, the payer's coins for it are worth at least as
\* much, and what they are worth beyond it comes back to the payer.
LEMMA Handing ==
    ASSUME CoinsOK, NEW w \in Wallets, NEW value \in Nat, NEW fx,
           fx.outputs = {Credit(freshNonce(0), value, Self)},
           fx.nullifiers = {}, fx.minted = 0, Included(w, fx)
    PROVE  \E own \in SUBSET Purse(w), change \in SUBSET coins' :
               /\ coins' = coins \cup {Credit(freshNonce(0), value, Self)} \cup change
               /\ nullifiers' = nullifiers \cup own
               /\ Worth(own) >= value
               /\ Countable(change) /\ Worth(change) = Worth(own) - value
               /\ \/ change = {}
                  \/ \E left \in Nat : change = {Credit(freshNonce(1), left, w)}
<1> DEFINE cm == Credit(freshNonce(0), value, Self)
<1>1. Missing(fx) = value
  <2>1. cm.coin.value = value /\ cm.coin.color = creditColor
    BY CreditParts
  <2> HIDE DEF cm
  <2>2. OfCredit({cm}) = {cm} /\ OfCredit({}) = {}
    BY <2>1 DEF OfCredit
  <2>3. Worth({cm}) = value /\ Worth({}) = 0
    BY <2>1, WorthOne, WorthEmpty
  <2>4. fx.outputs = {cm}
    BY DEF cm
  <2>5. OfCredit(fx.outputs) = {cm} /\ OfCredit(fx.nullifiers) = {}
    BY <2>2, <2>4
  <2>6. Missing(fx) = value - 0 - 0
    BY <2>3, <2>5 DEF Missing
  <2>7. QED
    BY <2>6
<1>2. PICK own \in SUBSET Purse(w) :
          /\ Enough(fx, own)
          /\ coins' = coins \cup {cm} \cup Change(fx, own, w)
          /\ nullifiers' = nullifiers \cup own
  BY DEF Included
<1>3. Worth(own) \in Nat /\ Worth(own) >= value
  <2>1. Countable(own)
    BY PurseIs, WorthRemove
  <2>2. QED
    BY <1>1, <1>2, <2>1, WorthType DEF Enough
<1>4. CASE Worth(own) = value
  <2>1. Change(fx, own, w) = {}
    BY <1>1, <1>4 DEF Change
  <2>2. Countable({}) /\ Worth({}) = 0
    BY WorthEmpty, FS_EmptySet DEF Countable
  <2>3. QED
    BY <1>2, <1>3, <1>4, <2>1, <2>2
<1>5. CASE Worth(own) # value
  <2> DEFINE left == Worth(own) - value
             rest == Credit(freshNonce(1), left, w)
  <2>1. Change(fx, own, w) = {rest}
    BY <1>1, <1>5 DEF Change, Credit
  <2>2. left \in Nat /\ rest.coin.value = left
    BY <1>3, CreditParts
  <2> HIDE DEF rest
  <2>3. Countable({rest}) /\ Worth({rest}) = left
    BY <2>2, WorthOne
  <2>4. QED
    BY <1>2, <1>3, <2>1, <2>2, <2>3 DEF rest
<1>6. QED
  BY <1>4, <1>5

\* A purse of outputs that are all of credit.
LEMMA PurseOf ==
    ASSUME Clean(coins'), NEW r
    PROVE  Purse(r)' = {o \in Unspent' : o.recipient = r}
<1>1. {o \in Unspent' : o.recipient = r} \in SUBSET coins'
  BY DEF Unspent
<1>2. QED
  BY <1>1, CleanPart DEF Purse

\* What handing over a coin does to the outputs: the payer's credit falls and the
\* contract's rises by the coin's value, and nothing else changes.
Handed(w, value) ==
    /\ CoinsOK' /\ Minted' = Minted
    /\ Worth(OfCredit(Unspent)') = Worth(OfCredit(Unspent))
    /\ Worth(Purse(Self)') = Worth(Purse(Self)) + value
    /\ Worth(Purse(w)) >= value
    /\ Holding' = [Holding EXCEPT ![w] = @ - value]

\* A call that hands over a coin, and does nothing else to the outputs, does just that.
LEMMA CoinHanded ==
    ASSUME CoinsOK, NEW w \in Wallets, NEW value \in Nat, NEW fx,
           fx.outputs = {Credit(freshNonce(0), value, Self)},
           fx.nullifiers = {}, fx.minted = 0, Included(w, fx), UNCHANGED mintCounter
    PROVE  Handed(w, value)
<1> DEFINE cm == Credit(freshNonce(0), value, Self)
           n == Cardinality(coins)
<1>1. PICK own \in SUBSET Purse(w), change \in SUBSET coins' :
           /\ coins' = coins \cup {cm} \cup change
           /\ nullifiers' = nullifiers \cup own
           /\ Worth(own) >= value
           /\ Countable(change) /\ Worth(change) = Worth(own) - value
           /\ \/ change = {}
              \/ \E left \in Nat : change = {Credit(freshNonce(1), left, w)}
  BY Handing
<1>2. n \in Nat /\ freshNonce(0) = <<"fresh", n>> /\ freshNonce(1) = <<"fresh", n + 1>>
  BY FS_CardinalityType DEF CoinsOK, freshNonce
<1>3. /\ cm.coin.nonce = <<"fresh", n>> /\ cm.recipient = Self
      /\ cm.coin.value = value /\ cm.coin.color = creditColor
      /\ cm \notin coins
  BY <1>2, CreditParts, FreshUnused
<1>4. \A o \in change :
          /\ o.coin.nonce = <<"fresh", n + 1>> /\ o.recipient = w
          /\ o.coin.color = creditColor /\ o.coin.value \in Nat
          /\ o \notin coins
  BY <1>1, <1>2, CreditParts, FreshUnused
<1>5. w # Self /\ cm \notin change
  BY <1>2, <1>3, <1>4, SelfIsNoWallet
<1>6. CoinsOK'
  <2>1. IsFiniteSet(coins \cup {cm}) /\ Cardinality(coins \cup {cm}) = n + 1
    BY <1>3, FS_AddElement DEF CoinsOK
  <2>2. /\ IsFiniteSet(coins') /\ Cardinality(coins') \in Nat
        /\ n + 1 <= Cardinality(coins')
        /\ change # {} => n + 2 <= Cardinality(coins')
    <3>1. CASE change = {}
      BY <1>1, <1>2, <2>1, <3>1
    <3>2. CASE change # {}
      <4>1. PICK o \in change : change = {o}
        BY <1>1, <3>2
      <4>2. o \notin coins \cup {cm}
        BY <1>2, <1>3, <1>4
      <4>3. coins' = (coins \cup {cm}) \cup {o}
        BY <1>1, <4>1
      <4> HIDE DEF cm, n
      <4>4. IsFiniteSet(coins') /\ Cardinality(coins') = (n + 1) + 1
        BY <2>1, <4>2, <4>3, FS_AddElement
      <4>5. QED
        BY <1>2, <4>4
    <3>3. QED
      BY <3>1, <3>2
  <2>3. ASSUME NEW o \in {cm} PROVE IsFresh(o)'
    <3>1. n \in 0..(Cardinality(coins') - 1)
      BY <1>2, <2>2
    <3>2. IsCredit(o, <<"fresh", n>>, Self)
      BY <1>2, <1>3, <2>3 DEF IsCredit
    <3> HIDE DEF cm, n
    <3>3. QED
      BY <3>1, <3>2 DEF IsFresh
  <2>4. ASSUME NEW o \in change PROVE IsFresh(o)'
    <3>1. n + 1 \in 0..(Cardinality(coins') - 1)
      BY <1>2, <2>2, <2>4
    <3>2. IsCredit(o, <<"fresh", n + 1>>, w)
      BY <1>1, <1>2, <1>4, <2>4, CreditParts DEF IsCredit
    <3> HIDE DEF cm, n
    <3>3. QED
      BY <3>1, <3>2 DEF IsFresh
  <2>5. coins \subseteq coins' /\ nullifiers \subseteq nullifiers' /\ nullifiers' \subseteq coins'
    BY <1>1, PurseIs DEF CoinsOK
  <2>6. ASSUME NEW o \in coins' \ coins PROVE IsFresh(o)'
    BY <1>1, <2>3, <2>4, <2>6
  <2>7. QED
    BY <2>2, <2>5, <2>6, CoinsKept
<1> HIDE DEF cm, n
<1>7. Clean(coins')
  <2>1. Countable({cm}) /\ {cm} \cap coins = {}
    BY <1>3, WorthOne
  <2>2. Clean(coins) /\ (coins \cup {cm}) \cap change = {}
    BY <1>4, <1>5, AllClean
  <2>3. Countable(coins \cup {cm})
    BY <2>1, <2>2, WorthUnion DEF Clean
  <2>4. Countable((coins \cup {cm}) \cup change)
    BY <1>1, <2>2, <2>3, WorthUnion
  <2>5. QED
    BY <1>1, <1>3, <1>4, <2>2, <2>4 DEF Clean
<1>8. Unspent' = ((Unspent \ own) \cup {cm}) \cup change
  BY <1>1, <1>3, <1>4, PurseIs DEF Unspent, CoinsOK
<1>9. \A r : /\ Purse(r) = {o \in Unspent : o.recipient = r}
              /\ Purse(r)' = {o \in Unspent' : o.recipient = r}
              /\ Countable(Purse(r)) /\ Worth(Purse(r)) \in Nat
  BY <1>7, PurseIs, PurseOf
<1>10. /\ Countable(own) /\ Worth(own) \in Nat /\ Worth(own) <= Worth(Purse(w))
       /\ Countable(Purse(w) \ own) /\ Worth(Purse(w) \ own) = Worth(Purse(w)) - Worth(own)
  BY <1>9, WorthRemove, WorthType
<1>11. Worth(Purse(Self)') = Worth(Purse(Self)) + value
  <2>1. Purse(Self)' = Purse(Self) \cup {cm}
    BY <1>1, <1>3, <1>4, <1>5, <1>8, <1>9
  <2>2. cm \notin Purse(Self)
    BY <1>3, PurseIs
  <2>3. QED
    BY <1>3, <1>9, <2>1, <2>2, WorthAdd
<1>12. Worth(Purse(w)') = Worth(Purse(w)) - value
  <2>1. Purse(w)' = (Purse(w) \ own) \cup change
    BY <1>1, <1>3, <1>4, <1>5, <1>8, <1>9
  <2>2. (Purse(w) \ own) \cap change = {}
    BY <1>4, PurseIs
  <2>3. Worth(Purse(w)') = Worth(Purse(w) \ own) + Worth(change)
    BY <1>1, <1>10, <2>1, <2>2, WorthUnion
  <2>4. QED
    BY <1>1, <1>9, <1>10, <2>3
<1>13. ASSUME NEW v \in Wallets, v # w PROVE Purse(v)' = Purse(v)
  BY <1>1, <1>3, <1>4, <1>8, <1>9, <1>13, SelfIsNoWallet
<1>14. Holding' = [Holding EXCEPT ![w] = @ - value]
  BY <1>12, <1>13 DEF Holding
<1>15. Worth(OfCredit(Unspent)') = Worth(OfCredit(Unspent))
  <2>1. /\ OfCredit(Unspent)' = Unspent'
        /\ OfCredit(Unspent) = Unspent /\ Countable(Unspent) /\ Worth(Unspent) \in Nat
    BY <1>7, PurseIs, CleanPart, WorthType DEF Unspent
  <2>2. own \in SUBSET Unspent /\ cm \notin Unspent /\ change \cap (Unspent \cup {cm}) = {}
    BY <1>3, <1>4, <1>5, PurseIs
  <2>3. Countable(Unspent \ own) /\ Worth(Unspent \ own) = Worth(Unspent) - Worth(own)
    BY <2>1, <2>2, WorthRemove
  <2>4. /\ Countable((Unspent \ own) \cup {cm})
        /\ Worth((Unspent \ own) \cup {cm}) = Worth(Unspent \ own) + value
    BY <1>3, <2>2, <2>3, WorthAdd
  <2>5. ((Unspent \ own) \cup {cm}) \cap change = {}
    BY <2>2
  <2>6. Worth(Unspent') = Worth((Unspent \ own) \cup {cm}) + Worth(change)
    BY <1>1, <1>8, <2>4, <2>5, WorthUnion
  <2>7. QED
    BY <1>1, <1>10, <2>1, <2>3, <2>4, <2>6
<1>16. Minted' = Minted
  BY <1>1, <1>3, <1>4 DEF Minted
<1>17. Worth(Purse(w)) >= value
  BY <1>1, <1>9, <1>10
<1>18. QED
  BY <1>6, <1>11, <1>14, <1>15, <1>16, <1>17 DEF Handed

-----------------------------------------------------------------------------
(* A deposit                                                                *)

\* What a deposit claims: a minted coin, spent at once, and one sent on with all of it.
LEMMA DepositEffects ==
    ASSUME NEW w \in Wallets, NEW amount \in Nat, NEW n, NEW fx,
           fx = depositEffects(w, [nonce |-> n, color |-> creditColor, value |-> amount])
    PROVE  /\ fx.outputs = {Credit(n, amount, Self), Credit(<<"sent", n>>, amount, w)}
           /\ fx.nullifiers = {Credit(n, amount, Self)}
           /\ fx.minted = amount /\ fx.nightIn = amount /\ fx.nightOut = 0
<1> DEFINE coin == [nonce |-> n, color |-> creditColor, value |-> amount]
           sent == [nonce |-> <<"sent", n>>, color |-> creditColor, value |-> amount]
           paid == receiveUnshielded(NoEffects, amount)
           mint == mintShieldedToken(paid, coin, Self)
           spent == [mint EXCEPT !.nullifiers = @ \cup {coinNullifier(coin, Self)}]
<1>1. /\ paid.nullifiers = {} /\ paid.outputs = {} /\ paid.minted = 0
      /\ paid.nightIn = amount /\ paid.nightOut = 0
      /\ paid = [nullifiers |-> {}, receives |-> {}, spends |-> {}, outputs |-> {},
                 minted |-> 0, nightIn |-> amount, nightOut |-> 0]
  BY DEF receiveUnshielded, NoEffects
<1>2. mint = [nullifiers |-> {}, receives |-> {Credit(n, amount, Self)},
              spends |-> {Credit(n, amount, Self)}, outputs |-> {Credit(n, amount, Self)},
              minted |-> amount, nightIn |-> amount, nightOut |-> 0]
  <2> DEFINE begun == [paid EXCEPT !.minted = @ + coin.value]
  <2>1. begun = [nullifiers |-> {}, receives |-> {}, spends |-> {}, outputs |-> {},
                 minted |-> amount, nightIn |-> amount, nightOut |-> 0]
    BY <1>1
  <2>2. mint = Creates(begun, coin, Self) /\ coinCommitment(coin, Self) = Credit(n, amount, Self)
    BY DEF mintShieldedToken, Credit
  <2> HIDE DEF begun, mint
  <2>3. QED
    BY <2>1, <2>2 DEF Creates
<1>3. /\ spent.nullifiers = {Credit(n, amount, Self)}
      /\ spent.outputs = {Credit(n, amount, Self)} /\ spent.spends = {Credit(n, amount, Self)}
      /\ spent.receives = {Credit(n, amount, Self)}
      /\ spent.minted = amount /\ spent.nightIn = amount /\ spent.nightOut = 0
      /\ DOMAIN spent = {"nullifiers", "receives", "spends", "outputs", "minted", "nightIn",
                         "nightOut"}
  BY <1>2 DEF coinNullifier, Credit, coinCommitment
<1>4. fx = Creates(spent, sent, w)
  BY DEF depositEffects, sendShielded
<1>5. QED
  BY <1>3, <1>4 DEF Creates, Credit

\* What a deposit does to the outputs: one more coin was minted, and the caller holds
\* its worth.
Issued(w, amount, seed) ==
    /\ CoinsOK'
    /\ Worth(Minted') = Worth(Minted) + amount
    /\ {<<o.coin.nonce[2], o.coin.nonce[3]>> : o \in Minted'}
         = {<<o.coin.nonce[2], o.coin.nonce[3]>> : o \in Minted} \cup {<<mintCounter, seed>>}
    /\ Worth(OfCredit(Unspent)') = Worth(OfCredit(Unspent)) + amount
    /\ Purse(Self)' = Purse(Self)
    /\ Holding' = [Holding EXCEPT ![w] = @ + amount]

\* A deposit does just that.
LEMMA CoinIssued ==
    ASSUME CoinsOK, NEW w \in Wallets, NEW amount \in Nat, NEW seed \in Seeds, NEW fx,
           fx = depositEffects(w, [nonce |-> evolveNonce(mintCounter, seed),
                                   color |-> creditColor, value |-> amount]),
           Included(w, fx), mintCounter' = mintCounter + 1
    PROVE  Issued(w, amount, seed)
<1> DEFINE n == evolveNonce(mintCounter, seed)
           m == Credit(n, amount, Self)
           s == Credit(<<"sent", n>>, amount, w)
<1>1. n[1] = "mint" /\ n[2] = mintCounter /\ n[3] = seed
  BY DEF evolveNonce
<1>2. /\ m.coin.nonce = n /\ m.coin.value = amount /\ m.coin.color = creditColor
      /\ m.recipient = Self
      /\ s.coin.nonce = <<"sent", n>> /\ s.coin.value = amount /\ s.coin.color = creditColor
      /\ s.recipient = w
  BY CreditParts
<1>3. m \notin coins /\ s \notin coins
  BY MintUnused
<1>4. fx.outputs = {m, s} /\ fx.nullifiers = {m} /\ fx.minted = amount
  BY DepositEffects
<1> HIDE DEF m, s
<1>6. m # s
  <2>1. <<"sent", n>>[1] = "sent"
    OBVIOUS
  <2> HIDE DEF n
  <2>2. QED
    BY <1>1, <1>2, <2>1
<1>7. /\ Countable({m}) /\ Worth({m}) = amount
      /\ Countable({m} \cup {s}) /\ Worth({m} \cup {s}) = amount + amount
  <2>1. Countable({m}) /\ Worth({m}) = amount
    BY <1>2, WorthOne
  <2>2. s \notin {m}
    BY <1>6
  <2>3. QED
    BY <1>2, <2>1, <2>2, WorthAdd
<1>8. Missing(fx) = 0
  <2>1. OfCredit({m} \cup {s}) = {m} \cup {s} /\ OfCredit({m}) = {m}
    BY <1>2 DEF OfCredit
  <2>2. fx.outputs = {m} \cup {s}
    BY <1>4
  <2>3. Missing(fx) = (amount + amount) - amount - amount
    BY <1>4, <1>7, <2>1, <2>2 DEF Missing
  <2>4. QED
    BY <2>3
<1>9. coins' = (coins \cup {m}) \cup {s} /\ nullifiers' = nullifiers \cup {m}
  <2>1. PICK own \in SUBSET Purse(w) :
            /\ \A o \in own : ~Enough(fx, own \ {o})
            /\ coins' = coins \cup fx.outputs \cup Change(fx, own, w)
            /\ nullifiers' = nullifiers \cup fx.nullifiers \cup own
    BY DEF Included
  <2>2. ASSUME NEW T \in SUBSET own PROVE Countable(T) /\ Enough(fx, T)
    <3>1. Countable(Purse(w)) /\ T \in SUBSET Purse(w)
      BY PurseIs
    <3>2. Countable(T) /\ Worth(T) \in Nat
      BY <3>1, WorthRemove, WorthType
    <3>3. QED
      BY <1>8, <3>2 DEF Enough
  <2>3. own = {}
    BY <2>1, <2>2
  <2>4. Change(fx, own, w) = {}
    BY <1>8, <2>3, WorthEmpty DEF Change
  <2>5. QED
    BY <1>4, <2>1, <2>3, <2>4
<1>10. CoinsOK'
  <2>1. IsFiniteSet(coins')
    BY <1>9, FS_AddElement DEF CoinsOK
  <2>2. ASSUME NEW o \in coins' \ coins PROVE (IsMinted(o) \/ IsSent(o) \/ IsFresh(o))'
    <3>1. mintCounter \in 0..(mintCounter' - 1)
      BY DEF CoinsOK
    <3>2. CASE o = m
      <4>1. IsCredit(o, n, Self) /\ o \in nullifiers'
        BY <1>2, <1>9, <3>2 DEF IsCredit, m
      <4>2. QED
        BY <3>1, <4>1 DEF IsMinted
    <3>3. CASE o = s
      <4>1. IsCredit(o, <<"sent", n>>, w)
        BY <1>2, <3>3 DEF IsCredit, s
      <4>2. QED
        BY <3>1, <4>1 DEF IsSent
    <3>4. QED
      BY <1>9, <2>2, <3>2, <3>3
  <2>3. coins \subseteq coins' /\ nullifiers \subseteq nullifiers' /\ nullifiers' \subseteq coins'
    BY <1>9 DEF CoinsOK
  <2>4. QED
    BY <2>1, <2>2, <2>3, CoinsKept
<1> HIDE DEF n
<1>11. Clean(coins')
  <2>1. Clean(coins) /\ Countable(coins \cup {m})
    BY <1>2, <1>3, AllClean, WorthAdd DEF Clean
  <2>2. Countable((coins \cup {m}) \cup {s})
    BY <1>2, <1>3, <1>6, <2>1, WorthAdd
  <2>3. QED
    BY <1>2, <1>9, <2>1, <2>2 DEF Clean
<1>12. Unspent' = Unspent \cup {s} /\ s \notin Unspent
  BY <1>3, <1>6, <1>9 DEF Unspent, CoinsOK
<1>13. \A r : /\ Purse(r) = {o \in Unspent : o.recipient = r}
               /\ Purse(r)' = {o \in Unspent' : o.recipient = r}
               /\ Countable(Purse(r))
  BY <1>11, PurseIs, PurseOf
<1>14. \A r : r # w => Purse(r)' = Purse(r)
  BY <1>2, <1>12, <1>13
<1>15. Worth(Purse(w)') = Worth(Purse(w)) + amount
  <2>1. Purse(w)' = Purse(w) \cup {s} /\ s \notin Purse(w)
    BY <1>2, <1>12, <1>13
  <2>2. QED
    BY <1>2, <1>13, <2>1, WorthAdd
<1>16. Holding' = [Holding EXCEPT ![w] = @ + amount]
  BY <1>14, <1>15 DEF Holding
<1>17. Worth(OfCredit(Unspent)') = Worth(OfCredit(Unspent)) + amount
  <2>1. /\ OfCredit(Unspent)' = Unspent'
        /\ OfCredit(Unspent) = Unspent /\ Countable(Unspent)
    BY <1>11, PurseIs, CleanPart DEF Unspent
  <2>2. QED
    BY <1>2, <1>12, <2>1, WorthAdd
<1>18. Minted' = Minted \cup {m} /\ m \notin Minted
  BY <1>1, <1>2, <1>3, <1>9 DEF Minted
<1>19. Worth(Minted') = Worth(Minted) + amount
  <2>1. Countable(Minted)
    BY AllClean, CleanPart DEF Minted
  <2>2. QED
    BY <1>2, <1>18, <2>1, WorthAdd
<1>20. QED
  BY <1>1, <1>2, <1>10, <1>14, <1>16, <1>17, <1>18, <1>19, SelfIsNoWallet DEF Issued

-----------------------------------------------------------------------------
(* The accounts                                                             *)

\* Adding to one balance adds to their sum.
LEMMA CreditTotal ==
    ASSUME NEW D, IsFiniteSet(D), NEW map \in [D -> Nat], NEW key \in D, NEW value \in Nat
    PROVE  /\ Insert(map, key, map[key] + value) \in [D -> Nat]
           /\ Total(Insert(map, key, map[key] + value)) = Total(map) + value
<1> DEFINE new == Insert(map, key, map[key] + value)
<1>1. /\ new \in [D -> Nat] /\ new[key] = map[key] + value
      /\ \A k \in D : k # key => new[k] = map[k]
  BY DEF Insert
<1> HIDE DEF new
<1>2. Total(new) = Total(map) + value
  BY <1>1, TotalIncrease
<1>3. QED
  BY <1>1, <1>2 DEF new

\* So does a first balance.
LEMMA FirstTotal ==
    ASSUME NEW D, IsFiniteSet(D), NEW map \in [D -> Nat], NEW key, key \notin D,
           NEW value \in Nat
    PROVE  /\ Insert(map, key, value) \in [D \cup {key} -> Nat]
           /\ Total(Insert(map, key, value)) = Total(map) + value
<1> DEFINE new == Insert(map, key, value)
<1>1. /\ new \in [D \cup {key} -> Nat] /\ new[key] = value
      /\ \A k \in D : new[k] = map[k]
  BY DEF Insert
<1> HIDE DEF new
<1>2. Total(new) = Total(map) + value
  BY <1>1, TotalExtend
<1>3. QED
  BY <1>1, <1>2 DEF new

\* Taking from one balance takes from their sum.
LEMMA DebitTotal ==
    ASSUME NEW D, IsFiniteSet(D), NEW map \in [D -> Nat], NEW key \in D,
           NEW value \in Nat, value <= map[key]
    PROVE  /\ Insert(map, key, map[key] - value) \in [D -> Nat]
           /\ Total(map) = Total(Insert(map, key, map[key] - value)) + value
<1> DEFINE new == Insert(map, key, map[key] - value)
<1>1. map[key] - value \in Nat /\ D \cup {key} = D
  OBVIOUS
<1>2. /\ new \in [D -> Nat] /\ new[key] = map[key] - value
      /\ \A k \in D : k # key => map[k] = new[k]
  BY <1>1 DEF Insert
<1> HIDE DEF new
<1>3. map[key] = new[key] + value
  BY <1>2
<1>4. Total(map) = Total(new) + value
  BY <1>2, <1>3, TotalIncrease
<1>5. QED
  BY <1>2, <1>4 DEF new

\* The sums of the accounts are natural numbers.
LEMMA AccountTotals ==
    ASSUME AccountsOK
    PROVE  /\ IsFiniteSet(DOMAIN merchantBalance) /\ IsFiniteSet(Addresses)
           /\ Total(merchantBalance) \in Nat /\ Total(paidOut) \in Nat
<1>1. IsFiniteSet(DOMAIN merchantBalance)
  BY KernelAddresses, FS_Subset DEF AccountsOK
<1>2. IsFiniteSet(Addresses)
  BY KernelAddresses, FS_AddElement DEF Addresses
<1>3. QED
  BY <1>1, <1>2, TotalType DEF AccountsOK

\* What the contract holds is its purse.
LEMMA Held == CoinsOK => Worth({o \in Unspent : o.recipient = Self}) = Worth(Purse(Self))
  BY PurseIs

\* HandedOver in terms of the purse.
Owed ==
    LET earned == Total(merchantBalance) + Total(paidOut)
        held   == Worth(Purse(Self))
    IN  /\ earned <= held
        /\ reserve = Worth(Minted) - Total(paidOut) - (held - earned)

\* It is HandedOver, in any state of the invariant.
LEMMA OwedIs == CoinsOK => (HandedOver <=> Owed)
  BY Held DEF HandedOver, Owed

\* The same of the state after a step.
LEMMA OwedNext == CoinsOK' => (HandedOver' <=> Owed')
  BY OwedIs, PTL

-----------------------------------------------------------------------------
(* The circuits: what each does to the coins, to the NIGHT and to the accounts. *)

\* What handing a coin to the contract claims.
LEMMA ReceiveEffects ==
    ASSUME NEW n, NEW v,
           NEW coin, coin = [nonce |-> n, color |-> creditColor, value |-> v]
    PROVE  /\ LET fx == receiveShielded(NoEffects, coin) IN
              /\ fx.outputs = {Credit(n, v, Self)} /\ fx.nullifiers = {} /\ fx.minted = 0
           /\ LET fx == redeemEffects(coin) IN
              /\ fx.outputs = {Credit(n, v, Self)} /\ fx.nullifiers = {} /\ fx.minted = 0
              /\ fx.nightIn = 0 /\ fx.nightOut = 0 + v
<1> DEFINE received == receiveShielded(NoEffects, coin)
<1>1. received = [nullifiers |-> {}, receives |-> {Credit(n, v, Self)}, spends |-> {},
                  outputs |-> {Credit(n, v, Self)}, minted |-> 0, nightIn |-> 0, nightOut |-> 0]
  <2>1. coinCommitment(coin, Self) = Credit(n, v, Self)
    BY DEF Credit
  <2> DEFINE cm == Credit(n, v, Self)
  <2>2. received = [NoEffects EXCEPT !.outputs = @ \cup {cm}, !.receives = @ \cup {cm}]
    BY <2>1 DEF receiveShielded
  <2> HIDE DEF cm, received
  <2>3. received = [nullifiers |-> {}, receives |-> {cm}, spends |-> {}, outputs |-> {cm},
                    minted |-> 0, nightIn |-> 0, nightOut |-> 0]
    BY <2>2 DEF NoEffects
  <2>4. QED
    BY <2>3 DEF cm
<1>2. redeemEffects(coin) = [received EXCEPT !.nightOut = @ + coin.value]
  BY DEF redeemEffects, sendUnshielded
<1> HIDE DEF received
<1>3. QED
  BY <1>1, <1>2 DEF received

\* NIGHT that is taken in and paid out.
LEMMA SettledNight ==
    ASSUME AccountsOK, NEW w \in Wallets, NEW payee \in Addresses, NEW fx, NEW in \in Nat,
           NEW out \in Nat, fx.nightIn = in, fx.nightOut = out, Settled(w, fx, payee)
    PROVE  /\ night[w] >= in /\ reserve' = reserve + in - out /\ reserve' \in Nat
           /\ night' \in [Addresses -> Nat]
           /\ out = 0 => night' = [night EXCEPT ![w] = @ - in]
           /\ in = 0 => night' = [night EXCEPT ![payee] = @ + out] /\ reserve >= out
<1>1. w \in Addresses /\ night \in [Addresses -> Nat] /\ reserve \in Nat
  BY DEF Addresses, AccountsOK
<1> DEFINE paid == [night EXCEPT ![w] = @ - in]
<1>2. /\ night[w] >= in /\ reserve + in >= out /\ reserve' = reserve + in - out
      /\ night' = [paid EXCEPT ![payee] = @ + out]
  BY DEF Settled
<1>3. paid \in [Addresses -> Nat]
  BY <1>1, <1>2
<1>4. in = 0 => paid = night
  BY <1>1
<1> HIDE DEF paid
<1>5. night' \in [Addresses -> Nat] /\ (out = 0 => night' = paid)
  BY <1>2, <1>3
<1>6. in = 0 => night' = [night EXCEPT ![payee] = @ + out] /\ reserve >= out
  BY <1>1, <1>2, <1>4
<1>7. out = 0 => night' = [night EXCEPT ![w] = @ - in]
  BY <1>5 DEF paid
<1>8. reserve' \in Nat
  BY <1>1, <1>2
<1>9. QED
  BY <1>2, <1>5, <1>6, <1>7, <1>8

\* A deposit.
LEMMA DepositOutcome ==
    ASSUME KernelInv, NEW w \in Wallets, NEW amount \in Amounts, NEW seed \in Seeds,
           deposit(w, amount, seed)
    PROVE  /\ amount \in Nat /\ amount > 0
           /\ Issued(w, amount, seed)
           /\ night[w] >= amount /\ night' = [night EXCEPT ![w] = @ - amount]
           /\ night' \in [Addresses -> Nat]
           /\ reserve' = reserve + amount /\ reserve' \in Nat
<1> DEFINE n == evolveNonce(mintCounter, seed)
           effects == depositEffects(w, [nonce |-> n, color |-> creditColor, value |-> amount])
<1>1. amount \in Nat /\ amount > 0 /\ w \in Addresses
  BY KernelAmounts DEF deposit, Addresses
<1>2. /\ effects = depositEffects(w, [nonce |-> n, color |-> creditColor, value |-> amount])
      /\ Included(w, effects) /\ Settled(w, effects, w) /\ mintCounter' = mintCounter + 1
  BY DEF deposit
<1>3. effects.nightIn = amount /\ effects.nightOut = 0
  <2> HIDE DEF effects, n
  <2>1. /\ effects.outputs = {Credit(n, amount, Self), Credit(<<"sent", n>>, amount, w)}
        /\ effects.nullifiers = {Credit(n, amount, Self)}
        /\ effects.minted = amount /\ effects.nightIn = amount /\ effects.nightOut = 0
    BY <1>1, <1>2, DepositEffects
  <2>2. QED
    BY <2>1
<1> HIDE DEF effects
<1>4. /\ night[w] >= amount /\ night' = [night EXCEPT ![w] = @ - amount]
      /\ night' \in [Addresses -> Nat]
      /\ reserve' = reserve + amount - 0 /\ reserve' \in Nat
  BY <1>1, <1>2, <1>3, SettledNight DEF KernelInv
<1>5. Issued(w, amount, seed)
  BY <1>1, <1>2, CoinIssued DEF KernelInv
<1>6. QED
  BY <1>1, <1>4, <1>5 DEF KernelInv, AccountsOK

\* A payment.
LEMMA PayOutcome ==
    ASSUME KernelInv, NEW w \in Wallets, NEW sid \in DOMAIN servicePrice,
           NEW secret \in Secrets, NEW color, NEW value \in Amounts,
           pay(w, sid, secret, color, value)
    PROVE  /\ value \in Nat /\ Handed(w, value)
           /\ serviceOwner[sid] \in Wallets
           /\ merchantBalance' \in [DOMAIN merchantBalance \cup {serviceOwner[sid]} -> Nat]
           /\ Total(merchantBalance') = Total(merchantBalance) + value
<1> DEFINE coin == [nonce |-> freshNonce(0), color |-> creditColor, value |-> value]
           effects == receiveShielded(NoEffects, coin)
           owner == serviceOwner[sid]
           prior == IF owner \in DOMAIN merchantBalance THEN merchantBalance[owner] ELSE 0
<1>1. value \in Nat /\ owner \in Wallets
  BY KernelAmounts DEF KernelInv, AccountsOK
<1>2. /\ Included(w, effects) /\ mintCounter' = mintCounter
      /\ merchantBalance' = Insert(merchantBalance, owner, prior + value)
  BY DEF pay
<1>3. /\ effects.outputs = {Credit(freshNonce(0), value, Self)}
      /\ effects.nullifiers = {} /\ effects.minted = 0
  BY ReceiveEffects
<1> HIDE DEF effects
<1>4. Handed(w, value)
  BY <1>1, <1>2, <1>3, CoinHanded DEF KernelInv
<1>5. IsFiniteSet(DOMAIN merchantBalance) /\ merchantBalance \in [DOMAIN merchantBalance -> Nat]
  BY AccountTotals DEF KernelInv, AccountsOK
<1>6. CASE owner \in DOMAIN merchantBalance
  <2>1. merchantBalance' = Insert(merchantBalance, owner, merchantBalance[owner] + value)
    BY <1>2, <1>6
  <2> HIDE DEF owner
  <2>2. /\ merchantBalance' \in [DOMAIN merchantBalance -> Nat]
        /\ Total(merchantBalance') = Total(merchantBalance) + value
    BY <1>1, <1>5, <1>6, <2>1, CreditTotal
  <2>3. DOMAIN merchantBalance \cup {owner} = DOMAIN merchantBalance
    BY <1>6
  <2>4. QED
    BY <1>1, <1>4, <2>2, <2>3 DEF owner
<1>7. CASE owner \notin DOMAIN merchantBalance
  <2>1. merchantBalance' = Insert(merchantBalance, owner, value)
    BY <1>1, <1>2, <1>7
  <2> HIDE DEF owner
  <2>2. /\ merchantBalance' \in [DOMAIN merchantBalance \cup {owner} -> Nat]
        /\ Total(merchantBalance') = Total(merchantBalance) + value
    BY <1>1, <1>5, <1>7, <2>1, FirstTotal
  <2>3. QED
    BY <1>1, <1>4, <2>2 DEF owner
<1>8. QED
  BY <1>6, <1>7

\* A redemption.
LEMMA RedeemOutcome ==
    ASSUME KernelInv, NEW w \in Wallets, NEW color, NEW value \in Amounts,
           NEW recipient \in Addresses, redeem(w, color, value, recipient)
    PROVE  /\ value \in Nat /\ Handed(w, value)
           /\ night' = [night EXCEPT ![recipient] = @ + value] /\ night' \in [Addresses -> Nat]
           /\ reserve >= value /\ reserve' = reserve - value /\ reserve' \in Nat
<1> DEFINE coin == [nonce |-> freshNonce(0), color |-> creditColor, value |-> value]
           fx == redeemEffects(coin)
<1>1. value \in Nat
  BY KernelAmounts
<1>2. Included(w, fx) /\ Settled(w, fx, recipient) /\ mintCounter' = mintCounter
  BY DEF redeem
<1>3. /\ fx.outputs = {Credit(freshNonce(0), value, Self)} /\ fx.nullifiers = {} /\ fx.minted = 0
      /\ fx.nightIn = 0 /\ fx.nightOut = value
  BY <1>1, ReceiveEffects
<1> HIDE DEF fx
<1>4. Handed(w, value)
  BY <1>1, <1>2, <1>3, CoinHanded DEF KernelInv
<1>5. /\ night' = [night EXCEPT ![recipient] = @ + value] /\ night' \in [Addresses -> Nat]
      /\ reserve >= value /\ reserve' = reserve + 0 - value /\ reserve' \in Nat
  BY <1>1, <1>2, <1>3, SettledNight DEF KernelInv
<1>6. QED
  BY <1>1, <1>4, <1>5 DEF KernelInv, AccountsOK

\* A withdrawal.
LEMMA WithdrawOutcome ==
    ASSUME KernelInv, NEW w \in Wallets, NEW sid \in DOMAIN serviceOwner,
           NEW amount \in Amounts, withdraw(w, sid, amount)
    PROVE  /\ amount \in Nat /\ serviceOwner[sid] \in Wallets
           /\ night' = [night EXCEPT ![serviceOwner[sid]] = @ + amount]
           /\ night' \in [Addresses -> Nat]
           /\ reserve >= amount /\ reserve' = reserve - amount /\ reserve' \in Nat
           /\ merchantBalance' \in [DOMAIN merchantBalance -> Nat]
           /\ Total(merchantBalance) = Total(merchantBalance') + amount
           /\ paidOut' \in [Addresses -> Nat]
           /\ Total(paidOut') = Total(paidOut) + amount
<1> DEFINE owner == serviceOwner[sid]
           fx == sendUnshielded(NoEffects, amount)
<1>1. amount \in Nat /\ owner \in Wallets /\ owner \in Addresses
  BY KernelAmounts DEF KernelInv, AccountsOK, Addresses
<1>2. fx.nightIn = 0 /\ fx.nightOut = amount
  BY <1>1 DEF sendUnshielded, NoEffects
<1>3. /\ owner \in DOMAIN merchantBalance /\ merchantBalance[owner] >= amount
      /\ Settled(w, fx, owner)
      /\ merchantBalance' = Insert(merchantBalance, owner, merchantBalance[owner] - amount)
      /\ paidOut' = [paidOut EXCEPT ![owner] = @ + amount]
  BY DEF withdraw
<1> HIDE DEF fx, owner
<1>4. /\ IsFiniteSet(DOMAIN merchantBalance) /\ merchantBalance \in [DOMAIN merchantBalance -> Nat]
      /\ IsFiniteSet(Addresses) /\ paidOut \in [Addresses -> Nat] /\ reserve \in Nat
  BY AccountTotals DEF KernelInv, AccountsOK
<1>5. /\ night' = [night EXCEPT ![owner] = @ + amount] /\ night' \in [Addresses -> Nat]
      /\ reserve >= amount /\ reserve' = reserve + 0 - amount /\ reserve' \in Nat
  BY <1>1, <1>2, <1>3, SettledNight DEF KernelInv
<1>6. merchantBalance[owner] \in Nat /\ amount <= merchantBalance[owner]
  BY <1>1, <1>3, <1>4
<1>7. /\ merchantBalance' \in [DOMAIN merchantBalance -> Nat]
      /\ Total(merchantBalance) = Total(merchantBalance') + amount
  BY <1>1, <1>3, <1>4, <1>6, DebitTotal
<1>8. /\ paidOut' \in [Addresses -> Nat] /\ paidOut'[owner] = paidOut[owner] + amount
      /\ \A a \in Addresses : a # owner => paidOut'[a] = paidOut[a]
  BY <1>1, <1>3, <1>4
<1>9. Total(paidOut') = Total(paidOut) + amount
  BY <1>1, <1>4, <1>8, TotalIncrease
<1>10. reserve' = reserve - amount
  BY <1>1, <1>4, <1>5
<1>11. QED
  BY <1>1, <1>5, <1>7, <1>8, <1>9, <1>10 DEF owner

-----------------------------------------------------------------------------
(* The invariant is inductive.                                              *)

\* What the equations of the invariant add up is natural numbers.
LEMMA Numbers ==
    ASSUME KernelInv
    PROVE  /\ Worth(Minted) \in Nat /\ Worth(Purse(Self)) \in Nat
           /\ Worth(OfCredit(Unspent)) \in Nat
           /\ Total(merchantBalance) \in Nat /\ Total(paidOut) \in Nat
           /\ reserve \in Nat
           /\ Worth(Minted) = Worth(OfCredit(Unspent))
           /\ Owed
<1>1. CoinsOK /\ AccountsOK /\ CreditConserved /\ HandedOver
  BY DEF KernelInv
<1>2. Countable(Minted)
  BY <1>1, AllClean, CleanPart DEF Minted
<1>3. Worth(Minted) \in Nat
  BY <1>2, WorthType
<1>4. QED
  BY <1>1, <1>3, PurseIs, AccountTotals, OwedIs DEF CreditConserved, AccountsOK

\* At deployment there is no coin, and nothing is owed.
LEMMA InitInv == Init => KernelInv
<1> SUFFICES ASSUME Init PROVE KernelInv
  OBVIOUS
<1>1. CoinsOK
  BY FS_EmptySet DEF Init, CoinsOK
<1>2. AccountsOK
  BY KernelAmounts DEF Init, AccountsOK, Addresses
<1>3. Minted = {} /\ OfCredit(Unspent) = {} /\ Purse(Self) = {}
  BY DEF Init, Minted, OfCredit, Unspent, Purse
<1>4. Total(merchantBalance) = 0 /\ Total(paidOut) = 0
  <2>1. merchantBalance \in [{} -> {0}] /\ paidOut \in [Addresses -> {0}]
    BY DEF Init
  <2>2. QED
    BY <2>1, TotalZero
<1>5. Owed
  BY <1>3, <1>4, WorthEmpty DEF Owed, Init
<1>6. QED
  BY <1>1, <1>2, <1>3, <1>5, OwedIs DEF KernelInv, CreditConserved

\* A step that leaves the coins and the NIGHT alone.
LEMMA CoinsUnchanged ==
    ASSUME KernelInv, UNCHANGED <<shielded, mintCounter>>
    PROVE  /\ CoinsOK' /\ CreditConserved' /\ Minted' = Minted
           /\ \A r : Purse(r)' = Purse(r)
<1>1. UNCHANGED <<coins, nullifiers, mintCounter>>
  BY DEF shielded
<1>2. Minted' = Minted /\ OfCredit(Unspent)' = OfCredit(Unspent) /\ \A r : Purse(r)' = Purse(r)
  BY <1>1 DEF Minted, Unspent, OfCredit, Purse
<1>3. CoinsOK'
  BY <1>1 DEF KernelInv, CoinsOK, IsMinted, IsSent, IsFresh
<1>4. QED
  BY <1>2, <1>3 DEF KernelInv, CreditConserved

\* A registration touches neither coins nor accounts.
LEMMA RegisterInv ==
    ASSUME KernelInv, NEW salt \in Salts, NEW price \in Prices, NEW owner \in Addresses,
           registerService(salt, price, owner)
    PROVE  KernelInv'
<1> DEFINE sid == deriveServiceId(owner, salt, price)
<1>1. /\ price \in 1..MaxUint64 /\ owner \in Wallets
      /\ servicePrice' = Insert(servicePrice, sid, price)
      /\ serviceOwner' = Insert(serviceOwner, sid, owner)
      /\ UNCHANGED <<merchantBalance, mintCounter, shielded, reserve, night, paidOut>>
  BY KernelAmounts DEF registerService, Uint64, Addresses, unshielded
<1> HIDE DEF sid
<1>2. AccountsOK'
  BY <1>1 DEF KernelInv, AccountsOK, Insert
<1>3. CoinsOK' /\ CreditConserved' /\ Minted' = Minted /\ Purse(Self)' = Purse(Self)
  BY <1>1, CoinsUnchanged
<1>4. Owed'
  BY <1>1, <1>3, Numbers DEF Owed
<1>5. QED
  BY <1>2, <1>3, <1>4, OwedNext DEF KernelInv

\* A deposit mints as much as its caller then holds, for as much NIGHT.
LEMMA DepositInv ==
    ASSUME KernelInv, NEW w \in Wallets, NEW amount \in Amounts, NEW seed \in Seeds,
           deposit(w, amount, seed)
    PROVE  KernelInv'
<1>1. /\ amount \in Nat /\ Issued(w, amount, seed)
      /\ night' \in [Addresses -> Nat] /\ reserve' = reserve + amount /\ reserve' \in Nat
  BY DepositOutcome
<1>2. UNCHANGED <<servicePrice, serviceOwner, merchantBalance, paidOut>>
  BY DEF deposit, registry
<1>3. AccountsOK'
  BY <1>1, <1>2 DEF KernelInv, AccountsOK
<1>4. CoinsOK' /\ CreditConserved'
  BY <1>1, Numbers DEF Issued, CreditConserved
<1>5. Owed'
  BY <1>1, <1>2, Numbers DEF Owed, Issued
<1>6. QED
  BY <1>3, <1>4, <1>5, OwedNext DEF KernelInv

\* A payment moves credit from the payer's purse to the contract's, and is earned.
LEMMA PayInv ==
    ASSUME KernelInv, NEW w \in Wallets, NEW sid \in DOMAIN servicePrice,
           NEW secret \in Secrets, NEW color, NEW value \in Amounts,
           pay(w, sid, secret, color, value)
    PROVE  KernelInv'
<1>1. /\ value \in Nat /\ Handed(w, value) /\ serviceOwner[sid] \in Wallets
      /\ merchantBalance' \in [DOMAIN merchantBalance \cup {serviceOwner[sid]} -> Nat]
      /\ Total(merchantBalance') = Total(merchantBalance) + value
  BY PayOutcome
<1>2. UNCHANGED <<servicePrice, serviceOwner, reserve, night, paidOut>>
  BY DEF pay, registry, unshielded
<1>3. AccountsOK'
  BY <1>1, <1>2 DEF KernelInv, AccountsOK
<1>4. CoinsOK' /\ CreditConserved'
  BY <1>1, Numbers DEF Handed, CreditConserved
<1>5. Owed'
  BY <1>1, <1>2, Numbers DEF Owed, Handed
<1>6. QED
  BY <1>3, <1>4, <1>5, OwedNext DEF KernelInv

\* A redemption moves credit to the contract's purse and as much NIGHT out.
LEMMA RedeemInv ==
    ASSUME KernelInv, NEW w \in Wallets, NEW color, NEW value \in Amounts,
           NEW recipient \in Addresses, redeem(w, color, value, recipient)
    PROVE  KernelInv'
<1>1. /\ value \in Nat /\ Handed(w, value) /\ night' \in [Addresses -> Nat]
      /\ reserve' = reserve - value /\ reserve' \in Nat
  BY RedeemOutcome
<1>2. UNCHANGED <<servicePrice, serviceOwner, merchantBalance, paidOut>>
  BY DEF redeem, registry
<1>3. AccountsOK'
  BY <1>1, <1>2 DEF KernelInv, AccountsOK
<1>4. CoinsOK' /\ CreditConserved'
  BY <1>1, Numbers DEF Handed, CreditConserved
<1>5. Owed'
  BY <1>1, <1>2, Numbers DEF Owed, Handed
<1>6. QED
  BY <1>3, <1>4, <1>5, OwedNext DEF KernelInv

\* A withdrawal moves NIGHT out and what is owed to what was paid out.
LEMMA WithdrawInv ==
    ASSUME KernelInv, NEW w \in Wallets, NEW sid \in DOMAIN serviceOwner,
           NEW amount \in Amounts, withdraw(w, sid, amount)
    PROVE  KernelInv'
<1>1. /\ amount \in Nat /\ night' \in [Addresses -> Nat]
      /\ reserve' = reserve - amount /\ reserve' \in Nat
      /\ merchantBalance' \in [DOMAIN merchantBalance -> Nat]
      /\ Total(merchantBalance) = Total(merchantBalance') + amount
      /\ paidOut' \in [Addresses -> Nat] /\ Total(paidOut') = Total(paidOut) + amount
  BY WithdrawOutcome
<1>2. UNCHANGED <<servicePrice, serviceOwner, mintCounter, shielded>>
  BY DEF withdraw, registry
<1>3. AccountsOK'
  BY <1>1, <1>2 DEF KernelInv, AccountsOK
<1>4. CoinsOK' /\ CreditConserved' /\ Minted' = Minted /\ Purse(Self)' = Purse(Self)
  BY <1>2, CoinsUnchanged
<1>5. Total(merchantBalance') \in Nat
  <2>1. IsFiniteSet(DOMAIN merchantBalance)
    BY AccountTotals DEF KernelInv
  <2>2. QED
    BY <1>1, <2>1, TotalType
<1>6. Owed'
  BY <1>1, <1>4, <1>5, Numbers DEF Owed
<1>7. QED
  BY <1>3, <1>4, <1>6, OwedNext DEF KernelInv

\* Every step of the circuits keeps the invariant.
LEMMA StepInv == KernelInv /\ [Next]_vars => KernelInv'
<1> SUFFICES ASSUME KernelInv, [Next]_vars PROVE KernelInv'
  OBVIOUS
<1>1. CASE UNCHANGED vars
  <2>1. UNCHANGED <<servicePrice, serviceOwner, merchantBalance, reserve, night, paidOut>>
    BY <1>1 DEF vars, registry, unshielded
  <2>2. CoinsOK' /\ CreditConserved' /\ Minted' = Minted /\ Purse(Self)' = Purse(Self)
    BY <1>1, CoinsUnchanged DEF vars
  <2>3. AccountsOK'
    BY <2>1 DEF KernelInv, AccountsOK
  <2>4. Owed'
    BY <2>1, <2>2, Numbers DEF Owed
  <2>5. QED
    BY <2>2, <2>3, <2>4, OwedNext DEF KernelInv
<1>2. CASE Next
  BY <1>2, RegisterInv, DepositInv, PayInv, RedeemInv, WithdrawInv DEF Next
<1>3. QED
  BY <1>1, <1>2

\* The invariant holds always.
LEMMA Invariance == Spec => []KernelInv
  BY InitInv, StepInv, PTL DEF Spec

\* Splitting, change and payment neither make nor lose credit.
THEOREM Conservation == Spec => []CreditConserved
<1>1. KernelInv => CreditConserved
  BY DEF KernelInv
<1>2. QED
  BY <1>1, Invariance, PTL

\* No part of a deposit stays with the contract: its minted coin is spent, and what was
\* sent on went to a wallet.
THEOREM Unstranded == Spec => []NothingStranded
<1>1. ASSUME KernelInv, NEW o \in Unspent, o.recipient = Self
      PROVE  o.coin.nonce[1] = "fresh"
  <2>1. CoinsOK /\ o \in coins /\ o \notin nullifiers
    BY <1>1 DEF KernelInv, Unspent
  <2>2. ~IsMinted(o)
    BY <2>1 DEF IsMinted
  <2>3. QED
    BY <1>1, <2>1, <2>2, Known, SelfIsNoWallet
<1>2. KernelInv => NothingStranded
  BY <1>1 DEF NothingStranded
<1>3. QED
  BY <1>2, Invariance, PTL

\* The coins the contract holds are the merchants' earnings and what was redeemed, and
\* the reserve is what is left of the deposits.
THEOREM HandedOverAlways == Spec => []HandedOver
<1>1. KernelInv => HandedOver
  BY DEF KernelInv
<1>2. QED
  BY <1>1, Invariance, PTL

-----------------------------------------------------------------------------
(* Refinement. Each circuit does to the worth of the purses what the ledger of *)
(* amounts does to its credit.                                                *)

MintNonces == {<<o.coin.nonce[2], o.coin.nonce[3]>> : o \in Minted}

\* A registration is one of the ledger.
LEMMA RegisterRefines ==
    ASSUME KernelInv, NEW salt \in Salts, NEW price \in Prices, NEW owner \in Addresses,
           registerService(salt, price, owner)
    PROVE  Ledger!registerService(salt, price, owner)
<1>1. UNCHANGED <<shielded, mintCounter>>
  BY DEF registerService
<1>2. Minted' = Minted /\ Holding' = Holding
  BY <1>1, CoinsUnchanged DEF Holding
<1>3. QED
  BY <1>2 DEF registerService, Ledger!registerService, Ledger!Registrable, Ledger!Insert,
              Insert, deriveServiceId, Ledger!deriveServiceId, Ledger!pool, Ledger!mint,
              unshielded, Holding, Uint64, Ledger!Uint64

\* A deposit credits the amount under a new nonce.
LEMMA DepositRefines ==
    ASSUME KernelInv, NEW w \in Wallets, NEW amount \in Amounts, NEW seed \in Seeds,
           deposit(w, amount, seed)
    PROVE  Ledger!deposit(w, amount, seed)
<1>1. /\ amount > 0 /\ Issued(w, amount, seed)
      /\ night[w] >= amount /\ night' = [night EXCEPT ![w] = @ - amount]
      /\ reserve' = reserve + amount
  BY DepositOutcome
<1>2. /\ amount \in Ledger!Uint64
      /\ mintCounter <= MaxUint64 /\ mintCounter' = mintCounter + 1
      /\ UNCHANGED <<servicePrice, serviceOwner, receipts, merchantBalance, paidOut>>
  BY DEF deposit, registry, Uint64, Ledger!Uint64
<1>3. MintNonces' = MintNonces \cup {<<mintCounter, seed>>}
  BY <1>1 DEF Issued, MintNonces
<1>4. Holding' = [Holding EXCEPT ![w] = @ + amount]
  BY <1>1 DEF Issued
<1>5. QED
  BY <1>1, <1>2, <1>3, <1>4 DEF Ledger!deposit, Ledger!registry, Ledger!evolveNonce, Holding,
                                MintNonces

\* A payment debits the payer by a coin of the price, whatever coins it was made up of.
LEMMA PayRefines ==
    ASSUME KernelInv, NEW w \in Wallets, NEW sid \in DOMAIN servicePrice,
           NEW secret \in Secrets, NEW color, NEW value \in Amounts,
           pay(w, sid, secret, color, value)
    PROVE  \E coin \in Ledger!Coins : Ledger!pay(w, sid, secret, coin)
<1> DEFINE coin == [color |-> Ledger!CreditColor, value |-> value]
           owner == serviceOwner[sid]
<1>1. Handed(w, value) /\ value \in Nat
  BY PayOutcome
<1>2. /\ value = servicePrice[sid]
      /\ deriveReceipt(secret, sid) \notin receipts
      /\ receipts' = receipts \cup {deriveReceipt(secret, sid)}
      /\ UNCHANGED <<servicePrice, serviceOwner, reserve, night, paidOut, mintCounter>>
  BY DEF pay, registry, unshielded
<1>3. /\ Ledger!Balance(owner) + value \in Ledger!Uint64
      /\ merchantBalance' = Ledger!Insert(merchantBalance, owner, Ledger!Balance(owner) + value)
  BY DEF pay, Uint64, Ledger!Uint64, Insert, Ledger!Insert, Ledger!Balance
<1>4. MintNonces' = MintNonces
  BY <1>1 DEF Handed, MintNonces
<1>5. Holding[w] >= value /\ Holding' = [Holding EXCEPT ![w] = @ - value]
  BY <1>1 DEF Handed, Holding
<1>6. coin \in Ledger!Coins /\ coin.color = Ledger!CreditColor /\ coin.value = value
  BY DEF Ledger!Coins
<1> HIDE DEF coin, owner
<1>7. Ledger!CanFund(w, coin) /\ Ledger!Spent(w, coin) = Holding'
  BY <1>5, <1>6 DEF Ledger!CanFund, Ledger!Spent, Holding
<1>8. Ledger!pay(w, sid, secret, coin)
  BY <1>1, <1>2, <1>3, <1>4, <1>6, <1>7
     DEF Ledger!pay, Ledger!CoinAccepted, Ledger!Credited, Ledger!deriveReceipt, deriveReceipt,
         Ledger!registry, Ledger!mint, Holding, MintNonces, owner
<1>9. QED
  BY <1>6, <1>8

\* A redemption debits its caller by a coin of the value.
LEMMA RedeemRefines ==
    ASSUME KernelInv, NEW w \in Wallets, NEW color, NEW value \in Amounts,
           NEW recipient \in Addresses, redeem(w, color, value, recipient)
    PROVE  \E coin \in Ledger!Coins : Ledger!redeem(w, coin, recipient)
<1> DEFINE coin == [color |-> Ledger!CreditColor, value |-> value]
<1>1. /\ Handed(w, value) /\ value \in Nat
      /\ night' = [night EXCEPT ![recipient] = @ + value]
      /\ reserve >= value /\ reserve' = reserve - value
  BY RedeemOutcome
<1>2. /\ recipient # ZeroAddress /\ value > 0
      /\ UNCHANGED <<servicePrice, serviceOwner, receipts, merchantBalance, mintCounter, paidOut>>
  BY DEF redeem, registry
<1>3. MintNonces' = MintNonces
  BY <1>1 DEF Handed, MintNonces
<1>4. Holding[w] >= value /\ Holding' = [Holding EXCEPT ![w] = @ - value]
  BY <1>1 DEF Handed, Holding
<1>5. coin \in Ledger!Coins /\ coin.color = Ledger!CreditColor /\ coin.value = value
  BY DEF Ledger!Coins
<1> HIDE DEF coin
<1>6. Ledger!CanFund(w, coin) /\ Ledger!Spent(w, coin) = Holding'
  BY <1>4, <1>5 DEF Ledger!CanFund, Ledger!Spent, Holding
<1>7. Ledger!redeem(w, coin, recipient)
  BY <1>1, <1>2, <1>3, <1>5, <1>6
     DEF Ledger!redeem, Ledger!registry, Ledger!mint, Holding, MintNonces
<1>8. QED
  BY <1>5, <1>7

\* A withdrawal is one of the ledger.
LEMMA WithdrawRefines ==
    ASSUME KernelInv, NEW w \in Wallets, NEW sid \in DOMAIN serviceOwner,
           NEW amount \in Amounts, withdraw(w, sid, amount)
    PROVE  Ledger!withdraw(sid, amount)
<1>1. /\ night' = [night EXCEPT ![serviceOwner[sid]] = @ + amount]
      /\ reserve >= amount /\ reserve' = reserve - amount
  BY WithdrawOutcome
<1>2. UNCHANGED <<shielded, mintCounter>>
  BY DEF withdraw
<1>3. Minted' = Minted /\ Holding' = Holding
  BY <1>2, CoinsUnchanged DEF Holding
<1>4. QED
  BY <1>1, <1>2, <1>3 DEF withdraw, Ledger!withdraw, Ledger!Withdrawable, Ledger!Insert, Insert,
                         registry, Ledger!registry, Ledger!mint, Holding

\* A step on coins is a step on amounts, or none.
LEMMA StepRefines == KernelInv /\ [Next]_vars => [Ledger!Next]_(Ledger!vars)
<1> SUFFICES ASSUME KernelInv, [Next]_vars PROVE [Ledger!Next]_(Ledger!vars)
  OBVIOUS
<1>1. CASE UNCHANGED vars
  <2>1. Minted' = Minted /\ Holding' = Holding
    BY <1>1, CoinsUnchanged DEF vars, Holding
  <2>2. QED
    BY <1>1, <2>1 DEF vars, registry, unshielded, Ledger!vars, Ledger!registry, Ledger!mint,
                      Ledger!pool, Holding
<1>2. ASSUME NEW salt \in Salts, NEW price \in Prices, NEW owner \in Addresses,
             registerService(salt, price, owner)
      PROVE  Ledger!Next
  BY <1>2, RegisterRefines DEF Ledger!Next, Ledger!Addresses, Addresses
<1>3. ASSUME NEW w \in Wallets, NEW amount \in Amounts, NEW seed \in Seeds,
             mintCounter < MaxMints /\ deposit(w, amount, seed)
      PROVE  Ledger!Next
  BY <1>3, DepositRefines DEF Ledger!Next
<1>4. ASSUME NEW w \in Wallets, NEW sid \in DOMAIN servicePrice, NEW secret \in Secrets,
             NEW color, NEW value \in Amounts, pay(w, sid, secret, color, value)
      PROVE  Ledger!Next
  BY <1>4, PayRefines DEF Ledger!Next
<1>5. ASSUME NEW w \in Wallets, NEW color, NEW value \in Amounts, NEW recipient \in Addresses,
             redeem(w, color, value, recipient)
      PROVE  Ledger!Next
  BY <1>5, RedeemRefines DEF Ledger!Next, Ledger!Addresses, Addresses
<1>6. ASSUME NEW w \in Wallets, NEW sid \in DOMAIN serviceOwner, NEW amount \in Amounts,
             withdraw(w, sid, amount)
      PROVE  Ledger!Next
  BY <1>6, WithdrawRefines DEF Ledger!Next
<1>7. QED
  BY <1>1, <1>2, <1>3, <1>4, <1>5, <1>6 DEF Next

\* At deployment nobody holds credit and nothing was minted.
LEMMA InitRefines == Init => Ledger!Init
<1> SUFFICES ASSUME Init PROVE Ledger!Init
  OBVIOUS
<1>1. Minted = {} /\ \A w : Purse(w) = {}
  BY DEF Init, Minted, Purse, OfCredit, Unspent
<1>2. MintNonces = {} /\ Holding = [w \in Wallets |-> 0]
  BY <1>1, WorthEmpty DEF MintNonces, Holding
<1>3. QED
  BY <1>2 DEF Init, Ledger!Init, Addresses, Ledger!Addresses, MintNonces, Holding

\* The circuits on coins implement the ledger of amounts.
THEOREM Implementation == Spec => ImplementsLedger
<1>1. QED
  BY InitInv, InitRefines, StepInv, StepRefines, PTL DEF Spec, ImplementsLedger, Ledger!Spec

-----------------------------------------------------------------------------
(* What is proved of the ledger of amounts holds of the coins behind it.      *)

Promised == INSTANCE VaultProofs WITH
    credit <- Holding, nonces <- MintNonces, inflight <- {}, NoTx <- {}

\* The ledger's assumptions follow from the kernel's.
LEMMA LedgerAssumptions ==
    /\ Promised!WalletsAssumption
    /\ Promised!AmountsAssumption
    /\ Promised!MaxMintsAssumption
<1>1. Promised!WalletsAssumption
  BY KernelAddresses DEF Promised!WalletsAssumption, IsFiniteSet, Promised!IsFiniteSet
<1>2. Promised!AmountsAssumption /\ Promised!MaxMintsAssumption
  BY KernelAmounts DEF Promised!AmountsAssumption, Promised!MaxMintsAssumption
<1>3. QED
  BY <1>1, <1>2

\* The two instances of the ledger start in the same states.
LEMMA SameInit == Ledger!Init => Promised!Init
  BY DEF Ledger!Init, Promised!Init, Ledger!Addresses, Promised!Addresses, Holding, MintNonces

\* Their circuits are the same.
LEMMA SameNext == Ledger!Next => Promised!Next
  BY DEF Ledger!registry, Promised!registry, Ledger!pool, Promised!pool, Ledger!mint,
         Promised!mint, Ledger!Addresses, Promised!Addresses, Ledger!CreditColor,
         Promised!CreditColor, Ledger!ForeignColor, Promised!ForeignColor,
         Ledger!Uint64, Promised!Uint64, Ledger!Coins, Promised!Coins, Ledger!Insert, Promised!Insert, Ledger!Balance,
         Promised!Balance, Ledger!deriveServiceId, Promised!deriveServiceId,
         Ledger!deriveReceipt, Promised!deriveReceipt, Ledger!evolveNonce,
         Promised!evolveNonce, Ledger!CanFund, Promised!CanFund, Ledger!Spent,
         Promised!Spent, Ledger!CoinAccepted, Promised!CoinAccepted, Ledger!Credited,
         Promised!Credited, Ledger!Registrable, Promised!Registrable,
         Ledger!Withdrawable, Promised!Withdrawable, Ledger!registerService,
         Promised!registerService, Ledger!deposit, Promised!deposit, Ledger!pay,
         Promised!pay, Ledger!redeem, Promised!redeem, Ledger!withdraw,
         Promised!withdraw, Ledger!Next, Promised!Next, Holding, MintNonces

\* Sums are sums of either.
LEMMA SameTotal == \A f : Promised!Total(f) = Total(f) /\ Ledger!Total(f) = Total(f)
<1>1. \A S : Promised!Cardinality(S) = Cardinality(S) /\ Ledger!Cardinality(S) = Cardinality(S)
  BY DEF Promised!Cardinality, Ledger!Cardinality, Cardinality
<1>2. QED
  BY <1>1 DEF Promised!Total, Ledger!Total, Total, Promised!Units, Ledger!Units, Units

\* Circuits on coins do what the ledger promises.
LEMMA Promise == Spec => Promised!Spec
<1>1. Init => Promised!Init
  BY InitRefines, SameInit
<1>2. KernelInv /\ [Next]_vars => [Promised!Next]_(Promised!vars)
  <2> SUFFICES ASSUME KernelInv, [Next]_vars PROVE Promised!Next \/ UNCHANGED Promised!vars
    OBVIOUS
  <2>1. Ledger!Next \/ UNCHANGED Ledger!vars
    BY StepRefines
  <2>2. UNCHANGED Ledger!vars => UNCHANGED Promised!vars
    BY DEF Ledger!registry, Promised!registry, Ledger!pool, Promised!pool, Ledger!mint,
         Promised!mint, Ledger!vars, Promised!vars, Holding, MintNonces
  <2>3. QED
    BY <2>1, <2>2, SameNext
<1>3. QED
  BY <1>1, <1>2, InitInv, StepInv, PTL DEF Spec, Promised!Spec

\* The vault's NIGHT is what the wallets' coins are worth and the merchants have not yet
\* been paid out, to the unit.
THEOREM CoinSolvency == Spec => []Ledger!Backed
<1>1. Promised!WalletsAssumption /\ Promised!AmountsAssumption /\ Promised!MaxMintsAssumption
  BY LedgerAssumptions
<1>2. Promised!Spec => []Promised!Backed
  BY <1>1, Promised!Solvency, PTL
<1>3. Promised!Backed => Ledger!Backed
  BY SameTotal DEF Ledger!Backed, Promised!Backed, Ledger!Balances, Promised!Balances,
                   Ledger!Balance, Promised!Balance, Holding
<1>4. QED
  BY <1>2, <1>3, Promise, PTL

\* No NIGHT is made or burned, whichever coins pay for what.
THEOREM CoinNight == Spec => []Ledger!NightConserved
<1>1. Promised!WalletsAssumption /\ Promised!AmountsAssumption /\ Promised!MaxMintsAssumption
  BY LedgerAssumptions
<1>2. Promised!Spec => []Promised!NightConserved
  BY <1>1, Promised!Conservation, PTL
<1>3. Promised!NightConserved => Ledger!NightConserved
  BY SameTotal DEF Ledger!NightConserved, Promised!NightConserved, Ledger!Holdings,
                   Promised!Holdings
<1>4. QED
  BY <1>2, <1>3, Promise, PTL

\* Every price paid in coins is in its merchant's balance or was paid out to it.
THEOREM CoinRevenue == Spec => []Ledger!RevenueAccounted
<1>1. Promised!WalletsAssumption /\ Promised!AmountsAssumption /\ Promised!MaxMintsAssumption
  BY LedgerAssumptions
<1>2. Promised!Spec => []Promised!RevenueAccounted
  BY <1>1, Promised!RevenueCorrect, PTL
<1>3. Promised!RevenueAccounted => Ledger!RevenueAccounted
  BY SameTotal DEF Ledger!RevenueAccounted, Promised!RevenueAccounted, Ledger!Sales,
                   Promised!Sales, Ledger!Balance, Promised!Balance
<1>4. QED
  BY <1>2, <1>3, Promise, PTL

\* An id has the owner and the price it was derived from.
THEOREM CoinBinding == Spec => []Ledger!RegistrationBinds
<1>1. Promised!WalletsAssumption /\ Promised!AmountsAssumption /\ Promised!MaxMintsAssumption
  BY LedgerAssumptions
<1>2. Promised!Spec => []Promised!RegistrationBinds
  BY <1>1, Promised!Binding, PTL
<1>3. Promised!RegistrationBinds => Ledger!RegistrationBinds
  BY DEF Ledger!RegistrationBinds, Promised!RegistrationBinds, Ledger!Addresses,
         Promised!Addresses, Ledger!deriveServiceId, Promised!deriveServiceId
<1>4. QED
  BY <1>2, <1>3, Promise, PTL

\* Every deposit minted its coin under a nonce of its own, so there are as many nonces as
\* deposits, even when the witness returns a seed again.
THEOREM CoinFreshness == Spec => []Ledger!NoncesFresh
<1>1. Promised!WalletsAssumption /\ Promised!AmountsAssumption /\ Promised!MaxMintsAssumption
  BY LedgerAssumptions
<1>2. Promised!Spec => []Promised!NoncesFresh
  BY <1>1, Promised!Freshness, PTL
<1>3. Promised!NoncesFresh => Ledger!NoncesFresh
  BY DEF Ledger!NoncesFresh, Promised!NoncesFresh, Ledger!Cardinality, Promised!Cardinality,
         MintNonces
<1>4. QED
  BY <1>2, <1>3, Promise, PTL

\* Receipts and registrations stay, whichever coins pay for them.
THEOREM CoinImmutability == Spec => Promised!LedgerGrows
<1>1. Promised!WalletsAssumption /\ Promised!AmountsAssumption /\ Promised!MaxMintsAssumption
  BY LedgerAssumptions
<1>2. Promised!Spec => Promised!LedgerGrows
  BY <1>1, Promised!Immutability, PTL
<1>3. QED
  BY <1>2, Promise, PTL
=============================================================================

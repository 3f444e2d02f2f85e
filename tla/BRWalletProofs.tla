--------------------------- MODULE BRWalletProofs ---------------------------
(***************************************************************************)
(* The wallet, for every set of transactions, inputs, outputs, lock times, *)
(* gap limits and bounds.                                                  *)
(*                                                                         *)
(* Inv holds always: types, and a ledger that fits the list (what it       *)
(* leaves out is listed and unconfirmed, no utxo is spent by what it       *)
(* counts).                                                                *)
(*                                                                         *)
(* WalletInv needs restarts that recognise every row (SpecRecognized), as  *)
(* BRWalletUpdateTransactions may free a listed transaction otherwise. The *)
(* list stays sorted and known, the queue ends with the rows of the list,  *)
(* and the ledger adds up: confirmed transactions are counted first, so    *)
(* that an unconfirmed one is never valid beside one it conflicts with.    *)
(*                                                                         *)
(* SessionInv is about one session (SpecSession), as a restart or a rescan *)
(* may go back below confirmed transactions without a word to the wallet:  *)
(* listed transactions have the heights of the followed chain, so that two *)
(* confirmed ones never conflict and a removal finds every dependent.      *)
(***************************************************************************)
EXTENDS BRWallet, InductionLemmas

(***************************************************************************)
(* Maxima, and the list operators of the community modules.                *)
(***************************************************************************)
\* Max of a nonempty bounded set of naturals is its greatest element.
LEMMA MaxInSet ==
    ASSUME NEW S, S \subseteq Nat, S # {}, NEW n \in Nat, \A m \in S : m <= n
    PROVE  Max(S) \in S /\ \A m \in S : m <= Max(S)
<1>1. PICK x \in S : \A m \in S : m <= x
  BY GreatestNumber
<1>2. \A y \in S : x >= y
  BY <1>1
<1>3. Max(S) \in S /\ \A y \in S : Max(S) >= y
  BY <1>1, <1>2 DEF Max
<1> QED BY <1>3

\* Min of a nonempty set of naturals is its least element.
LEMMA MinInSet ==
    ASSUME NEW S, S \subseteq Nat, S # {}
    PROVE  Min(S) \in S /\ \A m \in S : Min(S) <= m
<1>1. PICK x \in S : \A m \in S : x <= m
  BY LeastNumber
<1> QED BY <1>1 DEF Min

\* the last of a set of positions, or 0
LastOf(I) == IF I # {} THEN Max(I) ELSE 0

\* It is in the set unless the set is empty, and no later position is.
LEMMA LastPosition ==
    ASSUME NEW n \in Nat, NEW I \in SUBSET (1..n)
    PROVE  /\ LastOf(I) \in 0..n
           /\ LastOf(I) \in I \/ (I = {} /\ LastOf(I) = 0)
           /\ \A i \in 1..n : i > LastOf(I) => i \notin I
<1>1. CASE I = {}
  BY <1>1 DEF LastOf
<1>2. CASE I # {}
  <2>1. I \subseteq Nat /\ \A m \in I : m <= n
    OBVIOUS
  <2>2. Max(I) \in I /\ \A m \in I : m <= Max(I)
    BY <1>2, <2>1, MaxInSet
  <2>3. LastOf(I) = Max(I)
    BY <1>2 DEF LastOf
  <2>4. ASSUME NEW i \in 1..n, i > LastOf(I), i \in I PROVE FALSE
    <3>1. i <= Max(I) /\ Max(I) \in Nat
      BY <2>1, <2>2, <2>4
    <3> QED BY <2>3, <2>4, <3>1
  <2>5. Max(I) \in 1..n
    BY <2>2
  <2>6. LastOf(I) \in 0..n /\ LastOf(I) \in I
    BY <2>2, <2>3, <2>5
  <2> HIDE DEF LastOf
  <2> QED BY <2>4, <2>6
<1> QED BY <1>1, <1>2

\* InsertAt puts e at position k and moves the rest up.
LEMMA Inserted ==
    ASSUME NEW S, NEW s \in Seq(S), NEW e \in S, NEW k \in 1..(Len(s) + 1)
    PROVE  /\ InsertAt(s, k, e) \in Seq(S)
           /\ Len(InsertAt(s, k, e)) = Len(s) + 1
           /\ \A i \in 1..(Len(s) + 1) :
                 InsertAt(s, k, e)[i] = IF i < k THEN s[i] ELSE IF i = k THEN e ELSE s[i - 1]
<1> DEFINE a == SubSeq(s, 1, k - 1)
           b == SubSeq(s, k, Len(s))
<1>1. Len(s) \in Nat /\ k \in Nat /\ k >= 1 /\ k <= Len(s) + 1
  OBVIOUS
<1>2. a \in Seq(S) /\ Len(a) = k - 1 /\ \A i \in 1..(k - 1) : a[i] = s[i]
  BY <1>1
<1>3. b \in Seq(S) /\ Len(b) = Len(s) + 1 - k /\ \A i \in 1..(Len(s) + 1 - k) : b[i] = s[(k + i) - 1]
  BY <1>1
<1>4. InsertAt(s, k, e) = (a \o <<e>>) \o b
  BY DEF InsertAt
<1> HIDE DEF a, b
<1> DEFINE c == a \o <<e>>
<1>5. c \in Seq(S) /\ Len(c) = k /\ (\A i \in 1..(k - 1) : c[i] = s[i]) /\ c[k] = e
  BY <1>1, <1>2
<1> HIDE DEF c
<1> DEFINE d == c \o b
<1>6. d \in Seq(S) /\ Len(d) = Len(s) + 1
  BY <1>1, <1>3, <1>5
<1>7. ASSUME NEW i \in 1..(Len(s) + 1)
      PROVE  d[i] = IF i < k THEN s[i] ELSE IF i = k THEN e ELSE s[i - 1]
  <2>1. CASE i <= k
    BY <1>1, <1>3, <1>5, <2>1
  <2>2. CASE i > k
    <3>1. i - k \in 1..(Len(s) + 1 - k) /\ d[i] = b[i - k]
      BY <1>1, <1>3, <1>5, <2>2
    <3>2. b[i - k] = s[(k + (i - k)) - 1]
      BY <1>3, <3>1
    <3>3. (k + (i - k)) - 1 = i - 1
      BY <1>1
    <3> QED BY <2>2, <3>1, <3>2, <3>3, <1>1
  <2>3. i \in Nat
    OBVIOUS
  <2> HIDE DEF d
  <2> QED BY <1>1, <2>1, <2>2, <2>3
<1> HIDE DEF d
<1>8. InsertAt(s, k, e) = d
  BY <1>4 DEF c, d
<1> QED BY <1>6, <1>7, <1>8

\* RemoveAt moves what is behind position k down.
LEMMA Removed ==
    ASSUME NEW S, NEW s \in Seq(S), NEW k \in 1..Len(s)
    PROVE  /\ RemoveAt(s, k) \in Seq(S)
           /\ Len(RemoveAt(s, k)) = Len(s) - 1
           /\ \A i \in 1..(Len(s) - 1) : RemoveAt(s, k)[i] = IF i < k THEN s[i] ELSE s[i + 1]
<1> DEFINE a == SubSeq(s, 1, k - 1)
           b == SubSeq(s, k + 1, Len(s))
<1>1. Len(s) \in Nat /\ k \in Nat /\ k >= 1 /\ k <= Len(s)
  OBVIOUS
<1>2. a \in Seq(S) /\ Len(a) = k - 1 /\ \A i \in 1..(k - 1) : a[i] = s[i]
  BY <1>1
<1>3. b \in Seq(S) /\ Len(b) = Len(s) - k /\ \A i \in 1..(Len(s) - k) : b[i] = s[k + i]
  BY <1>1
<1>4. RemoveAt(s, k) = a \o b
  BY DEF RemoveAt
<1> HIDE DEF a, b
<1> DEFINE d == a \o b
<1>5. d \in Seq(S) /\ Len(d) = Len(s) - 1
  <2>1. a \in Seq(S) /\ b \in Seq(S)
    BY <1>2, <1>3
  <2>3. d \in Seq(S) /\ Len(d) = Len(a) + Len(b)
    BY <2>1
  <2>2. (k - 1) + (Len(s) - k) = Len(s) - 1
    BY <1>1
  <2> QED BY <1>2, <1>3, <2>2, <2>3
<1>6. ASSUME NEW i \in 1..(Len(s) - 1)
      PROVE  d[i] = IF i < k THEN s[i] ELSE s[i + 1]
  <2>1. CASE i < k
    BY <1>1, <1>2, <1>3, <2>1
  <2>2. CASE ~(i < k)
    <3>1. (i - k) + 1 \in 1..(Len(s) - k) /\ d[i] = b[(i - k) + 1]
      BY <1>1, <1>2, <1>3, <2>2
    <3>2. b[(i - k) + 1] = s[k + ((i - k) + 1)]
      BY <1>3, <3>1
    <3>3. k + ((i - k) + 1) = i + 1
      BY <1>1
    <3> QED BY <2>2, <3>1, <3>2, <3>3
  <2> QED BY <2>1, <2>2
<1> HIDE DEF d
<1>7. RemoveAt(s, k) = d
  BY <1>4 DEF d
<1> QED BY <1>5, <1>6, <1>7

(***************************************************************************)
(* The recursions over the parents of a transaction. tlapm takes such a    *)
(* function for some solution of its equation, so that one has to exist.   *)
(***************************************************************************)
\* There is a least set that has base, and with a parent of an element of steps that element.
LEMMA LeastClosure ==
    ASSUME NEW T, NEW base \in SUBSET T, NEW steps \in SUBSET T, NEW par \in [T -> SUBSET T]
    PROVE  \E A \in SUBSET T : \A t \in T : t \in A <=> t \in base \/ (t \in steps /\ par[t] \cap A # {})
<1> DEFINE F(S) == {t \in T : t \in base \/ (t \in steps /\ par[t] \cap S # {})}
           A == {t \in T : \A S \in SUBSET T : F(S) \subseteq S => t \in S}
<1>1. A \in SUBSET T
  OBVIOUS
<1>2. ASSUME NEW S \in SUBSET T, NEW R \in SUBSET T, R \subseteq S
      PROVE  F(R) \subseteq F(S)
  BY <1>2
<1>3. F(A) \subseteq A
  <2> SUFFICES ASSUME NEW t \in F(A), NEW S \in SUBSET T, F(S) \subseteq S
               PROVE  t \in S
    OBVIOUS
  <2>1. A \subseteq S
    OBVIOUS
  <2>2. F(A) \subseteq F(S)
    <3> HIDE DEF A, F
    <3> QED BY <1>1, <1>2, <2>1
  <2> HIDE DEF F
  <2> QED BY <2>2
<1>4. A \subseteq F(A)
  <2>1. F(A) \in SUBSET T
    OBVIOUS
  <2>2. F(F(A)) \subseteq F(A)
    <3> HIDE DEF A, F
    <3> QED BY <1>1, <1>2, <1>3, <2>1
  <2> QED BY <2>1, <2>2
<1>5. A = F(A)
  <2> HIDE DEF A, F
  <2> QED BY <1>3, <1>4
<1> HIDE DEF A
<1>6. \A t \in T : t \in A <=> t \in base \/ (t \in steps /\ par[t] \cap A # {})
  <2>1. \A t \in T : t \in A <=> t \in F(A)
    BY <1>5
  <2> QED BY <2>1
<1> QED BY <1>1, <1>6

\* A transaction that belongs after another one is not below it, and one that is above it belongs after it.
LEMMA AscendingHeights ==
    ASSUME NEW tx1 \in Txs, NEW tx2 \in Txs, NEW hts, NEW all \in SUBSET Txs
    PROVE  /\ TxIsAscending(tx1, tx2, hts, all) => hts[tx1] > hts[tx2] \/ hts[tx1] = hts[tx2]
           /\ hts[tx1] > hts[tx2] => TxIsAscending(tx1, tx2, hts, all)
<1> DEFINE base == {t \in Txs : hts[t] > hts[tx2] \/ (hts[t] = hts[tx2] /\ tx2 \in ParentsOf(t))}
           steps == {t \in Txs : hts[t] = hts[tx2] /\ t \notin ParentsOf(tx2)}
           par == [t \in Txs |-> ParentsOf(t) \cap all]
           E(f) == [t \in Txs |-> \/ hts[t] > hts[tx2]
                                  \/ /\ hts[t] = hts[tx2]
                                     /\ \/ tx2 \in ParentsOf(t)
                                        \/ /\ t \notin ParentsOf(tx2)
                                           /\ \E p \in ParentsOf(t) \cap all : f[p]]
<1>1. base \in SUBSET Txs /\ steps \in SUBSET Txs /\ par \in [Txs -> SUBSET Txs]
  OBVIOUS
<1>2. PICK A \in SUBSET Txs : \A t \in Txs : t \in A <=> t \in base \/ (t \in steps /\ par[t] \cap A # {})
  <2> HIDE DEF base, steps, par
  <2>1. \A B, C \in SUBSET Txs, q \in [Txs -> SUBSET Txs] : \E A \in SUBSET Txs :
           \A t \in Txs : t \in A <=> t \in B \/ (t \in C /\ q[t] \cap A # {})
    BY LeastClosure
  <2>2. \A q \in [Txs -> SUBSET Txs] : \E A \in SUBSET Txs :
           \A t \in Txs : t \in A <=> t \in base \/ (t \in steps /\ q[t] \cap A # {})
    BY <1>1, <2>1
  <2> QED BY <1>1, <2>2
<1> DEFINE g == [t \in Txs |-> t \in A]
<1>3. g = E(g)
  <2>1. ASSUME NEW t \in Txs
        PROVE  g[t] = E(g)[t]
    <3>1. g[t] = (t \in A)
      OBVIOUS
    <3>2. (\E p \in ParentsOf(t) \cap all : g[p]) <=> par[t] \cap A # {}
      OBVIOUS
    <3>3. E(g)[t] = (t \in base \/ (t \in steps /\ par[t] \cap A # {}))
      <4> HIDE DEF g
      <4>1. E(g)[t] = (\/ hts[t] > hts[tx2]
                       \/ /\ hts[t] = hts[tx2]
                          /\ \/ tx2 \in ParentsOf(t)
                             \/ /\ t \notin ParentsOf(tx2)
                                /\ \E p \in ParentsOf(t) \cap all : g[p])
        OBVIOUS
      <4>2. t \in base <=> hts[t] > hts[tx2] \/ (hts[t] = hts[tx2] /\ tx2 \in ParentsOf(t))
        OBVIOUS
      <4>3. t \in steps <=> hts[t] = hts[tx2] /\ t \notin ParentsOf(tx2)
        OBVIOUS
      <4> HIDE DEF base, steps, par
      <4> QED BY <3>2, <4>1, <4>2, <4>3
    <3> HIDE DEF g, E, base, steps, par
    <3> QED BY <1>2, <3>1, <3>3
  <2>2. g = [t \in Txs |-> g[t]] /\ E(g) = [t \in Txs |-> E(g)[t]]
    OBVIOUS
  <2> HIDE DEF g, E
  <2> QED BY <2>1, <2>2
<1> DEFINE f == CHOOSE h : h = E(h)
<1>4. f = E(f)
  <2> HIDE DEF E, g
  <2> QED BY <1>3
<1>5. TxIsAscending(tx1, tx2, hts, all) = f[tx1]
  BY DEF TxIsAscending
<1>6. f[tx1] = E(f)[tx1]
  <2> HIDE DEF f, E
  <2> QED BY <1>4
<1> HIDE DEF f
<1> QED BY <1>5, <1>6

(***************************************************************************)
(* The list of transactions: inserting, removing, sorting.                 *)
(***************************************************************************)
HeightMaps == [Txs -> Heights]
Sorted(list, hts) == \A i, j \in DOMAIN list : i <= j => hts[list[i]] <= hts[list[j]]

\* The heights of transactions are naturals up to Unconfirmed.
LEMMA HeightTypes ==
    /\ MaxHeight \in Nat /\ Unconfirmed \in Nat /\ MaxHeight < Unconfirmed
    /\ Heights \subseteq Nat
    /\ \A h \in Heights : h <= Unconfirmed /\ (h # Unconfirmed => h < Unconfirmed)
    /\ \A hts \in HeightMaps, t \in Txs : hts[t] \in Heights /\ hts[t] \in Nat
<1>1. MaxHeight \in Nat /\ Unconfirmed \in Nat /\ MaxHeight < Unconfirmed
  BY ConstantsAssumption
<1>2. Heights \subseteq Nat /\ \A h \in Heights : h <= Unconfirmed /\ (h # Unconfirmed => h < Unconfirmed)
  BY <1>1 DEF Heights
<1>3. \A hts \in HeightMaps, t \in Txs : hts[t] \in Heights
  BY DEF HeightMaps
<1> QED BY <1>1, <1>2, <1>3

\* The elements of a sequence.
LEMMA ToSetIs ==
    ASSUME NEW S, NEW s \in Seq(S)
    PROVE  /\ ToSet(s) \subseteq S
           /\ \A x : x \in ToSet(s) <=> \E i \in 1..Len(s) : s[i] = x
<1>1. DOMAIN s = 1..Len(s) /\ \A i \in 1..Len(s) : s[i] \in S
  OBVIOUS
<1> QED BY <1>1 DEF ToSet

\* What _BRWalletTxCompare says of heights.
LEMMA CompareHeights ==
    ASSUME NEW u \in Txs, NEW t \in Txs, NEW hts \in HeightMaps, NEW all \in SUBSET Txs, NEW len
    PROVE  /\ TxCompareGreater(u, t, hts, all, len) => hts[t] <= hts[u]
           /\ ~ TxCompareGreater(u, t, hts, all, len) => hts[u] <= hts[t]
<1>1. hts[u] \in Nat /\ hts[t] \in Nat
  BY HeightTypes
<1>2. /\ TxIsAscending(u, t, hts, all) => hts[u] > hts[t] \/ hts[u] = hts[t]
      /\ hts[u] > hts[t] => TxIsAscending(u, t, hts, all)
      /\ hts[t] > hts[u] => TxIsAscending(t, u, hts, all)
  BY AscendingHeights
<1>3. /\ TxCompareGreater(u, t, hts, all, len) => TxIsAscending(u, t, hts, all) \/ ~ TxIsAscending(t, u, hts, all)
      /\ TxIsAscending(u, t, hts, all) => TxCompareGreater(u, t, hts, all, len)
  BY DEF TxCompareGreater
<1> QED BY <1>1, <1>2, <1>3

\* _BRWalletInsertTx adds t once and keeps the list sorted.
LEMMA InsertKeeps ==
    ASSUME NEW list \in Seq(Txs), NEW t \in Txs, NEW hts \in HeightMaps, NEW all \in SUBSET Txs, NEW len
    PROVE  /\ InsertTx(list, t, hts, all, len) \in Seq(Txs)
           /\ Len(InsertTx(list, t, hts, all, len)) = Len(list) + 1
           /\ ToSet(InsertTx(list, t, hts, all, len)) = ToSet(list) \cup {t}
           /\ IsInjective(list) /\ t \notin ToSet(list) => IsInjective(InsertTx(list, t, hts, all, len))
           /\ Sorted(list, hts) => Sorted(InsertTx(list, t, hts, all, len), hts)
<1> DEFINE r == InsertTx(list, t, hts, all, len)
           n == Len(list)
           I == {i \in 1..n : ~ TxCompareGreater(list[i], t, hts, all, len)}
           k == LastOf(I)
<1>1. n \in Nat /\ DOMAIN list = 1..n /\ \A i \in 1..n : list[i] \in Txs
  OBVIOUS
<1>2. r = InsertAt(list, k + 1, t)
  BY DEF InsertTx, SelectLastInSeq, LastOf
<1>3. k \in 0..n /\ (k \in I \/ k = 0) /\ \A i \in 1..n : i > k => i \notin I
  <2>1. I \in SUBSET (1..n)
    OBVIOUS
  <2> HIDE DEF I, n
  <2> QED BY <1>1, <2>1, LastPosition
<1>4. \A i \in 1..n : /\ i \in I => hts[list[i]] <= hts[t]
                      /\ i \notin I => hts[t] <= hts[list[i]]
  <2>1. ASSUME NEW i \in 1..n
        PROVE  /\ i \in I => hts[list[i]] <= hts[t]
               /\ i \notin I => hts[t] <= hts[list[i]]
    BY <1>1, CompareHeights
  <2> QED BY <2>1
<1> HIDE DEF I, k
<1>5. /\ r \in Seq(Txs) /\ Len(r) = n + 1
      /\ \A i \in 1..(n + 1) : r[i] = IF i < k + 1 THEN list[i] ELSE IF i = k + 1 THEN t ELSE list[i - 1]
  <2>1. k + 1 \in 1..(Len(list) + 1)
    BY <1>1, <1>3
  <2> HIDE DEF r
  <2>2. \A m \in 1..(Len(list) + 1) :
           /\ InsertAt(list, m, t) \in Seq(Txs) /\ Len(InsertAt(list, m, t)) = Len(list) + 1
           /\ \A i \in 1..(Len(list) + 1) :
                 InsertAt(list, m, t)[i] = IF i < m THEN list[i] ELSE IF i = m THEN t ELSE list[i - 1]
    BY Inserted
  <2> QED BY <1>2, <2>1, <2>2
<1> HIDE DEF r, n
<1>6. DOMAIN r = 1..(n + 1)
  BY <1>5
<1>7. \A i \in 1..n : list[i] = r[IF i < k + 1 THEN i ELSE i + 1] /\ (IF i < k + 1 THEN i ELSE i + 1) \in 1..(n + 1)
  BY <1>1, <1>3, <1>5
<1>8. r[k + 1] = t /\ k + 1 \in 1..(n + 1)
  BY <1>1, <1>3, <1>5
<1>9. ToSet(r) = ToSet(list) \cup {t}
  <2>1. ASSUME NEW x \in ToSet(r) PROVE x \in ToSet(list) \cup {t}
    <3>1. PICK i \in 1..(n + 1) : r[i] = x
      BY <1>6 DEF ToSet
    <3>2. CASE i < k + 1
      <4>1. r[i] = list[i] /\ i \in DOMAIN list
        BY <1>1, <1>3, <1>5, <3>2
      <4> QED BY <3>1, <4>1 DEF ToSet
    <3>3. CASE i = k + 1
      BY <1>8, <3>1, <3>3
    <3>4. CASE i > k + 1
      <4>1. i - 1 \in 1..n /\ r[i] = list[i - 1]
        BY <1>1, <1>3, <1>5, <3>4
      <4> QED BY <1>1, <3>1, <4>1 DEF ToSet
    <3> QED BY <1>1, <1>3, <3>2, <3>3, <3>4
  <2>2. ASSUME NEW x \in ToSet(list) PROVE x \in ToSet(r)
    <3>1. PICK i \in 1..n : list[i] = x
      BY <1>1 DEF ToSet
    <3> QED BY <1>6, <1>7, <3>1 DEF ToSet
  <2>3. t \in ToSet(r)
    BY <1>6, <1>8 DEF ToSet
  <2> QED BY <2>1, <2>2, <2>3
<1>10. ASSUME IsInjective(list), t \notin ToSet(list) PROVE IsInjective(r)
  <2>1. ASSUME NEW i \in 1..(n + 1), NEW j \in 1..(n + 1), r[i] = r[j] PROVE i = j
    <3>1. \A x \in 1..n : list[x] # t
      BY <1>1, <1>10 DEF ToSet
    <3>2. \A x, y \in 1..n : list[x] = list[y] => x = y
      BY <1>1, <1>10 DEF IsInjective
    <3>3. \A x \in 1..(n + 1) : \/ x < k + 1 /\ x \in 1..n /\ r[x] = list[x]
                                \/ x = k + 1 /\ r[x] = t
                                \/ x > k + 1 /\ x - 1 \in 1..n /\ r[x] = list[x - 1]
      BY <1>1, <1>3, <1>5
    <3>4. i \in Nat /\ j \in Nat /\ k \in Nat
      BY <1>3, <1>1
    <3> DEFINE Lo(x) == x < k + 1 /\ x \in 1..n /\ r[x] = list[x]
               Hi(x) == x > k + 1 /\ x - 1 \in 1..n /\ r[x] = list[x - 1]
    <3>5. ASSUME Lo(i) PROVE i = j
      <4>1. CASE Lo(j)
        BY <2>1, <3>2, <3>5, <4>1
      <4>2. CASE j = k + 1 /\ r[j] = t
        BY <2>1, <3>1, <3>5, <4>2
      <4>3. CASE Hi(j)
        <5>1. i = j - 1
          BY <2>1, <3>2, <3>5, <4>3
        <5> QED BY <3>4, <3>5, <4>3, <5>1
      <4> QED BY <3>3, <4>1, <4>2, <4>3
    <3>6. CASE i = k + 1 /\ r[i] = t
      BY <2>1, <3>1, <3>3, <3>6
    <3>7. ASSUME Hi(i) PROVE i = j
      <4>1. CASE Lo(j)
        <5>1. i - 1 = j
          BY <2>1, <3>2, <3>7, <4>1
        <5> QED BY <3>4, <3>7, <4>1, <5>1
      <4>2. CASE j = k + 1 /\ r[j] = t
        BY <2>1, <3>1, <3>7, <4>2
      <4>3. CASE Hi(j)
        <5>1. i - 1 = j - 1
          BY <2>1, <3>2, <3>7, <4>3
        <5> QED BY <3>4, <5>1
      <4> QED BY <3>3, <4>1, <4>2, <4>3
    <3> QED BY <3>3, <3>5, <3>6, <3>7
  <2> QED BY <1>6, <2>1 DEF IsInjective
<1>11. ASSUME Sorted(list, hts) PROVE Sorted(r, hts)
  <2>1. \A x, y \in 1..n : x <= y => hts[list[x]] <= hts[list[y]]
    BY <1>1, <1>11 DEF Sorted
  <2>2. \A x \in 1..n : x <= k => hts[list[x]] <= hts[t]
    <3> SUFFICES ASSUME NEW x \in 1..n, x <= k PROVE hts[list[x]] <= hts[t]
      OBVIOUS
    <3>1. k \in 1..n /\ k \in I
      BY <1>1, <1>3
    <3>2. hts[list[x]] <= hts[list[k]] /\ hts[list[k]] <= hts[t]
      BY <1>4, <2>1, <3>1
    <3>3. hts[list[x]] \in Nat /\ hts[list[k]] \in Nat /\ hts[t] \in Nat
      BY <1>1, <3>1, HeightTypes
    <3> QED BY <3>2, <3>3
  <2>3. \A x \in 1..n : x > k => hts[t] <= hts[list[x]]
    BY <1>3, <1>4
  <2>4. ASSUME NEW i \in 1..(n + 1), NEW j \in 1..(n + 1), i <= j PROVE hts[r[i]] <= hts[r[j]]
    <3>1. \A x \in 1..(n + 1) : \/ x < k + 1 /\ x \in 1..n /\ r[x] = list[x]
                                \/ x = k + 1 /\ r[x] = t
                                \/ x > k + 1 /\ x - 1 \in 1..n /\ r[x] = list[x - 1]
      BY <1>1, <1>3, <1>5
    <3>2. i \in Nat /\ j \in Nat /\ k \in Nat /\ hts[t] \in Nat
      BY <1>3, <1>1, HeightTypes
    <3>3. CASE i < k + 1 /\ i \in 1..n /\ r[i] = list[i]
      <4>1. CASE j < k + 1 /\ j \in 1..n /\ r[j] = list[j]
        BY <2>1, <2>4, <3>3, <4>1
      <4>2. CASE j = k + 1 /\ r[j] = t
        BY <2>2, <3>2, <3>3, <4>2
      <4>3. CASE j > k + 1 /\ j - 1 \in 1..n /\ r[j] = list[j - 1]
        <5>1. i <= j - 1
          BY <3>2, <3>3, <4>3
        <5> QED BY <2>1, <3>3, <4>3, <5>1
      <4> QED BY <3>1, <4>1, <4>2, <4>3
    <3>4. CASE i = k + 1 /\ r[i] = t
      <4>1. CASE j = k + 1 /\ r[j] = t
        BY <3>2, <3>4, <4>1
      <4>2. CASE j > k + 1 /\ j - 1 \in 1..n /\ r[j] = list[j - 1]
        <5>1. j - 1 > k
          BY <3>2, <4>2
        <5> QED BY <2>3, <3>4, <4>2, <5>1
      <4> QED BY <2>4, <3>1, <3>2, <3>4, <4>1, <4>2
    <3>5. CASE i > k + 1 /\ i - 1 \in 1..n /\ r[i] = list[i - 1]
      <4>1. j > k + 1
        BY <2>4, <3>2, <3>5
      <4>2. j - 1 \in 1..n /\ r[j] = list[j - 1] /\ i - 1 <= j - 1
        BY <2>4, <3>1, <3>2, <4>1
      <4> QED BY <2>1, <3>5, <4>2
    <3> QED BY <3>1, <3>3, <3>4, <3>5
  <2> QED BY <1>6, <2>4 DEF Sorted
<1> QED BY <1>5, <1>9, <1>10, <1>11 DEF r, n

\* array_rm takes one entry of t, which is the only one when no transaction is listed twice.
LEMMA RemoveKeeps ==
    ASSUME NEW list \in Seq(Txs), NEW t
    PROVE  /\ RemoveTx(list, t) \in Seq(Txs)
           /\ t \in ToSet(list) => Len(RemoveTx(list, t)) = Len(list) - 1
           /\ ToSet(RemoveTx(list, t)) \subseteq ToSet(list) /\ ToSet(list) \subseteq ToSet(RemoveTx(list, t)) \cup {t}
           /\ IsInjective(list) => IsInjective(RemoveTx(list, t)) /\ t \notin ToSet(RemoveTx(list, t))
           /\ \A hts : Sorted(list, hts) => Sorted(RemoveTx(list, t), hts)
<1>1. CASE t \notin ToSet(list)
  <2>1. RemoveTx(list, t) = list
    BY <1>1 DEF RemoveTx
  <2> QED BY <1>1, <2>1
<1>2. CASE t \in ToSet(list)
  <2> DEFINE r == RemoveTx(list, t)
             n == Len(list)
             I == {i \in 1..n : list[i] = t}
             k == LastOf(I)
  <2>1. n \in Nat /\ DOMAIN list = 1..n /\ \A i \in 1..n : list[i] \in Txs
    OBVIOUS
  <2>2. r = RemoveAt(list, k)
    BY <1>2 DEF RemoveTx, SelectLastInSeq, LastOf
  <2>3. I \in SUBSET (1..n) /\ I # {}
    BY <1>2, <2>1 DEF ToSet
  <2>4. k \in 1..n /\ list[k] = t
    <3>1. k \in I
      <4> HIDE DEF I, n
      <4> QED BY <2>1, <2>3, LastPosition
    <3> QED BY <3>1
  <2> HIDE DEF I, k
  <2>5. /\ r \in Seq(Txs) /\ Len(r) = n - 1
        /\ \A i \in 1..(n - 1) : r[i] = IF i < k THEN list[i] ELSE list[i + 1]
    <3> HIDE DEF r
    <3>1. \A m \in 1..Len(list) :
             /\ RemoveAt(list, m) \in Seq(Txs) /\ Len(RemoveAt(list, m)) = Len(list) - 1
             /\ \A i \in 1..(Len(list) - 1) : RemoveAt(list, m)[i] = IF i < m THEN list[i] ELSE list[i + 1]
      BY Removed
    <3> QED BY <2>2, <2>4, <3>1
  <2> HIDE DEF r, n
  <2>6. DOMAIN r = 1..(n - 1)
    BY <2>5
  <2> DEFINE at(i) == IF i < k THEN i ELSE i + 1
  <2>7. \A i \in 1..(n - 1) : at(i) \in 1..n /\ at(i) # k /\ r[i] = list[at(i)]
    BY <2>1, <2>4, <2>5
  <2>8. \A i, j \in 1..(n - 1) : (i <= j => at(i) <= at(j)) /\ (at(i) = at(j) => i = j)
    BY <2>1, <2>4
  <2>9. \A m \in 1..n : m # k => \E i \in 1..(n - 1) : at(i) = m
    <3> SUFFICES ASSUME NEW m \in 1..n, m # k PROVE \E i \in 1..(n - 1) : at(i) = m
      OBVIOUS
    <3>1. CASE m < k
      BY <2>1, <2>4, <3>1
    <3>2. CASE m > k
      <4>1. m - 1 \in 1..(n - 1) /\ at(m - 1) = m
        BY <2>1, <2>4, <3>2
      <4> QED BY <4>1
    <3> QED BY <2>1, <2>4, <3>1, <3>2
  <2> HIDE DEF at
  <2>10. ToSet(r) \subseteq ToSet(list)
    BY <2>1, <2>6, <2>7 DEF ToSet
  <2>11. ToSet(list) \subseteq ToSet(r) \cup {t}
    <3> SUFFICES ASSUME NEW x \in ToSet(list), x # t PROVE x \in ToSet(r)
      OBVIOUS
    <3>1. PICK m \in 1..n : list[m] = x
      BY <2>1 DEF ToSet
    <3>2. m # k
      BY <2>4, <3>1
    <3>3. PICK i \in 1..(n - 1) : at(i) = m
      BY <2>9, <3>2
    <3> QED BY <2>6, <2>7, <3>1, <3>3 DEF ToSet
  <2>12. ASSUME IsInjective(list) PROVE IsInjective(r) /\ t \notin ToSet(r)
    <3>1. \A x, y \in 1..n : list[x] = list[y] => x = y
      BY <2>1, <2>12 DEF IsInjective
    <3>2. \A i, j \in 1..(n - 1) : r[i] = r[j] => i = j
      BY <2>7, <2>8, <3>1
    <3>3. \A i \in 1..(n - 1) : r[i] # t
      BY <2>4, <2>7, <3>1
    <3> QED BY <2>6, <3>2, <3>3 DEF IsInjective, ToSet
  <2>13. ASSUME NEW hts, Sorted(list, hts) PROVE Sorted(r, hts)
    <3>1. \A x, y \in 1..n : x <= y => hts[list[x]] <= hts[list[y]]
      BY <2>1, <2>13 DEF Sorted
    <3>2. \A i, j \in 1..(n - 1) : i <= j => hts[r[i]] <= hts[r[j]]
      BY <2>7, <2>8, <3>1
    <3> QED BY <2>6, <3>2 DEF Sorted
  <2> QED BY <2>5, <2>10, <2>11, <2>12, <2>13 DEF r, n
<1> QED BY <1>1, <1>2

\* Sorted depends on the heights of listed transactions only.
LEMMA SortedSame ==
    ASSUME NEW list \in Seq(Txs), NEW h1, NEW h2, \A t \in ToSet(list) : h1[t] = h2[t], Sorted(list, h1)
    PROVE  Sorted(list, h2)
<1>1. \A i \in DOMAIN list : list[i] \in ToSet(list)
  BY DEF ToSet
<1> QED BY <1>1 DEF Sorted

\* "remove and re-insert tx to keep wallet sorted": it does when t is listed once, and the same transactions are listed.
LEMMA ReinsertKeeps ==
    ASSUME NEW list \in Seq(Txs), NEW t \in Txs, NEW h1 \in HeightMaps, NEW h2 \in HeightMaps,
           NEW all \in SUBSET Txs, NEW len, \A u \in Txs : u # t => h1[u] = h2[u]
    PROVE  /\ Reinsert(list, t, h2, all, len) \in Seq(Txs)
           /\ Len(Reinsert(list, t, h2, all, len)) = Len(list)
           /\ ToSet(Reinsert(list, t, h2, all, len)) = ToSet(list)
           /\ IsInjective(list) => IsInjective(Reinsert(list, t, h2, all, len))
           /\ IsInjective(list) /\ Sorted(list, h1) => Sorted(Reinsert(list, t, h2, all, len), h2)
<1>1. CASE t \notin ToSet(list)
  <2>1. Reinsert(list, t, h2, all, len) = list
    BY <1>1 DEF Reinsert
  <2>2. \A u \in ToSet(list) : h1[u] = h2[u]
    BY <1>1, ToSetIs
  <2>3. Sorted(list, h1) => Sorted(list, h2)
    BY <2>2, SortedSame
  <2> QED BY <2>1, <2>3
<1>2. CASE t \in ToSet(list)
  <2> DEFINE q == RemoveTx(list, t)
             r == InsertTx(q, t, h2, all, len)
  <2>1. Reinsert(list, t, h2, all, len) = r
    BY <1>2 DEF Reinsert
  <2>2. /\ q \in Seq(Txs) /\ Len(q) = Len(list) - 1
        /\ ToSet(q) \subseteq ToSet(list) /\ ToSet(list) \subseteq ToSet(q) \cup {t}
        /\ IsInjective(list) => IsInjective(q) /\ t \notin ToSet(q)
        /\ Sorted(list, h1) => Sorted(q, h1)
    BY <1>2, RemoveKeeps
  <2> HIDE DEF q
  <2>3. /\ r \in Seq(Txs) /\ Len(r) = Len(q) + 1 /\ ToSet(r) = ToSet(q) \cup {t}
        /\ IsInjective(q) /\ t \notin ToSet(q) => IsInjective(r)
        /\ Sorted(q, h2) => Sorted(r, h2)
    BY <2>2, InsertKeeps
  <2> HIDE DEF r
  <2>4. Len(r) = Len(list) /\ ToSet(r) = ToSet(list)
    <3>1. Len(list) \in Nat
      OBVIOUS
    <3> QED BY <1>2, <2>2, <2>3, <3>1
  <2>5. ASSUME IsInjective(list), Sorted(list, h1) PROVE Sorted(r, h2)
    <3>1. \A u \in ToSet(q) : h1[u] = h2[u]
      BY <2>2, <2>5, ToSetIs
    <3>2. Sorted(q, h2)
      BY <2>2, <2>5, <3>1, SortedSame
    <3> QED BY <2>3, <3>2
  <2> QED BY <2>1, <2>2, <2>3, <2>4, <2>5
<1> QED BY <1>1, <1>2

(***************************************************************************)
(* _BRWalletUpdateBalance: what holds of a ledger after n transactions.    *)
(***************************************************************************)
\* The function of UpdateBalance exists: the ledgers after 0, 1, ... transactions.
LEMMA LedgerSteps ==
    ASSUME NEW list \in Seq(Txs), NEW hts, NEW addrs, NEW bh, NEW clock
    PROVE  \E f : /\ f[0] = EmptyLedger
                  /\ \A n \in 1..Len(list) : f[n] = CountTx(f[n - 1], list[n], hts, addrs, bh, clock)
                  /\ UpdateBalance(list, hts, addrs, bh, clock) = f[Len(list)]
<1> DEFINE C(l, n) == CountTx(l, list[n], hts, addrs, bh, clock)
           m == Len(list)
           E(f) == [n \in 0..m |-> IF n = 0 THEN EmptyLedger ELSE C(f[n - 1], n)]
           f == CHOOSE h : h = E(h)
           P(n) == \E g : g[0] = EmptyLedger /\ \A i \in 1..n : g[i] = C(g[i - 1], i)
           T == {n \in Nat : P(n)}
<1>1. m \in Nat
  OBVIOUS
<1>2. UpdateBalance(list, hts, addrs, bh, clock) = f[m]
  BY DEF UpdateBalance
<1> HIDE DEF C, m
<1>3. 0 \in T
  <2> DEFINE g == [i \in {0} |-> EmptyLedger]
  <2>1. g[0] = EmptyLedger /\ \A i \in 1..0 : g[i] = C(g[i - 1], i)
    OBVIOUS
  <2>2. P(0)
    <3> HIDE DEF g
    <3> QED BY <2>1
  <2> QED BY <2>2
<1>4. ASSUME NEW n \in Nat, n \in T PROVE n + 1 \in T
  <2>1. P(n)
    BY <1>4
  <2>2. PICK g : g[0] = EmptyLedger /\ \A i \in 1..n : g[i] = C(g[i - 1], i)
    BY <2>1
  <2> DEFINE k == [i \in 0..(n + 1) |-> IF i = n + 1 THEN C(g[n], n + 1) ELSE g[i]]
  <2>3. k[0] = EmptyLedger
    BY <2>2
  <2>4. ASSUME NEW i \in 1..(n + 1) PROVE k[i] = C(k[i - 1], i)
    <3>1. i - 1 \in 0..n /\ k[i - 1] = g[i - 1]
      OBVIOUS
    <3>2. CASE i = n + 1
      BY <3>1, <3>2
    <3>3. CASE i # n + 1
      <4>1. i \in 1..n /\ k[i] = g[i]
        BY <3>3
      <4>2. g[i] = C(g[i - 1], i)
        BY <2>2, <4>1
      <4> QED BY <3>1, <4>1, <4>2
    <3> QED BY <3>2, <3>3
  <2>5. P(n + 1)
    <3> HIDE DEF k
    <3> QED BY <2>3, <2>4
  <2> QED BY <2>5
<1>5. P(m)
  <2>1. m \in T
    <3> HIDE DEF T
    <3> QED BY <1>1, <1>3, <1>4, SetInduction
  <2> QED BY <2>1
<1>6. PICK g : g[0] = EmptyLedger /\ \A i \in 1..m : g[i] = C(g[i - 1], i)
  BY <1>5
<1> DEFINE k == [i \in 0..m |-> g[i]]
<1>7. k = E(k)
  <2>1. ASSUME NEW i \in 0..m PROVE g[i] = IF i = 0 THEN EmptyLedger ELSE C(k[i - 1], i)
    <3>1. CASE i = 0
      BY <1>6, <3>1
    <3>2. CASE i # 0
      <4>1. i \in 1..m /\ i - 1 \in 0..m
        BY <1>1, <3>2
      <4>2. k[i - 1] = g[i - 1]
        BY <4>1
      <4>3. g[i] = C(g[i - 1], i)
        BY <1>6, <4>1
      <4> QED BY <3>2, <4>2, <4>3
    <3> QED BY <3>1, <3>2
  <2> QED BY <2>1
<1>8. f = E(f)
  <2> HIDE DEF E, k
  <2> QED BY <1>7
<1>9. f[0] = EmptyLedger /\ \A n \in 1..m : f[n] = C(f[n - 1], n)
  <2> HIDE DEF f
  <2>1. \A n \in 0..m : f[n] = IF n = 0 THEN EmptyLedger ELSE C(f[n - 1], n)
    <3>1. \A n \in 0..m : E(f)[n] = IF n = 0 THEN EmptyLedger ELSE C(f[n - 1], n)
      OBVIOUS
    <3> HIDE DEF E
    <3> QED BY <1>8, <3>1
  <2> QED BY <1>1, <2>1
<1> HIDE DEF f
<1> QED BY <1>2, <1>9 DEF C, m

(***************************************************************************)
(* Sums of amounts.                                                        *)
(***************************************************************************)
Coins == UNION {Outpoints(t) : t \in Txs}
AnyOf(s) == CHOOSE x \in s : TRUE

\* What a sequence is.
LEMMA SeqIs ==
    ASSUME NEW S, NEW s \in Seq(S)
    PROVE  Len(s) \in Nat /\ DOMAIN s = 1..Len(s) /\ \A i \in 1..Len(s) : s[i] \in S
  OBVIOUS

\* There are finitely many outputs, and each has an amount.
LEMMA CoinTypes ==
    /\ IsFiniteSet(Coins)
    /\ \A o \in Coins : Amount(o) \in Nat /\ o[1] \in Txs /\ o \in Outpoints(o[1])
    /\ \A t \in Txs : Outpoints(t) \subseteq Coins
<1>1. ASSUME NEW t \in Txs
      PROVE  /\ IsFiniteSet(Outpoints(t))
             /\ \A o \in Outpoints(t) : Amount(o) \in Nat /\ o[1] = t
  <2> DEFINE n == Len(Outputs[t])
             out(i) == <<t, i>>
  <2>1. n \in Nat /\ DOMAIN Outputs[t] = 1..n /\ \A i \in 1..n : Outputs[t][i].amount \in Nat
    <3>1. Outputs[t] \in Seq([addr : STRING \X Nat, amount : Nat])
      BY OutputsAssumption
    <3>2. n \in Nat /\ DOMAIN Outputs[t] = 1..n /\ \A i \in 1..n : Outputs[t][i] \in [addr : STRING \X Nat, amount : Nat]
      BY <3>1, SeqIs
    <3> QED BY <3>2
  <2>2. Outpoints(t) = {<<t, i>> : i \in 1..n}
    BY <2>1 DEF Outpoints
  <2>3. IsFiniteSet(1..n)
    BY <2>1, FS_Interval
  <2> DEFINE f == [i \in 1..n |-> <<t, i>>]
  <2>4. f \in Surjection(1..n, Outpoints(t))
    BY <2>2 DEF Surjection
  <2>5. IsFiniteSet(Outpoints(t))
    <3> HIDE DEF f
    <3> QED BY <2>3, <2>4, FS_Surjection
  <2>6. ASSUME NEW o \in Outpoints(t) PROVE Amount(o) \in Nat /\ o[1] = t
    <3>1. PICK i \in 1..n : o = <<t, i>>
      BY <2>2
    <3>2. o[1] = t /\ o[2] = i
      BY <3>1
    <3> QED BY <2>1, <3>2 DEF Amount
  <2> QED BY <2>5, <2>6
<1>2. IsFiniteSet(Coins)
  <2> DEFINE X == {Outpoints(t) : t \in Txs}
             f == [t \in Txs |-> Outpoints(t)]
  <2>1. IsFiniteSet(Txs)
    BY ConstantsAssumption
  <2>2. f \in Surjection(Txs, X)
    BY DEF Surjection
  <2>3. IsFiniteSet(X)
    <3> HIDE DEF f, X
    <3> QED BY <2>1, <2>2, FS_Surjection
  <2>4. \A x \in X : IsFiniteSet(x)
    BY <1>1
  <2>5. IsFiniteSet(UNION X)
    <3> HIDE DEF X
    <3> QED BY <2>3, <2>4, FS_UNION
  <2> QED BY <2>5 DEF Coins
<1>3. ASSUME NEW o \in Coins PROVE Amount(o) \in Nat /\ o[1] \in Txs /\ o \in Outpoints(o[1])
  <2>1. PICK t \in Txs : o \in Outpoints(t)
    BY DEF Coins
  <2> QED BY <1>1, <2>1
<1>4. \A t \in Txs : Outpoints(t) \subseteq Coins
  BY DEF Coins
<1> QED BY <1>2, <1>3, <1>4

\* MapThenSumSet as an equation.
LEMMA TotalIs ==
    ASSUME NEW S
    PROVE  Total(S) = (CHOOSE f : f = [s \in SUBSET S |->
                         IF s = {} THEN 0 ELSE Amount(AnyOf(s)) + f[s \ {AnyOf(s)}]])[S]
  BY DEF Total, MapThenSumSet, MapThenFoldSet, AnyOf

\* The equation has a solution for every finite set: for the sets of at most n elements, by induction over n.
LEMMA TotalExists ==
    ASSUME NEW S \in SUBSET Coins
    PROVE  \E f \in [SUBSET S -> Nat] : \A s \in SUBSET S :
              f[s] = IF s = {} THEN 0 ELSE Amount(AnyOf(s)) + f[s \ {AnyOf(s)}]
<1> DEFINE V(f, s) == IF s = {} THEN 0 ELSE Amount(AnyOf(s)) + f[s \ {AnyOf(s)}]
           Small(n) == {s \in SUBSET S : Cardinality(s) <= n}
           P(n) == \E f \in [Small(n) -> Nat] : \A s \in Small(n) : f[s] = V(f, s)
           T == {n \in Nat : P(n)}
<1>1. IsFiniteSet(S) /\ \A s \in SUBSET S : IsFiniteSet(s) /\ Cardinality(s) \in Nat
  BY CoinTypes, FS_Subset, FS_CardinalityType
<1>2. ASSUME NEW s \in SUBSET S, s # {}
      PROVE  /\ AnyOf(s) \in s /\ Amount(AnyOf(s)) \in Nat
             /\ s \ {AnyOf(s)} \in SUBSET S /\ Cardinality(s \ {AnyOf(s)}) = Cardinality(s) - 1
  <2>1. AnyOf(s) \in s
    BY <1>2 DEF AnyOf
  <2>2. Cardinality(s \ {AnyOf(s)}) = Cardinality(s) - 1
    BY <1>1, <2>1, FS_RemoveElement
  <2> QED BY <2>1, <2>2, CoinTypes
<1>3. \A s \in SUBSET S : Cardinality(s) = 0 <=> s = {}
  BY <1>1, FS_EmptySet
<1>4. 0 \in T
  <2> DEFINE g == [s \in Small(0) |-> 0]
  <2>1. g \in [Small(0) -> Nat]
    OBVIOUS
  <2>2. \A s \in Small(0) : s = {}
    BY <1>1, <1>3
  <2>3. \A s \in Small(0) : g[s] = V(g, s)
    BY <2>2
  <2> HIDE DEF Small, V, g
  <2> QED BY <2>1, <2>3
<1>5. ASSUME NEW n \in Nat, n \in T PROVE n + 1 \in T
  <2>1. P(n)
    BY <1>5
  <2>2. PICK g \in [Small(n) -> Nat] : \A s \in Small(n) : g[s] = V(g, s)
    BY <2>1
  <2> DEFINE k == [s \in Small(n + 1) |-> V(g, s)]
  <2>3. \A s \in Small(n + 1) : s # {} => s \ {AnyOf(s)} \in Small(n)
    BY <1>1, <1>2
  <2>4. Small(n) \subseteq Small(n + 1)
    BY <1>1
  <2>5. k \in [Small(n + 1) -> Nat]
    <3>1. ASSUME NEW s \in Small(n + 1) PROVE V(g, s) \in Nat
      <4>1. CASE s = {}
        BY <4>1
      <4>2. CASE s # {}
        <5>1. g[s \ {AnyOf(s)}] \in Nat /\ Amount(AnyOf(s)) \in Nat
          <6>1. s \in SUBSET S /\ s \ {AnyOf(s)} \in Small(n)
            BY <2>3, <4>2
          <6> HIDE DEF Small
          <6> QED BY <1>2, <4>2, <6>1
        <5> QED BY <4>2, <5>1
      <4> QED BY <4>1, <4>2
    <3> HIDE DEF V, Small
    <3> QED BY <3>1
  <2>6. ASSUME NEW s \in Small(n) PROVE k[s] = g[s]
    <3> HIDE DEF V, Small
    <3> QED BY <2>2, <2>4
  <2>7. ASSUME NEW s \in Small(n + 1) PROVE k[s] = V(k, s)
    <3>1. k[s] = V(g, s)
      <4> HIDE DEF V, Small
      <4> QED OBVIOUS
    <3>2. CASE s = {}
      <4> HIDE DEF k, Small
      <4> QED BY <3>1, <3>2
    <3>3. CASE s # {}
      <4>1. k[s \ {AnyOf(s)}] = g[s \ {AnyOf(s)}]
        <5> HIDE DEF k, Small, V
        <5> QED BY <2>3, <2>6, <3>3
      <4> HIDE DEF k, Small
      <4> QED BY <3>1, <3>3, <4>1
    <3> QED BY <3>2, <3>3
  <2> HIDE DEF k, Small, V
  <2> QED BY <2>5, <2>7
<1>6. P(Cardinality(S))
  <2>1. Cardinality(S) \in T
    <3> HIDE DEF T
    <3> QED BY <1>1, <1>4, <1>5, SetInduction
  <2> QED BY <2>1
<1>7. Small(Cardinality(S)) = SUBSET S
  <2>1. \A s \in SUBSET S : Cardinality(s) <= Cardinality(S)
    BY <1>1, FS_Subset
  <2> QED BY <2>1
<1> HIDE DEF Small
<1> QED BY <1>6, <1>7

\* All these sums are values of one function.
LEMMA TotalFunction ==
    \E f \in [SUBSET Coins -> Nat] :
       /\ \A s \in SUBSET Coins : f[s] = IF s = {} THEN 0 ELSE Amount(AnyOf(s)) + f[s \ {AnyOf(s)}]
       /\ \A S \in SUBSET Coins : Total(S) = f[S]
<1>1. PICK f \in [SUBSET Coins -> Nat] :
         \A s \in SUBSET Coins : f[s] = IF s = {} THEN 0 ELSE Amount(AnyOf(s)) + f[s \ {AnyOf(s)}]
  BY TotalExists
<1>2. ASSUME NEW S \in SUBSET Coins PROVE Total(S) = f[S]
  <2> DEFINE E(g) == [s \in SUBSET S |-> IF s = {} THEN 0 ELSE Amount(AnyOf(s)) + g[s \ {AnyOf(s)}]]
             e == CHOOSE g : g = E(g)
             T == {n \in Nat : \A s \in SUBSET S : Cardinality(s) = n => e[s] = f[s]}
  <2>1. Total(S) = e[S]
    BY TotalIs
  <2>2. PICK g \in [SUBSET S -> Nat] :
           \A s \in SUBSET S : g[s] = IF s = {} THEN 0 ELSE Amount(AnyOf(s)) + g[s \ {AnyOf(s)}]
    BY TotalExists
  <2>3. g = E(g)
    BY <2>2
  <2>4. e = E(e)
    <3> HIDE DEF E
    <3> QED BY <2>3
  <2> HIDE DEF e
  <2>5. \A s \in SUBSET S : e[s] = IF s = {} THEN 0 ELSE Amount(AnyOf(s)) + e[s \ {AnyOf(s)}]
    <3>1. \A s \in SUBSET S : E(e)[s] = IF s = {} THEN 0 ELSE Amount(AnyOf(s)) + e[s \ {AnyOf(s)}]
      OBVIOUS
    <3> HIDE DEF E
    <3> QED BY <2>4, <3>1
  <2>6. \A s \in SUBSET S : IsFiniteSet(s) /\ Cardinality(s) \in Nat /\ (Cardinality(s) = 0 <=> s = {})
    BY CoinTypes, FS_Subset, FS_CardinalityType, FS_EmptySet
  <2>7. 0 \in T
    BY <1>1, <2>5, <2>6
  <2>8. ASSUME NEW n \in Nat, n \in T PROVE n + 1 \in T
    <3> SUFFICES ASSUME NEW s \in SUBSET S, Cardinality(s) = n + 1 PROVE e[s] = f[s]
      OBVIOUS
    <3>1. s # {} /\ s \in SUBSET Coins
      BY <2>6
    <3>2. AnyOf(s) \in s
      BY <3>1 DEF AnyOf
    <3>3. Cardinality(s \ {AnyOf(s)}) = n /\ s \ {AnyOf(s)} \in SUBSET S
      BY <2>6, <3>2, FS_RemoveElement
    <3>4. e[s \ {AnyOf(s)}] = f[s \ {AnyOf(s)}]
      BY <2>8, <3>3
    <3>5. e[s] = Amount(AnyOf(s)) + e[s \ {AnyOf(s)}]
      BY <2>5, <3>1
    <3>6. f[s] = Amount(AnyOf(s)) + f[s \ {AnyOf(s)}]
      BY <1>1, <3>1
    <3> QED BY <3>4, <3>5, <3>6
  <2>9. Cardinality(S) \in T
    <3> HIDE DEF T
    <3> QED BY <2>6, <2>7, <2>8, SetInduction
  <2> QED BY <2>1, <2>9
<1> QED BY <1>1, <1>2

\* A sum is a natural number, and any element can be taken out of it.
LEMMA TotalWithout ==
    ASSUME NEW S \in SUBSET Coins
    PROVE  /\ Total(S) \in Nat
           /\ Total({}) = 0
           /\ \A x \in S : Total(S) = Amount(x) + Total(S \ {x})
<1>1. PICK f \in [SUBSET Coins -> Nat] :
         /\ \A s \in SUBSET Coins : f[s] = IF s = {} THEN 0 ELSE Amount(AnyOf(s)) + f[s \ {AnyOf(s)}]
         /\ \A s \in SUBSET Coins : Total(s) = f[s]
  BY TotalFunction
<1> DEFINE T == {n \in Nat : \A s \in SUBSET Coins : Cardinality(s) = n => \A x \in s : f[s] = Amount(x) + f[s \ {x}]}
<1>2. \A s \in SUBSET Coins : IsFiniteSet(s) /\ Cardinality(s) \in Nat /\ (Cardinality(s) = 0 <=> s = {})
  BY CoinTypes, FS_Subset, FS_CardinalityType, FS_EmptySet
<1>3. 0 \in T
  BY <1>2
<1>4. ASSUME NEW n \in Nat, n \in T PROVE n + 1 \in T
  <2> SUFFICES ASSUME NEW s \in SUBSET Coins, Cardinality(s) = n + 1, NEW x \in s
               PROVE  f[s] = Amount(x) + f[s \ {x}]
    OBVIOUS
  <2> DEFINE y == AnyOf(s)
  <2>1. y \in s
    BY DEF AnyOf
  <2>2. f[s] = Amount(y) + f[s \ {y}]
    BY <1>1
  <2> HIDE DEF y
  <2>3. CASE x = y
    BY <2>2, <2>3
  <2>4. CASE x # y
    <3>1. /\ s \ {x} \in SUBSET Coins /\ Cardinality(s \ {x}) = n /\ y \in s \ {x}
          /\ s \ {y} \in SUBSET Coins /\ Cardinality(s \ {y}) = n /\ x \in s \ {y}
      <4>1. IsFiniteSet(s)
        BY <1>2
      <4>2. Cardinality(s \ {x}) = Cardinality(s) - 1 /\ Cardinality(s \ {y}) = Cardinality(s) - 1
        BY <2>1, <4>1, FS_RemoveElement
      <4>3. Cardinality(s \ {x}) = n /\ Cardinality(s \ {y}) = n
        BY <4>2
      <4> QED BY <2>1, <2>4, <4>3
    <3>2. f[s \ {y}] = Amount(x) + f[(s \ {y}) \ {x}] /\ f[s \ {x}] = Amount(y) + f[(s \ {x}) \ {y}]
      BY <1>4, <3>1
    <3>3. (s \ {y}) \ {x} = (s \ {x}) \ {y} /\ (s \ {x}) \ {y} \in SUBSET Coins
      OBVIOUS
    <3>4. f[(s \ {x}) \ {y}] \in Nat /\ Amount(x) \in Nat /\ Amount(y) \in Nat
      BY <2>1, <3>3, CoinTypes
    <3> DEFINE c == f[(s \ {x}) \ {y}]
    <3>5. f[s \ {y}] = Amount(x) + c /\ f[s \ {x}] = Amount(y) + c /\ c \in Nat
      BY <3>2, <3>3, <3>4
    <3> HIDE DEF c
    <3>6. f[s] = Amount(y) + (Amount(x) + c)
      BY <2>2, <3>5
    <3>7. Amount(y) + (Amount(x) + c) = Amount(x) + (Amount(y) + c)
      BY <3>4, <3>5
    <3> QED BY <3>5, <3>6, <3>7
  <2> QED BY <2>3, <2>4
<1>5. Cardinality(S) \in T
  <2> HIDE DEF T
  <2> QED BY <1>2, <1>3, <1>4, SetInduction
<1>6. \A x \in S : f[S] = Amount(x) + f[S \ {x}]
  BY <1>5
<1>7. \A x \in S : S \ {x} \in SUBSET Coins
  OBVIOUS
<1>8. Total({}) = 0
  BY <1>1
<1> QED BY <1>1, <1>6, <1>7, <1>8

\* The sum over two sets without common elements is the sum of the sums.
LEMMA TotalAdds ==
    ASSUME NEW A \in SUBSET Coins, NEW B \in SUBSET Coins, A \cap B = {}
    PROVE  Total(A \cup B) = Total(A) + Total(B)
<1> DEFINE T == {n \in Nat : \A s \in SUBSET B : Cardinality(s) = n => Total(A \cup s) = Total(A) + Total(s)}
<1>1. \A s \in SUBSET B : IsFiniteSet(s) /\ Cardinality(s) \in Nat /\ (Cardinality(s) = 0 <=> s = {})
  BY CoinTypes, FS_Subset, FS_CardinalityType, FS_EmptySet
<1>2. Total(A) \in Nat /\ Total({}) = 0
  BY TotalWithout
<1>3. 0 \in T
  <2> SUFFICES ASSUME NEW s \in SUBSET B, Cardinality(s) = 0 PROVE Total(A \cup s) = Total(A) + Total(s)
    OBVIOUS
  <2>1. s = {} /\ A \cup s = A
    BY <1>1
  <2> QED BY <1>2, <2>1
<1>4. ASSUME NEW n \in Nat, n \in T PROVE n + 1 \in T
  <2> SUFFICES ASSUME NEW s \in SUBSET B, Cardinality(s) = n + 1 PROVE Total(A \cup s) = Total(A) + Total(s)
    OBVIOUS
  <2>1. PICK x \in s : TRUE
    BY <1>1
  <2>2. s \ {x} \in SUBSET B /\ Cardinality(s \ {x}) = n
    BY <1>1, <2>1, FS_RemoveElement
  <2>3. Total(A \cup (s \ {x})) = Total(A) + Total(s \ {x})
    BY <1>4, <2>2
  <2>4. /\ A \cup s \in SUBSET Coins /\ x \in A \cup s /\ (A \cup s) \ {x} = A \cup (s \ {x})
        /\ s \in SUBSET Coins /\ s \ {x} \in SUBSET Coins /\ x \in Coins
    BY <2>1
  <2>5. Total(A \cup s) = Amount(x) + Total((A \cup s) \ {x})
    BY <2>4, TotalWithout
  <2>6. Total(s) = Amount(x) + Total(s \ {x}) /\ Total(s \ {x}) \in Nat
    BY <2>1, <2>4, TotalWithout
  <2>7. Amount(x) \in Nat
    BY <2>4, CoinTypes
  <2> QED BY <1>2, <2>3, <2>4, <2>5, <2>6, <2>7
<1>5. Cardinality(B) \in T
  <2> HIDE DEF T
  <2> QED BY <1>1, <1>3, <1>4, SetInduction
<1> QED BY <1>5

(***************************************************************************)
(* One transaction of the list counted.                                    *)
(***************************************************************************)
AllAddrs == UNION {AddrsOf(t) : t \in Txs}
AllInputs == UNION {Inputs[t] : t \in Txs}
Ledgers ==
    [balance : Int, prevBalance : Int, balanceHist : Seq(Int), totalSent : Int, totalReceived : Int,
     utxos : SUBSET Coins, spentOutputs : SUBSET AllInputs, invalidTx : SUBSET Txs, pendingTx : SUBSET Txs,
     usedAddrs : SUBSET AllAddrs]

\* one more entry of balanceHist
Lengthened(l, c) == \E b \in Int : c.balanceHist = Append(l.balanceHist, b)

\* c is l with a transaction t that is invalid, pending, or counts
CountedInvalid(l, c, t) ==
    /\ InvalidInput(l, t)
    /\ c.invalidTx = l.invalidTx \cup {t} /\ c.pendingTx = l.pendingTx
    /\ c.spentOutputs = l.spentOutputs /\ c.utxos = l.utxos /\ c.balance = l.balance
    /\ c.prevBalance = l.prevBalance /\ c.totalSent = l.totalSent /\ c.totalReceived = l.totalReceived
CountedPending(l, c, t) ==
    /\ ~ InvalidInput(l, t)
    /\ c.invalidTx = l.invalidTx /\ c.pendingTx = l.pendingTx \cup {t}
    /\ c.spentOutputs = l.spentOutputs \cup Inputs[t] /\ c.utxos = l.utxos /\ c.balance = l.balance
    /\ c.prevBalance = l.prevBalance /\ c.totalSent = l.totalSent /\ c.totalReceived = l.totalReceived
CountedValid(l, c, t, added) ==
    /\ c.invalidTx = l.invalidTx /\ c.pendingTx = l.pendingTx
    /\ c.spentOutputs = l.spentOutputs \cup Inputs[t]
    /\ c.utxos = (l.utxos \cup added) \ SpentUtxos(l, t, added)
    /\ c.balance = (l.balance + Total(added)) - Total(SpentUtxos(l, t, added))
    /\ c.prevBalance = c.balance
    /\ c.totalReceived = l.totalReceived + Max({0, c.balance - l.prevBalance})
    /\ c.totalSent = l.totalSent + Max({0, l.prevBalance - c.balance})

\* The ledger _BRWalletUpdateBalance starts from.
LEMMA EmptyLedgerIs ==
    /\ EmptyLedger \in Ledgers
    /\ EmptyLedger.balance = 0 /\ EmptyLedger.prevBalance = 0 /\ EmptyLedger.totalSent = 0 /\ EmptyLedger.totalReceived = 0
    /\ EmptyLedger.balanceHist = <<>> /\ EmptyLedger.utxos = {} /\ EmptyLedger.spentOutputs = {}
    /\ EmptyLedger.invalidTx = {} /\ EmptyLedger.pendingTx = {} /\ EmptyLedger.usedAddrs = {}
<1>1. <<>> \in Seq(Int)
  OBVIOUS
<1> QED BY <1>1 DEF EmptyLedger, Ledgers

\* The part of a number above zero.
LEMMA PositivePart ==
    ASSUME NEW i \in Int
    PROVE  Max({0, i}) \in Nat /\ Max({0, i}) = IF i >= 0 THEN i ELSE 0
<1>1. CASE i >= 0
  <2>1. i \in {0, i} /\ \A y \in {0, i} : i >= y
    BY <1>1
  <2>2. Max({0, i}) \in {0, i} /\ \A y \in {0, i} : Max({0, i}) >= y
    BY <2>1 DEF Max
  <2> QED BY <1>1, <2>2
<1>2. CASE ~ (i >= 0)
  <2>1. 0 \in {0, i} /\ \A y \in {0, i} : 0 >= y
    BY <1>2
  <2>2. Max({0, i}) \in {0, i} /\ \A y \in {0, i} : Max({0, i}) >= y
    BY <2>1 DEF Max
  <2> QED BY <1>2, <2>2
<1> QED BY <1>1, <1>2

\* CountTx does one of three things.
LEMMA CountCases ==
    ASSUME NEW l \in Ledgers, NEW t \in Txs, NEW hts, NEW addrs, NEW bh, NEW clock,
           NEW c, c = CountTx(l, t, hts, addrs, bh, clock)
    PROVE  /\ c \in Ledgers /\ Lengthened(l, c)
           /\ \/ hts[t] = Unconfirmed /\ CountedInvalid(l, c, t)
              \/ hts[t] = Unconfirmed /\ PendingInput(l, t, bh, clock) /\ CountedPending(l, c, t)
              \/ /\ hts[t] = Unconfirmed => ~ InvalidInput(l, t) /\ ~ PendingInput(l, t, bh, clock)
                 /\ CountedValid(l, c, t, OwnedBy({t}, addrs))
<1> DEFINE added == OwnedBy({t}, addrs)
           gone == SpentUtxos(l, t, added)
           spent == l.spentOutputs \cup Inputs[t]
           balance == (l.balance + Total(added)) - Total(gone)
           hist(b) == Append(l.balanceHist, b)
           used == l.usedAddrs \cup AddrsOf(t)
           received == l.totalReceived + Max({0, balance - l.prevBalance})
           sent == l.totalSent + Max({0, l.prevBalance - balance})
           utxos == (l.utxos \cup added) \ gone
<1>1. /\ l.balance \in Int /\ l.prevBalance \in Int /\ l.balanceHist \in Seq(Int) /\ l.totalSent \in Int /\ l.totalReceived \in Int
      /\ l.utxos \in SUBSET Coins /\ l.spentOutputs \in SUBSET AllInputs /\ l.invalidTx \in SUBSET Txs
      /\ l.pendingTx \in SUBSET Txs /\ l.usedAddrs \in SUBSET AllAddrs
  BY DEF Ledgers
<1>2. added \in SUBSET Coins
  BY DEF OwnedBy, Coins
<1>3. gone \in SUBSET Coins
  BY <1>1, <1>2 DEF SpentUtxos
<1>4. spent \in SUBSET AllInputs /\ used \in SUBSET AllAddrs /\ utxos \in SUBSET Coins
  BY <1>1, <1>2 DEF AllInputs, AllAddrs
<1>5. balance \in Int
  <2>1. Total(added) \in Nat /\ Total(gone) \in Nat
    BY <1>2, <1>3, TotalWithout
  <2> HIDE DEF added, gone
  <2> QED BY <1>1, <2>1
<1>6. hist(l.balance) \in Seq(Int) /\ hist(balance) \in Seq(Int)
  <2> HIDE DEF balance
  <2> QED BY <1>1, <1>5
<1>7. received \in Int /\ sent \in Int
  <2> HIDE DEF balance
  <2>1. balance - l.prevBalance \in Int /\ l.prevBalance - balance \in Int
    BY <1>1, <1>5
  <2>2. \A i \in Int : Max({0, i}) \in Nat
    BY PositivePart
  <2>3. Max({0, balance - l.prevBalance}) \in Nat /\ Max({0, l.prevBalance - balance}) \in Nat
    BY <2>1, <2>2
  <2> QED BY <1>1, <2>3
<1> DEFINE c1 == CountInvalid(l, t)
           c2 == CountPending(l, t)
           c3 == CountValid(l, t, addrs)
<1>8. /\ hts[t] = Unconfirmed /\ InvalidInput(l, t) => c = c1
      /\ hts[t] = Unconfirmed /\ ~ InvalidInput(l, t) /\ PendingInput(l, t, bh, clock) => c = c2
      /\ (hts[t] = Unconfirmed => ~ InvalidInput(l, t) /\ ~ PendingInput(l, t, bh, clock)) => c = c3
  <2>1. c = IF hts[t] = Unconfirmed /\ InvalidInput(l, t) THEN c1
            ELSE IF hts[t] = Unconfirmed /\ PendingInput(l, t, bh, clock) THEN c2 ELSE c3
    BY DEF CountTx
  <2> HIDE DEF c1, c2, c3
  <2> QED BY <2>1
<1>14. /\ c1 = [l EXCEPT !.invalidTx = l.invalidTx \cup {t}, !.balanceHist = hist(l.balance)]
       /\ c2 = [l EXCEPT !.pendingTx = l.pendingTx \cup {t}, !.balanceHist = hist(l.balance), !.spentOutputs = spent]
       /\ c3 = [l EXCEPT !.spentOutputs = spent, !.usedAddrs = used, !.utxos = utxos, !.balance = balance,
                          !.totalReceived = received, !.totalSent = sent, !.balanceHist = hist(balance),
                          !.prevBalance = balance]
  <2>1. c1 = [l EXCEPT !.invalidTx = @ \cup {t}, !.balanceHist = Append(@, l.balance)]
    BY DEF CountInvalid
  <2>2. c2 = [l EXCEPT !.pendingTx = @ \cup {t}, !.balanceHist = Append(@, l.balance), !.spentOutputs = @ \cup Inputs[t]]
    BY DEF CountPending
  <2>3. c3 = [l EXCEPT !.spentOutputs = @ \cup Inputs[t], !.usedAddrs = @ \cup AddrsOf(t), !.utxos = (@ \cup added) \ gone,
                           !.balance = balance, !.totalReceived = @ + Max({0, balance - l.prevBalance}),
                           !.totalSent = @ + Max({0, l.prevBalance - balance}), !.balanceHist = Append(@, balance),
                           !.prevBalance = balance]
    BY DEF CountValid
  <2> HIDE DEF added, gone, balance, c1, c2, c3
  <2> QED BY <2>1, <2>2, <2>3
<1> HIDE DEF added, gone, spent, balance, hist, used, received, sent, utxos, c1, c2, c3
<1>9. c1 \in Ledgers /\ c1.balanceHist = hist(l.balance) /\ (InvalidInput(l, t) => CountedInvalid(l, c1, t))
  BY <1>1, <1>6, <1>14 DEF Ledgers, CountedInvalid
<1>10. c2 \in Ledgers /\ c2.balanceHist = hist(l.balance) /\ (~ InvalidInput(l, t) => CountedPending(l, c2, t))
  <2>1. c2 \in Ledgers
    BY <1>1, <1>4, <1>6, <1>14 DEF Ledgers
  <2>2. /\ c2.balanceHist = hist(l.balance)
        /\ c2.invalidTx = l.invalidTx /\ c2.pendingTx = l.pendingTx \cup {t}
        /\ c2.spentOutputs = spent /\ c2.utxos = l.utxos /\ c2.balance = l.balance
        /\ c2.prevBalance = l.prevBalance /\ c2.totalSent = l.totalSent /\ c2.totalReceived = l.totalReceived
    BY <1>14 DEF Ledgers
  <2> QED BY <2>1, <2>2 DEF CountedPending, spent
<1>11. c3 \in Ledgers /\ c3.balanceHist = hist(balance) /\ CountedValid(l, c3, t, added)
  <2>1. c3 \in Ledgers
    BY <1>1, <1>4, <1>5, <1>6, <1>7, <1>14 DEF Ledgers
  <2>2. /\ c3.balanceHist = hist(balance)
        /\ c3.invalidTx = l.invalidTx /\ c3.pendingTx = l.pendingTx
        /\ c3.spentOutputs = spent /\ c3.utxos = utxos /\ c3.balance = balance
        /\ c3.prevBalance = balance /\ c3.totalSent = sent /\ c3.totalReceived = received
    BY <1>14 DEF Ledgers
  <2> QED BY <2>1, <2>2 DEF CountedValid, spent, utxos, balance, sent, received, gone
<1>12. c \in Ledgers /\ (c.balanceHist = hist(l.balance) \/ c.balanceHist = hist(balance))
  BY <1>8, <1>9, <1>10, <1>11
<1>13. \/ hts[t] = Unconfirmed /\ CountedInvalid(l, c, t)
       \/ hts[t] = Unconfirmed /\ PendingInput(l, t, bh, clock) /\ CountedPending(l, c, t)
       \/ /\ hts[t] = Unconfirmed => ~ InvalidInput(l, t) /\ ~ PendingInput(l, t, bh, clock)
          /\ CountedValid(l, c, t, added)
  BY <1>8, <1>9, <1>10, <1>11
<1>15. Lengthened(l, c)
  BY <1>1, <1>5, <1>12 DEF hist, Lengthened
<1> QED BY <1>12, <1>13, <1>15 DEF added

(***************************************************************************)
(* What the ledger says of a set S of transactions with heights hts, in    *)
(* whatever order they were counted.                                       *)
(***************************************************************************)
Fits(l, S, hts) ==
    /\ l \in Ledgers
    /\ \A o \in l.utxos : o[1] \in S
    /\ l.invalidTx \subseteq S /\ l.pendingTx \subseteq S
    /\ \A t \in l.invalidTx \cup l.pendingTx : hts[t] = Unconfirmed
    /\ \A t \in S \ l.invalidTx : Inputs[t] \subseteq l.spentOutputs
    /\ \A t \in S \ (l.invalidTx \cup l.pendingTx) : Inputs[t] \cap l.utxos = {}
    /\ l.prevBalance = l.balance /\ l.balance = l.totalReceived - l.totalSent

\* An empty ledger says nothing of no transaction.
LEMMA EmptyFits == ASSUME NEW hts PROVE Fits(EmptyLedger, {}, hts)
<1> USE EmptyLedgerIs
<1> QED BY DEF Fits

\* Counting a transaction, again or for the first time, extends what the ledger says to it.
LEMMA CountFits ==
    ASSUME NEW S \in SUBSET Txs, NEW t \in Txs, NEW hts, NEW addrs, NEW bh, NEW clock, NEW l, Fits(l, S, hts)
    PROVE  Fits(CountTx(l, t, hts, addrs, bh, clock), S \cup {t}, hts)
<1> DEFINE c == CountTx(l, t, hts, addrs, bh, clock)
           added == OwnedBy({t}, addrs)
<1>0. SUFFICES Fits(c, S \cup {t}, hts)
  OBVIOUS
<1>1. l \in Ledgers
  BY DEF Fits
<1>2. /\ c \in Ledgers
      /\ \/ hts[t] = Unconfirmed /\ CountedInvalid(l, c, t)
         \/ hts[t] = Unconfirmed /\ PendingInput(l, t, bh, clock) /\ CountedPending(l, c, t)
         \/ /\ hts[t] = Unconfirmed => ~ InvalidInput(l, t) /\ ~ PendingInput(l, t, bh, clock)
            /\ CountedValid(l, c, t, added)
  BY <1>1, CountCases
<1>3. /\ l.balance \in Int /\ l.prevBalance \in Int /\ l.totalSent \in Int /\ l.totalReceived \in Int
      /\ c.balance \in Int
  BY <1>1, <1>2 DEF Ledgers
<1>4. \A o \in added : o[1] = t
  BY DEF OwnedBy, Outpoints
<1> HIDE DEF c, added
<1>5. CASE hts[t] = Unconfirmed /\ CountedInvalid(l, c, t)
  BY <1>2, <1>5 DEF Fits, CountedInvalid
<1>6. CASE hts[t] = Unconfirmed /\ CountedPending(l, c, t)
  BY <1>2, <1>6 DEF Fits, CountedPending
<1>7. CASE CountedValid(l, c, t, added)
  <2>1. l.prevBalance = l.balance /\ l.balance = l.totalReceived - l.totalSent
    BY DEF Fits
  <2>2. c.prevBalance = c.balance /\ c.balance = c.totalReceived - c.totalSent
    <3> DEFINE d == c.balance - l.prevBalance
               e == l.prevBalance - c.balance
    <3>1. d \in Int /\ e \in Int /\ d = 0 - e
      BY <1>3
    <3>2. Max({0, d}) = (IF d >= 0 THEN d ELSE 0) /\ Max({0, e}) = IF e >= 0 THEN e ELSE 0
      <4> HIDE DEF d, e
      <4> QED BY <3>1, PositivePart
    <3>3. /\ c.prevBalance = c.balance
          /\ c.totalReceived = l.totalReceived + Max({0, d}) /\ c.totalSent = l.totalSent + Max({0, e})
      BY <1>7 DEF CountedValid
    <3>4. c.balance = d + l.prevBalance
      BY <1>3
    <3> HIDE DEF d, e
    <3> QED BY <1>3, <2>1, <3>1, <3>2, <3>3, <3>4
  <2>3. /\ c.invalidTx = l.invalidTx /\ c.pendingTx = l.pendingTx
        /\ c.spentOutputs = l.spentOutputs \cup Inputs[t]
        /\ c.utxos = (l.utxos \cup added) \ ((l.utxos \cup added) \cap (l.spentOutputs \cup Inputs[t]))
    BY <1>7 DEF CountedValid, SpentUtxos
  <2>4. c.utxos \cap (l.spentOutputs \cup Inputs[t]) = {}
    BY <2>3
  <2>5. \A o \in c.utxos : o[1] \in S \cup {t}
    BY <1>4, <2>3 DEF Fits
  <2>6. \A u \in (S \cup {t}) \ c.invalidTx : Inputs[u] \subseteq c.spentOutputs
    BY <2>3 DEF Fits
  <2>7. \A u \in (S \cup {t}) \ (c.invalidTx \cup c.pendingTx) : Inputs[u] \cap c.utxos = {}
    BY <2>3, <2>4, <2>6
  <2>8. c.invalidTx \subseteq S \cup {t} /\ c.pendingTx \subseteq S \cup {t} /\ \A u \in c.invalidTx \cup c.pendingTx : hts[u] = Unconfirmed
    BY <2>3 DEF Fits
  <2> QED BY <1>2, <2>2, <2>5, <2>6, <2>7, <2>8 DEF Fits
<1> QED BY <1>2, <1>5, <1>6, <1>7

\* the transactions in the first n entries of a list
FirstOf(list, n) == {list[i] : i \in 1..n}

\* The transactions counted before and after one more step of the pass.
LEMMA FirstOfSteps ==
    ASSUME NEW list \in Seq(Txs)
    PROVE  /\ FirstOf(list, 0) = {} /\ FirstOf(list, Len(list)) = ToSet(list)
           /\ \A n \in Nat : n + 1 <= Len(list) =>
                 FirstOf(list, n + 1) = FirstOf(list, n) \cup {list[n + 1]} /\ FirstOf(list, n) \in SUBSET Txs
<1>1. FirstOf(list, 0) = {} /\ FirstOf(list, Len(list)) = ToSet(list)
  BY DEF FirstOf, ToSet
<1>2. ASSUME NEW n \in Nat, n + 1 <= Len(list)
      PROVE  FirstOf(list, n + 1) = FirstOf(list, n) \cup {list[n + 1]} /\ FirstOf(list, n) \in SUBSET Txs
  <2>1. 1..(n + 1) = 1..n \cup {n + 1} /\ 1..n \subseteq 1..Len(list)
    BY <1>2
  <2> QED BY <2>1 DEF FirstOf
<1> QED BY <1>1, <1>2

\* _BRWalletUpdateBalance: the new ledger fits the list, and balanceHist is aligned with it.
LEMMA UpdateFits ==
    ASSUME NEW list \in Seq(Txs), NEW hts, NEW addrs, NEW bh, NEW clock
    PROVE  /\ Fits(UpdateBalance(list, hts, addrs, bh, clock), ToSet(list), hts)
           /\ Len(UpdateBalance(list, hts, addrs, bh, clock).balanceHist) = Len(list)
<1>1. PICK f : /\ f[0] = EmptyLedger
               /\ \A n \in 1..Len(list) : f[n] = CountTx(f[n - 1], list[n], hts, addrs, bh, clock)
               /\ UpdateBalance(list, hts, addrs, bh, clock) = f[Len(list)]
  BY LedgerSteps
<1> DEFINE P(n) == Fits(f[n], FirstOf(list, n), hts) /\ Len(f[n].balanceHist) = n
           T == {n \in Nat : n <= Len(list) => P(n)}
<1>2. 0 \in T
  <2>1. Len(EmptyLedger.balanceHist) = 0
    BY EmptyLedgerIs
  <2> QED BY <1>1, <2>1, EmptyFits, FirstOfSteps
<1>3. ASSUME NEW n \in Nat, n \in T PROVE n + 1 \in T
  <2>1. SUFFICES ASSUME n + 1 <= Len(list) PROVE P(n + 1)
    OBVIOUS
  <2>2. n <= Len(list) /\ n + 1 \in 1..Len(list) /\ (n + 1) - 1 = n /\ list[n + 1] \in Txs
    BY <2>1
  <2>3. Fits(f[n], FirstOf(list, n), hts) /\ Len(f[n].balanceHist) = n
    BY <1>3, <2>2
  <2>4. f[n + 1] = CountTx(f[n], list[n + 1], hts, addrs, bh, clock)
    BY <1>1, <2>2
  <2>5. FirstOf(list, n + 1) = FirstOf(list, n) \cup {list[n + 1]} /\ FirstOf(list, n) \in SUBSET Txs
    BY <2>1, FirstOfSteps
  <2>6. Fits(f[n + 1], FirstOf(list, n + 1), hts)
    BY <2>2, <2>3, <2>4, <2>5, CountFits
  <2>7. f[n] \in Ledgers
    BY <2>3 DEF Fits
  <2>8. Len(CountTx(f[n], list[n + 1], hts, addrs, bh, clock).balanceHist) = Len(f[n].balanceHist) + 1
    <3> DEFINE l == f[n]
               u == list[n + 1]
    <3>1. l \in Ledgers /\ u \in Txs
      BY <2>2, <2>7
    <3> HIDE DEF l, u
    <3> DEFINE c == CountTx(l, u, hts, addrs, bh, clock)
    <3>2. Lengthened(l, c)
      BY <3>1, CountCases
    <3>3. PICK b \in Int : c.balanceHist = Append(l.balanceHist, b)
      BY <3>2 DEF Lengthened
    <3>4. l.balanceHist \in Seq(Int)
      BY <3>1 DEF Ledgers
    <3> HIDE DEF c
    <3>5. Len(c.balanceHist) = Len(l.balanceHist) + 1
      BY <3>3, <3>4
    <3> QED BY <3>5 DEF c, l, u
  <2> QED BY <2>3, <2>4, <2>6, <2>8
<1>4. Len(list) \in T
  <2>1. Len(list) \in Nat
    OBVIOUS
  <2> HIDE DEF T
  <2> QED BY <1>2, <1>3, <2>1, SetInduction
<1>5. P(Len(list)) /\ FirstOf(list, Len(list)) = ToSet(list)
  BY <1>4, FirstOfSteps
<1> QED BY <1>1, <1>5

(***************************************************************************)
(* The loops of BRWalletUpdateTransactions and BRWalletNew.                *)
(***************************************************************************)
UpdateStart == [height |-> height, timestamp |-> timestamp, list |-> transactions, all |-> allTx, hashes |-> {}]

\* f: the states of the loop over txHashes
UpdateTrace(f, txHashes, h, ts) ==
    /\ f[0] = UpdateStart
    /\ \A n \in 1..Len(txHashes) : f[n] = UpdateOne(f[n - 1], txHashes[n], h, ts)
    /\ UpdateAll(txHashes, h, ts) = f[Len(txHashes)]

\* f: the lists BRWalletNew builds from the rows in the given order
LoadTrace(f, order, hts) ==
    /\ f[0] = <<>>
    /\ \A n \in 1..Len(order) :
          f[n] = InsertTx(f[n - 1], order[n], hts, {order[i] : i \in 1..n}, [c \in Chains |-> 0])
    /\ LoadedList(order, hts) = f[Len(order)]

\* The function of UpdateAll exists: the state after 0, 1, ... hashes.
LEMMA UpdateSteps ==
    ASSUME NEW txHashes \in Seq(Txs), NEW h, NEW ts
    PROVE  \E f : UpdateTrace(f, txHashes, h, ts)
<1> DEFINE C(l, n) == UpdateOne(l, txHashes[n], h, ts)
           m == Len(txHashes)
           E(f) == [n \in 0..m |-> IF n = 0 THEN UpdateStart ELSE C(f[n - 1], n)]
           f == CHOOSE q : q = E(q)
           P(n) == \E g : g[0] = UpdateStart /\ \A i \in 1..n : g[i] = C(g[i - 1], i)
           T == {n \in Nat : P(n)}
<1>1. m \in Nat
  OBVIOUS
<1>2. UpdateAll(txHashes, h, ts) = f[m]
  BY DEF UpdateAll, UpdateStart
<1> HIDE DEF C, m
<1>3. 0 \in T
  <2> DEFINE g == [i \in {0} |-> UpdateStart]
  <2>1. g[0] = UpdateStart /\ \A i \in 1..0 : g[i] = C(g[i - 1], i)
    OBVIOUS
  <2>2. P(0)
    <3> HIDE DEF g
    <3> QED BY <2>1
  <2> QED BY <2>2
<1>4. ASSUME NEW n \in Nat, n \in T PROVE n + 1 \in T
  <2>1. P(n)
    BY <1>4
  <2>2. PICK g : g[0] = UpdateStart /\ \A i \in 1..n : g[i] = C(g[i - 1], i)
    BY <2>1
  <2> DEFINE k == [i \in 0..(n + 1) |-> IF i = n + 1 THEN C(g[n], n + 1) ELSE g[i]]
  <2>3. k[0] = UpdateStart
    BY <2>2
  <2>4. ASSUME NEW i \in 1..(n + 1) PROVE k[i] = C(k[i - 1], i)
    <3>1. i - 1 \in 0..n /\ k[i - 1] = g[i - 1]
      OBVIOUS
    <3>2. CASE i = n + 1
      BY <3>1, <3>2
    <3>3. CASE i # n + 1
      <4>1. i \in 1..n /\ k[i] = g[i]
        BY <3>3
      <4>2. g[i] = C(g[i - 1], i)
        BY <2>2, <4>1
      <4> QED BY <3>1, <4>1, <4>2
    <3> QED BY <3>2, <3>3
  <2>5. P(n + 1)
    <3> HIDE DEF k
    <3> QED BY <2>3, <2>4
  <2> QED BY <2>5
<1>5. P(m)
  <2>1. m \in T
    <3> HIDE DEF T
    <3> QED BY <1>1, <1>3, <1>4, SetInduction
  <2> QED BY <2>1
<1>6. PICK g : g[0] = UpdateStart /\ \A i \in 1..m : g[i] = C(g[i - 1], i)
  BY <1>5
<1> DEFINE k == [i \in 0..m |-> g[i]]
<1>7. k = E(k)
  <2>1. ASSUME NEW i \in 0..m PROVE g[i] = IF i = 0 THEN UpdateStart ELSE C(k[i - 1], i)
    <3>1. CASE i = 0
      BY <1>6, <3>1
    <3>2. CASE i # 0
      <4>1. i \in 1..m /\ i - 1 \in 0..m
        BY <1>1, <3>2
      <4>2. k[i - 1] = g[i - 1]
        BY <4>1
      <4>3. g[i] = C(g[i - 1], i)
        BY <1>6, <4>1
      <4> QED BY <3>2, <4>2, <4>3
    <3> QED BY <3>1, <3>2
  <2> QED BY <2>1
<1>8. f = E(f)
  <2> HIDE DEF E, k
  <2> QED BY <1>7
<1>9. f[0] = UpdateStart /\ \A n \in 1..m : f[n] = C(f[n - 1], n)
  <2> HIDE DEF f
  <2>1. \A n \in 0..m : f[n] = IF n = 0 THEN UpdateStart ELSE C(f[n - 1], n)
    <3>1. \A n \in 0..m : E(f)[n] = IF n = 0 THEN UpdateStart ELSE C(f[n - 1], n)
      OBVIOUS
    <3> HIDE DEF E
    <3> QED BY <1>8, <3>1
  <2> QED BY <1>1, <2>1
<1> HIDE DEF f
<1>10. UpdateTrace(f, txHashes, h, ts)
  BY <1>2, <1>9 DEF C, m, UpdateTrace
<1> QED BY <1>10


\* The function of LoadedList exists: the list after 0, 1, ... rows.
LEMMA LoadSteps ==
    ASSUME NEW order \in Seq(Txs), NEW hts
    PROVE  \E f : LoadTrace(f, order, hts)
<1> DEFINE C(l, n) == InsertTx(l, order[n], hts, {order[i] : i \in 1..n}, [c \in Chains |-> 0])
           m == Len(order)
           E(f) == [n \in 0..m |-> IF n = 0 THEN <<>> ELSE C(f[n - 1], n)]
           f == CHOOSE h : h = E(h)
           P(n) == \E g : g[0] = <<>> /\ \A i \in 1..n : g[i] = C(g[i - 1], i)
           T == {n \in Nat : P(n)}
<1>1. m \in Nat
  OBVIOUS
<1>2. LoadedList(order, hts) = f[m]
  BY DEF LoadedList
<1> HIDE DEF C, m
<1>3. 0 \in T
  <2> DEFINE g == [i \in {0} |-> <<>>]
  <2>1. g[0] = <<>> /\ \A i \in 1..0 : g[i] = C(g[i - 1], i)
    OBVIOUS
  <2>2. P(0)
    <3> HIDE DEF g
    <3> QED BY <2>1
  <2> QED BY <2>2
<1>4. ASSUME NEW n \in Nat, n \in T PROVE n + 1 \in T
  <2>1. P(n)
    BY <1>4
  <2>2. PICK g : g[0] = <<>> /\ \A i \in 1..n : g[i] = C(g[i - 1], i)
    BY <2>1
  <2> DEFINE k == [i \in 0..(n + 1) |-> IF i = n + 1 THEN C(g[n], n + 1) ELSE g[i]]
  <2>3. k[0] = <<>>
    BY <2>2
  <2>4. ASSUME NEW i \in 1..(n + 1) PROVE k[i] = C(k[i - 1], i)
    <3>1. i - 1 \in 0..n /\ k[i - 1] = g[i - 1]
      OBVIOUS
    <3>2. CASE i = n + 1
      BY <3>1, <3>2
    <3>3. CASE i # n + 1
      <4>1. i \in 1..n /\ k[i] = g[i]
        BY <3>3
      <4>2. g[i] = C(g[i - 1], i)
        BY <2>2, <4>1
      <4> QED BY <3>1, <4>1, <4>2
    <3> QED BY <3>2, <3>3
  <2>5. P(n + 1)
    <3> HIDE DEF k
    <3> QED BY <2>3, <2>4
  <2> QED BY <2>5
<1>5. P(m)
  <2>1. m \in T
    <3> HIDE DEF T
    <3> QED BY <1>1, <1>3, <1>4, SetInduction
  <2> QED BY <2>1
<1>6. PICK g : g[0] = <<>> /\ \A i \in 1..m : g[i] = C(g[i - 1], i)
  BY <1>5
<1> DEFINE k == [i \in 0..m |-> g[i]]
<1>7. k = E(k)
  <2>1. ASSUME NEW i \in 0..m PROVE g[i] = IF i = 0 THEN <<>> ELSE C(k[i - 1], i)
    <3>1. CASE i = 0
      BY <1>6, <3>1
    <3>2. CASE i # 0
      <4>1. i \in 1..m /\ i - 1 \in 0..m
        BY <1>1, <3>2
      <4>2. k[i - 1] = g[i - 1]
        BY <4>1
      <4>3. g[i] = C(g[i - 1], i)
        BY <1>6, <4>1
      <4> QED BY <3>2, <4>2, <4>3
    <3> QED BY <3>1, <3>2
  <2> QED BY <2>1
<1>8. f = E(f)
  <2> HIDE DEF E, k
  <2> QED BY <1>7
<1>9. f[0] = <<>> /\ \A n \in 1..m : f[n] = C(f[n - 1], n)
  <2> HIDE DEF f
  <2>1. \A n \in 0..m : f[n] = IF n = 0 THEN <<>> ELSE C(f[n - 1], n)
    <3>1. \A n \in 0..m : E(f)[n] = IF n = 0 THEN <<>> ELSE C(f[n - 1], n)
      OBVIOUS
    <3> HIDE DEF E
    <3> QED BY <1>8, <3>1
  <2> QED BY <1>1, <2>1
<1> HIDE DEF f
<1>10. LoadTrace(f, order, hts)
  BY <1>2, <1>9 DEF C, m, LoadTrace
<1> QED BY <1>10


(***************************************************************************)
(* Which transactions belong to the wallet.                                *)
(***************************************************************************)
\* the transactions that pay one of the addresses W
Payers(W) == {t \in Txs : AddrsOf(t) \cap W # {}}

\* Dropping transactions that pay no wallet address does not change what belongs to the wallet.
LEMMA ContainsSame ==
    ASSUME NEW W, NEW all \in SUBSET Txs, NEW kept \in SUBSET all, all \cap Payers(W) \subseteq kept, NEW t \in Txs
    PROVE  ContainsTx(t, kept, W) <=> ContainsTx(t, all, W)
<1>1. \A o : o[1] \in Txs /\ o \in OwnedBy({o[1]}, W) => o[1] \in Payers(W)
  <2>1. \A o : o \in OwnedBy({o[1]}, W) => AddrOf(o) \in W /\ AddrOf(o) \in AddrsOf(o[1])
    BY DEF OwnedBy, AddrsOf
  <2> QED BY <2>1 DEF Payers
<1> QED BY <1>1 DEF ContainsTx

\* More known transactions and more addresses only add to what belongs to the wallet.
LEMMA ContainsMore ==
    ASSUME NEW W, NEW V, W \subseteq V, NEW all, NEW more, all \subseteq more, NEW t, ContainsTx(t, all, W)
    PROVE  ContainsTx(t, more, V)
<1>1. \A o : o \in OwnedBy({o[1]}, W) => o \in OwnedBy({o[1]}, V)
  BY DEF OwnedBy
<1> QED BY <1>1 DEF ContainsTx

(***************************************************************************)
(* What BRWalletUpdateTransactions keeps.                                  *)
(***************************************************************************)
Updates ==
    [height : HeightMaps, timestamp : [Txs -> {0, 1}], list : Seq(Txs), all : SUBSET Txs, hashes : SUBSET Txs]

\* s: the state after the hashes in S
UpdatedState(s, S, h) ==
    /\ s \in Updates
    /\ ToSet(s.list) = ToSet(transactions) /\ Len(s.list) = Len(transactions)
    /\ s.all \subseteq allTx /\ allTx \cap Payers(WalletAddrs(chainLen)) \subseteq s.all
    /\ s.hashes \subseteq S /\ \A t \in s.hashes : t \in allTx /\ ContainsTx(t, allTx, WalletAddrs(chainLen))
    /\ \A t \in Txs : s.height[t] = IF t \in s.hashes THEN h ELSE height[t]
    /\ \A t \in allTx \ s.all : ~ ContainsTx(t, allTx, WalletAddrs(chainLen))
    /\ \A t \in S \cap allTx : ContainsTx(t, allTx, WalletAddrs(chainLen)) => s.height[t] = h
    /\ IsInjective(transactions) => IsInjective(s.list)
    /\ IsInjective(transactions) /\ Sorted(transactions, height) => Sorted(s.list, s.height)

\* What the loop of BRWalletUpdateTransactions starts from.
LEMMA UpdateStartIs ==
    ASSUME height \in HeightMaps, timestamp \in [Txs -> {0, 1}], transactions \in Seq(Txs), allTx \in SUBSET Txs, NEW h
    PROVE  UpdatedState(UpdateStart, {}, h)
<1>1. /\ UpdateStart.height = height /\ UpdateStart.timestamp = timestamp /\ UpdateStart.list = transactions
      /\ UpdateStart.all = allTx /\ UpdateStart.hashes = {} /\ UpdateStart \in Updates
  BY DEF UpdateStart, Updates
<1> QED BY <1>1 DEF UpdatedState

\* One hash keeps it.
LEMMA UpdateOneKeeps ==
    ASSUME allTx \in SUBSET Txs, height \in HeightMaps, NEW S \in SUBSET Txs, NEW t \in Txs, NEW h \in Heights, NEW ts \in {0, 1},
           NEW s, UpdatedState(s, S, h), NEW r, r = UpdateOne(s, t, h, ts)
    PROVE  UpdatedState(r, S \cup {t}, h)
<1> DEFINE W == WalletAddrs(chainLen)
           hts == [s.height EXCEPT ![t] = h]
           list == Reinsert(s.list, t, hts, s.all, chainLen)
           r1 == [s EXCEPT !.height = hts, !.timestamp[t] = ts, !.list = list, !.hashes = s.hashes \cup {t}]
           r2 == [s EXCEPT !.timestamp[t] = ts]
           r3 == [s EXCEPT !.all = s.all \ {t}, !.timestamp[t] = 0]
<1>1. /\ s \in Updates /\ s.height \in HeightMaps /\ s.timestamp \in [Txs -> {0, 1}] /\ s.list \in Seq(Txs)
      /\ s.all \in SUBSET Txs /\ s.hashes \in SUBSET Txs
  BY DEF UpdatedState, Updates
<1>2. ContainsTx(t, s.all, W) <=> ContainsTx(t, allTx, W)
  <2> HIDE DEF W
  <2>1. s.all \subseteq allTx /\ allTx \cap Payers(W) \subseteq s.all
    BY DEF UpdatedState, W
  <2> QED BY <1>1, <2>1, ContainsSame
<1>3. CASE t \notin s.all \/ (s.height[t] = h /\ s.timestamp[t] = ts)
  <2>1. r = s
    BY <1>3 DEF UpdateOne
  <2>2. \A u \in (S \cup {t}) \cap allTx : ContainsTx(u, allTx, W) => s.height[u] = h
    BY <1>3 DEF UpdatedState
  <2> QED BY <2>1, <2>2 DEF UpdatedState
<1>4. ASSUME ~ (t \notin s.all \/ (s.height[t] = h /\ s.timestamp[t] = ts)) PROVE UpdatedState(r, S \cup {t}, h)
  <2>1. CASE ContainsTx(t, s.all, W)
    <3>1. r = r1
      BY <1>4, <2>1 DEF UpdateOne
    <3>2. hts \in HeightMaps /\ (\A u \in Txs : u # t => s.height[u] = hts[u]) /\ hts[t] = h
      BY <1>1 DEF HeightMaps
    <3>3. /\ list \in Seq(Txs) /\ Len(list) = Len(s.list) /\ ToSet(list) = ToSet(s.list)
          /\ IsInjective(s.list) => IsInjective(list)
          /\ IsInjective(s.list) /\ Sorted(s.list, s.height) => Sorted(list, hts)
      <4> DEFINE h1 == s.height
                 l1 == s.list
                 a1 == s.all
      <4> HIDE DEF hts, h1, l1, a1
      <4>1. h1 \in HeightMaps /\ l1 \in Seq(Txs) /\ a1 \in SUBSET Txs /\ \A u \in Txs : u # t => h1[u] = hts[u]
        BY <1>1, <3>2 DEF h1, l1, a1
      <4>2. /\ Reinsert(l1, t, hts, a1, chainLen) \in Seq(Txs)
            /\ Len(Reinsert(l1, t, hts, a1, chainLen)) = Len(l1)
            /\ ToSet(Reinsert(l1, t, hts, a1, chainLen)) = ToSet(l1)
            /\ IsInjective(l1) => IsInjective(Reinsert(l1, t, hts, a1, chainLen))
            /\ IsInjective(l1) /\ Sorted(l1, h1) => Sorted(Reinsert(l1, t, hts, a1, chainLen), hts)
        BY <3>2, <4>1, ReinsertKeeps
      <4> QED BY <4>2 DEF l1, h1, a1
    <3> HIDE DEF hts, list
    <3>4. r1.height = hts /\ r1.list = list /\ r1.hashes = s.hashes \cup {t} /\ r1.all = s.all /\ r1 \in Updates
      <4>1. [s.timestamp EXCEPT ![t] = ts] \in [Txs -> {0, 1}]
        BY <1>1
      <4>2. s.hashes \cup {t} \in SUBSET Txs
        BY <1>1
      <4> QED BY <1>1, <3>2, <3>3, <4>1, <4>2 DEF Updates
    <3> HIDE DEF r1
    <3>5. t \in s.all /\ t \in allTx /\ ContainsTx(t, allTx, W)
      BY <1>2, <1>4, <2>1 DEF UpdatedState
    <3>6. \A u \in Txs : hts[u] = IF u \in s.hashes \cup {t} THEN h ELSE height[u]
      BY <3>2 DEF UpdatedState
    <3>7. \A u \in (S \cup {t}) \cap allTx : ContainsTx(u, allTx, W) => hts[u] = h
      <4>1. \A u \in S \cap allTx : ContainsTx(u, allTx, W) => s.height[u] = h
        BY DEF UpdatedState
      <4> QED BY <3>2, <4>1
    <3>8. ToSet(list) = ToSet(transactions) /\ Len(list) = Len(transactions)
      BY <3>3 DEF UpdatedState
    <3>9. /\ IsInjective(transactions) => IsInjective(list)
          /\ IsInjective(transactions) /\ Sorted(transactions, height) => Sorted(list, hts)
      BY <3>3 DEF UpdatedState
    <3>10. /\ s.all \subseteq allTx /\ allTx \cap Payers(W) \subseteq s.all
           /\ s.hashes \subseteq S /\ \A u \in s.hashes : u \in allTx /\ ContainsTx(u, allTx, W)
           /\ \A u \in allTx \ s.all : ~ ContainsTx(u, allTx, W)
      BY DEF UpdatedState
    <3>11. \A u \in s.hashes \cup {t} : u \in allTx /\ ContainsTx(u, allTx, W)
      BY <3>5, <3>10
    <3> HIDE DEF W
    <3> QED BY <3>1, <3>4, <3>6, <3>7, <3>8, <3>9, <3>10, <3>11 DEF UpdatedState, W
  <2>2. CASE ~ ContainsTx(t, s.all, W) /\ h = Unconfirmed
    <3>1. r = r2
      BY <1>4, <2>2 DEF UpdateOne
    <3>2. r2 \in Updates /\ r2.height = s.height /\ r2.list = s.list /\ r2.all = s.all /\ r2.hashes = s.hashes
      <4>1. [s.timestamp EXCEPT ![t] = ts] \in [Txs -> {0, 1}]
        BY <1>1
      <4> QED BY <1>1, <4>1 DEF Updates
    <3>3. \A u \in (S \cup {t}) \cap allTx : ContainsTx(u, allTx, W) => s.height[u] = h
      BY <1>2, <2>2 DEF UpdatedState
    <3> QED BY <3>1, <3>2, <3>3 DEF UpdatedState
  <2>3. CASE ~ ContainsTx(t, s.all, W) /\ h # Unconfirmed
    <3>1. r = r3
      BY <1>4, <2>3 DEF UpdateOne
    <3>2. r3 \in Updates /\ r3.height = s.height /\ r3.list = s.list /\ r3.all = s.all \ {t} /\ r3.hashes = s.hashes
      <4>1. [s.timestamp EXCEPT ![t] = 0] \in [Txs -> {0, 1}]
        BY <1>1
      <4> QED BY <1>1, <4>1 DEF Updates
    <3>3. \A u \in (S \cup {t}) \cap allTx : ContainsTx(u, allTx, W) => s.height[u] = h
      BY <1>2, <2>3 DEF UpdatedState
    <3>4. t \notin Payers(W) /\ \A u \in allTx \ (s.all \ {t}) : ~ ContainsTx(u, allTx, W)
      BY <1>2, <2>3 DEF UpdatedState, Payers, ContainsTx
    <3>5. s.all \ {t} \subseteq allTx /\ allTx \cap Payers(W) \subseteq s.all \ {t}
      BY <3>4 DEF UpdatedState
    <3> QED BY <3>1, <3>2, <3>3, <3>4, <3>5 DEF UpdatedState
  <2> QED BY <2>1, <2>2, <2>3
<1> QED BY <1>3, <1>4

\* So do all of them.
LEMMA UpdateAllKeeps ==
    ASSUME height \in HeightMaps, timestamp \in [Txs -> {0, 1}], transactions \in Seq(Txs), allTx \in SUBSET Txs,
           NEW txHashes \in Seq(Txs), NEW h \in Heights, NEW ts \in {0, 1}
    PROVE  UpdatedState(UpdateAll(txHashes, h, ts), ToSet(txHashes), h)
<1>0. PICK f : UpdateTrace(f, txHashes, h, ts)
  BY UpdateSteps
<1>1. /\ f[0] = UpdateStart
      /\ \A n \in 1..Len(txHashes) : f[n] = UpdateOne(f[n - 1], txHashes[n], h, ts)
      /\ UpdateAll(txHashes, h, ts) = f[Len(txHashes)]
  BY <1>0 DEF UpdateTrace
<1> DEFINE P(n) == UpdatedState(f[n], FirstOf(txHashes, n), h)
           T == {n \in Nat : n <= Len(txHashes) => P(n)}
<1>2. 0 \in T
  BY <1>1, UpdateStartIs, FirstOfSteps
<1>3. ASSUME NEW n \in Nat, n \in T PROVE n + 1 \in T
  <2>1. SUFFICES ASSUME n + 1 <= Len(txHashes) PROVE P(n + 1)
    OBVIOUS
  <2>2. n <= Len(txHashes) /\ n + 1 \in 1..Len(txHashes) /\ (n + 1) - 1 = n /\ txHashes[n + 1] \in Txs
    BY <2>1
  <2>3. UpdatedState(f[n], FirstOf(txHashes, n), h)
    BY <1>3, <2>2
  <2>4. f[n + 1] = UpdateOne(f[n], txHashes[n + 1], h, ts)
    BY <1>1, <2>2
  <2>5. FirstOf(txHashes, n + 1) = FirstOf(txHashes, n) \cup {txHashes[n + 1]} /\ FirstOf(txHashes, n) \in SUBSET Txs
    BY <2>1, FirstOfSteps
  <2> QED BY <2>2, <2>3, <2>4, <2>5, UpdateOneKeeps
<1>4. Len(txHashes) \in T
  <2>1. Len(txHashes) \in Nat
    OBVIOUS
  <2> HIDE DEF T
  <2> QED BY <1>2, <1>3, <2>1, SetInduction
<1>5. P(Len(txHashes)) /\ FirstOf(txHashes, Len(txHashes)) = ToSet(txHashes)
  BY <1>4, FirstOfSteps
<1> QED BY <1>1, <1>5

(***************************************************************************)
(* The rows of the database put back into a list.                          *)
(***************************************************************************)
\* SetToSeqs: each element once.
LEMMA SeqsOfSet ==
    ASSUME NEW S, IsFiniteSet(S), NEW s \in SetToSeqs(S)
    PROVE  s \in Seq(S) /\ IsInjective(s) /\ ToSet(s) = S
<1> DEFINE D == 1..Cardinality(S)
<1>1. Cardinality(S) \in Nat
  BY FS_CardinalityType
<1>2. s \in [D -> S] /\ \A i, j \in D : i # j => s[i] # s[j]
  BY DEF SetToSeqs
<1>3. s \in Injection(D, S)
  BY <1>2 DEF Injection, IsInjective
<1>4. Cardinality(D) = Cardinality(S)
  BY <1>1, FS_Interval
<1>5. s \in Surjection(D, S)
  BY <1>3, <1>4, FS_Injection
<1>6. \A x \in S : \E i \in D : s[i] = x
  BY <1>5 DEF Surjection
<1>7. s \in Seq(S)
  BY <1>1, <1>2
<1>8. DOMAIN s = D
  BY <1>2
<1> HIDE DEF D
<1> QED BY <1>2, <1>6, <1>7, <1>8 DEF IsInjective, ToSet

\* The loaded list holds the rows, each once and sorted.
LEMMA LoadedListIs ==
    ASSUME NEW order \in Seq(Txs), IsInjective(order), NEW hts \in HeightMaps
    PROVE  /\ LoadedList(order, hts) \in Seq(Txs) /\ Len(LoadedList(order, hts)) = Len(order)
           /\ ToSet(LoadedList(order, hts)) = ToSet(order)
           /\ IsInjective(LoadedList(order, hts)) /\ Sorted(LoadedList(order, hts), hts)
<1>0. PICK f : LoadTrace(f, order, hts)
  BY LoadSteps
<1> DEFINE none == [c \in Chains |-> 0]
           Is(l, n) == /\ l \in Seq(Txs) /\ Len(l) = n /\ ToSet(l) = FirstOf(order, n)
                       /\ IsInjective(l) /\ Sorted(l, hts)
           P(n) == Is(f[n], n)
           T == {n \in Nat : n <= Len(order) => P(n)}
<1>1. /\ f[0] = <<>>
      /\ \A n \in 1..Len(order) : f[n] = InsertTx(f[n - 1], order[n], hts, FirstOf(order, n), none)
      /\ LoadedList(order, hts) = f[Len(order)]
  BY <1>0 DEF LoadTrace, FirstOf
<1> HIDE DEF none
<1>2. 0 \in T
  <2>1. Is(<<>>, 0)
    BY FirstOfSteps DEF ToSet, IsInjective, Sorted
  <2> QED BY <1>1, <2>1
<1>3. ASSUME NEW n \in Nat, n \in T PROVE n + 1 \in T
  <2>1. SUFFICES ASSUME n + 1 <= Len(order) PROVE P(n + 1)
    OBVIOUS
  <2>2. n <= Len(order) /\ n + 1 \in 1..Len(order) /\ (n + 1) - 1 = n /\ order[n + 1] \in Txs
    BY <2>1
  <2> DEFINE l == f[n]
             t == order[n + 1]
             all == FirstOf(order, n + 1)
  <2>3. Is(l, n)
    BY <1>3, <2>2
  <2>4. f[n + 1] = InsertTx(l, t, hts, all, none)
    BY <1>1, <2>2
  <2>5. all = FirstOf(order, n) \cup {t} /\ FirstOf(order, n) \in SUBSET Txs
    BY <2>1, FirstOfSteps
  <2>6. t \notin FirstOf(order, n)
    <3>1. \A i \in 1..n : i \in DOMAIN order /\ i # n + 1
      BY <2>1
    <3>2. n + 1 \in DOMAIN order
      BY <2>2
    <3> QED BY <3>1, <3>2 DEF IsInjective, FirstOf
  <2>7. l \in Seq(Txs) /\ t \in Txs /\ all \in SUBSET Txs
    BY <2>2, <2>3, <2>5
  <2> HIDE DEF l, t, all
  <2>8. /\ InsertTx(l, t, hts, all, none) \in Seq(Txs)
        /\ Len(InsertTx(l, t, hts, all, none)) = Len(l) + 1
        /\ ToSet(InsertTx(l, t, hts, all, none)) = ToSet(l) \cup {t}
        /\ IsInjective(l) /\ t \notin ToSet(l) => IsInjective(InsertTx(l, t, hts, all, none))
        /\ Sorted(l, hts) => Sorted(InsertTx(l, t, hts, all, none), hts)
    BY <2>7, InsertKeeps
  <2>9. Is(InsertTx(l, t, hts, all, none), n + 1)
    BY <2>3, <2>5, <2>6, <2>8 DEF all
  <2> QED BY <2>4, <2>9
<1>4. Len(order) \in T
  <2>1. Len(order) \in Nat
    OBVIOUS
  <2> HIDE DEF T
  <2> QED BY <1>2, <1>3, <2>1, SetInduction
<1>5. P(Len(order)) /\ FirstOf(order, Len(order)) = ToSet(order)
  BY <1>4, FirstOfSteps
<1> QED BY <1>1, <1>5

(***************************************************************************)
(* Address chains only grow.                                               *)
(***************************************************************************)
\* The indices of the addresses that are paid are numbers, and bounded.
LEMMA AddrTypes ==
    /\ \A a \in AllAddrs : a[2] \in Nat
    /\ \E n \in Nat : \A a \in AllAddrs : a[2] + 1 <= n
<1>1. ASSUME NEW a \in AllAddrs PROVE \E o \in Coins : AddrOf(o) = a
  BY DEF AllAddrs, AddrsOf, Coins
<1>2. ASSUME NEW o \in Coins PROVE AddrOf(o)[2] \in Nat
  <2>1. PICK t \in Txs : \E n \in DOMAIN Outputs[t] : o = <<t, n>>
    BY DEF Coins, Outpoints
  <2>5. PICK n \in DOMAIN Outputs[t] : o = <<t, n>>
    BY <2>1
  <2>2. Outputs[t] \in Seq([addr : STRING \X Nat, amount : Nat])
    BY OutputsAssumption
  <2> DEFINE s == Outputs[t]
  <2>3. s[n] \in [addr : STRING \X Nat, amount : Nat]
    <3> DEFINE R == [addr : STRING \X Nat, amount : Nat]
    <3>1. s \in Seq(R) /\ n \in DOMAIN s
      BY <2>2, <2>5
    <3> HIDE DEF R, s
    <3>2. s[n] \in R
      BY <3>1
    <3> QED BY <3>2 DEF R
  <2>4. AddrOf(o) = s[n].addr
    BY <2>5 DEF AddrOf
  <2> HIDE DEF s
  <2> QED BY <2>3, <2>4
<1>3. \A a \in AllAddrs : a[2] \in Nat
  BY <1>1, <1>2
<1> DEFINE f == [o \in Coins |-> AddrOf(o)[2] + 1]
           I == {AddrOf(o)[2] + 1 : o \in Coins}
<1>4. f \in Surjection(Coins, I)
  BY DEF Surjection
<1>5. IsFiniteSet(Coins)
  BY CoinTypes
<1>6. IsFiniteSet(I)
  <2> HIDE DEF f, I
  <2> QED BY <1>4, <1>5, FS_Surjection
<1>7. I \subseteq Nat
  BY <1>2
<1>8. PICK n \in Nat : \A m \in I : m <= n
  <2> HIDE DEF I
  <2> QED BY <1>6, <1>7, FiniteIsBounded
<1>9. \A a \in AllAddrs : a[2] + 1 \in I
  BY <1>1
<1> QED BY <1>3, <1>8, <1>9

\* BRWalletUnusedAddrs only lengthens the chains.
LEMMA UnusedAddrsGrow ==
    ASSUME NEW len \in [Chains -> Nat], NEW c \in Chains, NEW gap \in Nat, NEW used \in SUBSET AllAddrs
    PROVE  /\ UnusedAddrs(len, c, gap, used) \in [Chains -> Nat]
           /\ \A d \in Chains : UnusedAddrs(len, c, gap, used)[d] >= len[d]
<1> DEFINE reached(n) == \A i \in (n - gap)..(n - 1) : <<c, i>> \notin used
           I == {len[c]} \cup {u[2] + 1 : u \in {a \in used : a[1] = c}}
           m == Max(I)
           lengths == len[c]..(m + gap)
           N == {n \in lengths : n >= gap /\ reached(n)}
<1>1. UnusedAddrs(len, c, gap, used) = [len EXCEPT ![c] = Min(N)]
  BY DEF UnusedAddrs
<1>2. len[c] \in Nat
  OBVIOUS
<1>3. \A u \in used : u[2] \in Nat
  BY AddrTypes
<1>4. I \subseteq Nat /\ I # {}
  BY <1>2, <1>3
<1>5. \E k \in Nat : \A x \in I : x <= k
  <2>1. PICK k \in Nat : \A a \in AllAddrs : a[2] + 1 <= k
    BY AddrTypes
  <2>2. \A x \in I : x <= k + len[c]
    <3>1. \A u \in used : u[2] \in Nat /\ u[2] + 1 <= k
      BY <1>3, <2>1
    <3>2. \A u \in used : u[2] + 1 <= k + len[c]
      BY <1>2, <3>1
    <3>3. len[c] <= k + len[c]
      BY <1>2
    <3> QED BY <3>2, <3>3
  <2>3. k + len[c] \in Nat
    BY <1>2
  <2> HIDE DEF I
  <2> QED BY <2>2, <2>3
<1>6. m \in I /\ \A x \in I : x <= m
  <2> HIDE DEF I
  <2> QED BY <1>4, <1>5, MaxInSet
<1>7. m \in Nat /\ len[c] <= m
  <2>1. len[c] \in I
    OBVIOUS
  <2> HIDE DEF I, m
  <2> QED BY <1>4, <1>6, <2>1
<1>8. \A u \in used : u[1] = c => u[2] + 1 <= m
  <2>1. \A u \in used : u[1] = c => u[2] + 1 \in I
    OBVIOUS
  <2> HIDE DEF I, m
  <2> QED BY <1>6, <2>1
<1> HIDE DEF m, I
<1>9. m + gap \in N
  <2>1. m + gap \in lengths /\ m + gap >= gap /\ (m + gap) - gap = m
    BY <1>2, <1>7
  <2>2. ASSUME NEW i \in m..((m + gap) - 1), <<c, i>> \in used PROVE FALSE
    <3>1. <<c, i>>[1] = c /\ <<c, i>>[2] = i
      OBVIOUS
    <3>2. i + 1 <= m
      BY <1>8, <2>2, <3>1
    <3> QED BY <1>7, <3>2
  <2> QED BY <2>1, <2>2
<1>10. N \subseteq Nat /\ \A n \in N : n >= len[c]
  BY <1>2, <1>7
<1> HIDE DEF N
<1>11. Min(N) \in N
  BY <1>9, <1>10, MinInSet
<1>12. Min(N) \in Nat /\ Min(N) >= len[c]
  BY <1>10, <1>11
<1> QED BY <1>1, <1>12

\* So does topping up both.
LEMMA TopUpGrows ==
    ASSUME NEW len \in [Chains -> Nat], NEW extra \in Nat, NEW used \in SUBSET AllAddrs
    PROVE  /\ TopUp(len, extra, used) \in [Chains -> Nat]
           /\ \A d \in Chains : TopUp(len, extra, used)[d] >= len[d]
<1> DEFINE l1 == UnusedAddrs(len, External, GapLimit[External] + extra, used)
           g1 == GapLimit[External] + extra
           g2 == GapLimit[Internal] + extra
<1>1. External \in Chains /\ Internal \in Chains
  BY DEF Chains
<1>2. g1 \in Nat /\ g2 \in Nat
  BY <1>1, ConstantsAssumption
<1>3. l1 = UnusedAddrs(len, External, g1, used) /\ TopUp(len, extra, used) = UnusedAddrs(l1, Internal, g2, used)
  BY DEF TopUp
<1> HIDE DEF l1, g1, g2
<1>4. l1 \in [Chains -> Nat] /\ \A d \in Chains : l1[d] >= len[d]
  BY <1>1, <1>2, <1>3, UnusedAddrsGrow
<1> DEFINE l2 == UnusedAddrs(l1, Internal, g2, used)
<1>5. l2 \in [Chains -> Nat] /\ \A d \in Chains : l2[d] >= l1[d]
  BY <1>1, <1>2, <1>4, UnusedAddrsGrow
<1> HIDE DEF l2
<1>6. \A d \in Chains : l2[d] >= len[d]
  <2>1. \A d \in Chains : l2[d] \in Nat /\ l1[d] \in Nat /\ len[d] \in Nat
    BY <1>4, <1>5
  <2> QED BY <1>4, <1>5, <2>1
<1> QED BY <1>3, <1>5, <1>6 DEF l2

\* Longer chains hold the addresses of shorter ones.
LEMMA MoreAddrs ==
    ASSUME NEW len \in [Chains -> Nat], NEW more \in [Chains -> Nat], \A c \in Chains : more[c] >= len[c]
    PROVE  WalletAddrs(len) \subseteq WalletAddrs(more)
<1>1. \A c \in Chains : 0..(len[c] - 1) \subseteq 0..(more[c] - 1)
  <2>1. \A c \in Chains : len[c] \in Nat /\ more[c] \in Nat
    OBVIOUS
  <2> QED BY <2>1
<1> QED BY <1>1 DEF WalletAddrs

(***************************************************************************)
(* The queue of CoreDatabase, and the rows its closures leave.             *)
(***************************************************************************)
\* The changes the callbacks queue.
LEMMA ChangeTypes ==
    /\ \A t \in Txs : Added(t) \in Changes /\ Deleted(t) \in Changes
    /\ \A hashes \in SUBSET Txs, h \in Heights, ts \in {0, 1} : Updated(hashes, h, ts) \in Changes
    /\ \A chain \in ChainSet : SavedBlocks(chain) \in Changes
<1>1. \A t \in Txs : Added(t) \in Changes /\ Deleted(t) \in Changes
  BY DEF Added, Deleted, Changes
<1>2. \A hashes \in SUBSET Txs, h \in Heights, ts \in {0, 1} : Updated(hashes, h, ts) \in Changes
  BY DEF Updated, Changes
<1>3. \A chain \in ChainSet : SavedBlocks(chain) \in Changes
  BY DEF SavedBlocks, Changes
<1> QED BY <1>1, <1>2, <1>3

\* What a callback of the wallet leaves on the queue.
LEMMA QueueTypes ==
    ASSUME queue \in Seq(Changes)
    PROVE  /\ \A t \in Txs : TxAdded(t) \/ TxDeleted(t) => queue' \in Seq(Changes)
           /\ \A hashes \in SUBSET Txs, h \in Heights, ts \in {0, 1} : TxUpdated(hashes, h, ts) => queue' \in Seq(Changes)
<1>1. \A c \in Changes : Append(queue, c) \in Seq(Changes)
  OBVIOUS
<1> QED BY <1>1, ChangeTypes DEF TxAdded, TxDeleted, TxUpdated, Enqueue

\* The closure at the head of the queue, and what is behind it.
LEMMA HeadTypes ==
    ASSUME queue \in Seq(Changes), queue # <<>>
    PROVE  /\ Tail(queue) \in Seq(Changes)
           /\ Head(queue).op \in {"added", "deleted", "updated"} => Head(queue).txs \in SUBSET Txs
           /\ Head(queue).op = "updated" => Head(queue).height \in Heights /\ Head(queue).timestamp \in {0, 1}
           /\ Head(queue).op = "blocks" => Head(queue).chain \in ChainSet
<1> DEFINE c == Head(queue)
<1>1. c \in Changes /\ Tail(queue) \in Seq(Changes)
  OBVIOUS
<1> HIDE DEF c
<1>2. /\ c.op \in {"added", "deleted", "updated"} => c.txs \in SUBSET Txs
      /\ c.op = "updated" => c.height \in Heights /\ c.timestamp \in {0, 1}
      /\ c.op = "blocks" => c.chain \in ChainSet
  BY <1>1 DEF Changes
<1> QED BY <1>1, <1>2 DEF c

RowsOK(r) == DOMAIN r \subseteq Txs /\ \A t \in DOMAIN r : r[t] \in Row

\* Rows rewritten with a height.
LEMMA RowsUpdated ==
    ASSUME NEW hashes, NEW h \in Heights, NEW ts \in {0, 1}, RowsOK(rows), NEW r, r = UpdatedRows(hashes, h, ts)
    PROVE  /\ RowsOK(r) /\ DOMAIN r = DOMAIN rows
           /\ \A t \in DOMAIN rows : r[t].height = IF t \in hashes THEN h ELSE rows[t].height
<1> DEFINE row == [height |-> h, timestamp |-> ts]
<1>1. r = [t \in DOMAIN rows |-> IF t \in hashes THEN row ELSE rows[t]]
  BY DEF UpdatedRows
<1>2. row \in Row /\ row.height = h
  BY DEF Row
<1> HIDE DEF row
<1> QED BY <1>1, <1>2 DEF RowsOK

\* The closure of txAdded.
LEMMA RowAdded ==
    ASSUME height \in HeightMaps, timestamp \in [Txs -> {0, 1}], queue \in Seq(Changes), RowsOK(rows), WriteAdded
    PROVE  /\ RowsOK(rows') /\ DOMAIN rows' = DOMAIN rows \cup Head(queue).txs
           /\ \A t \in DOMAIN rows' : rows'[t].height = IF t \in Head(queue).txs THEN height[t] ELSE rows[t].height
<1> DEFINE S == Head(queue).txs
           D == DOMAIN rows \cup S
           row(t) == [height |-> height[t], timestamp |-> timestamp[t]]
<1>1. rows' = [t \in D |-> IF t \in S THEN row(t) ELSE rows[t]] /\ queue # <<>> /\ Head(queue).op = "added"
  BY DEF WriteAdded, Write
<1>2. S \in SUBSET Txs
  BY <1>1, HeadTypes
<1>3. \A t \in Txs : row(t) \in Row /\ row(t).height = height[t]
  BY DEF Row, HeightMaps
<1> HIDE DEF S, row
<1>4. DOMAIN rows' = D /\ \A t \in D : rows'[t] = IF t \in S THEN row(t) ELSE rows[t]
  BY <1>1
<1>5. RowsOK(rows') /\ \A t \in D : rows'[t].height = IF t \in S THEN height[t] ELSE rows[t].height
  BY <1>2, <1>3, <1>4 DEF RowsOK
<1> QED BY <1>4, <1>5 DEF S

\* The closure of txDeleted.
LEMMA RowDeleted ==
    ASSUME RowsOK(rows), WriteDeleted
    PROVE  /\ RowsOK(rows') /\ DOMAIN rows' = DOMAIN rows \ Head(queue).txs
           /\ \A t \in DOMAIN rows' : rows'[t] = rows[t]
<1>1. rows' = [u \in DOMAIN rows \ Head(queue).txs |-> rows[u]]
  BY DEF WriteDeleted, Restrict
<1> QED BY <1>1 DEF RowsOK

\* What a stopped process leaves has the same transactions.
LEMMA RowsLeftAre ==
    ASSUME queue \in Seq(Changes), RowsOK(rows), NEW r \in RowsLeft
    PROVE  RowsOK(r) /\ DOMAIN r = DOMAIN rows
<1>1. CASE r = rows
  BY <1>1
<1>2. CASE /\ queue # <<>> /\ Head(queue).op = "updated"
           /\ \E S \in SUBSET Head(queue).txs : r = UpdatedRows(S, Head(queue).height, Head(queue).timestamp)
  <2>1. Head(queue).height \in Heights /\ Head(queue).timestamp \in {0, 1}
    BY <1>2, HeadTypes
  <2> QED BY <1>2, <2>1, RowsUpdated
<1> QED BY <1>1, <1>2 DEF RowsLeft

(***************************************************************************)
(* The first invariant: types, and a ledger that fits the list.            *)
(***************************************************************************)
LedgerFits == Fits(ledger, Listed, height) /\ Len(ledger.balanceHist) = Len(transactions)
Inv == TypeOK /\ LedgerFits

\* the types of everything but the ledger
VarTypes ==
    /\ height \in HeightMaps /\ timestamp \in [Txs -> {0, 1}] /\ blockHeight \in Heights
    /\ transactions \in Seq(Txs) /\ removing \in Seq(Txs) /\ allTx \in SUBSET Txs
    /\ chainLen \in [Chains -> Nat] /\ queue \in Seq(Changes) /\ RowsOK(rows) /\ alive \in BOOLEAN
EnvTypes ==
    tip \in 0..MaxHeight /\ mined \in [Txs -> 0..MaxHeight] /\ now \in MaxLockHeight..MaxTime /\ start \in ChainSet

\* The type invariant and the ledger, taken apart.
LEMMA InvIs == Inv <=> VarTypes /\ EnvTypes /\ LedgerFits
<1>1. ASSUME LedgerFits PROVE DOMAIN ledger = DOMAIN EmptyLedger
  <2>1. ledger \in Ledgers
    BY <1>1 DEF LedgerFits, Fits
  <2> QED BY <2>1 DEF Ledgers, EmptyLedger
<1>2. DOMAIN ledger = DOMAIN EmptyLedger => (TypeOK <=> VarTypes /\ EnvTypes)
  <2>1. Chain \in ChainSet <=> tip \in 0..MaxHeight /\ mined \in [Txs -> 0..MaxHeight]
    BY DEF Chain, ChainSet
  <2> HIDE DEF Chain, ChainSet
  <2> QED BY <2>1 DEF TypeOK, VarTypes, EnvTypes, HeightMaps, RowsOK
<1>3. TypeOK => VarTypes /\ EnvTypes
  BY <1>2 DEF TypeOK
<1> QED BY <1>1, <1>2, <1>3 DEF Inv

\* the ledger _BRWalletUpdateBalance builds for the list
LEMMA RecomputeFits ==
    ASSUME VarTypes', NEW addrs, NEW bh, NEW clock, ledger' = UpdateBalance(transactions', height', addrs, bh, clock)
    PROVE  LedgerFits'
<1>1. transactions' \in Seq(Txs)
  BY DEF VarTypes
<1> DEFINE l == transactions'
           h == height'
<1>2. /\ Fits(UpdateBalance(l, h, addrs, bh, clock), ToSet(l), h)
      /\ Len(UpdateBalance(l, h, addrs, bh, clock).balanceHist) = Len(l)
  <2> HIDE DEF l, h
  <2>1. l \in Seq(Txs)
    BY <1>1 DEF l
  <2> QED BY <2>1, UpdateFits
<1>3. Fits(ledger', ToSet(transactions'), height') /\ Len(ledger'.balanceHist) = Len(transactions')
  BY <1>2
<1> QED BY <1>3 DEF LedgerFits, Listed

\* A ledger fits any list of the same transactions and heights that keep what it leaves out unconfirmed.
LEMMA FitsStill ==
    ASSUME LedgerFits, ledger' = ledger, ToSet(transactions') = ToSet(transactions), Len(transactions') = Len(transactions),
           \A t \in ledger.invalidTx \cup ledger.pendingTx : height'[t] = height[t]
    PROVE  LedgerFits'
<1>1. Fits(ledger, ToSet(transactions), height) /\ Len(ledger.balanceHist) = Len(transactions)
  BY DEF LedgerFits, Listed
<1>2. Fits(ledger, ToSet(transactions), height')
  BY <1>1 DEF Fits
<1>3. Fits(ledger', ToSet(transactions'), height') /\ Len(ledger'.balanceHist) = Len(transactions')
  BY <1>1, <1>2
<1> QED BY <1>3 DEF LedgerFits, Listed

\* The greater of two heights.
LEMMA RaisedHeightType ==
    ASSUME blockHeight \in Heights, NEW h \in Heights
    PROVE  RaisedHeight(h) \in Heights
<1> DEFINE S == {blockHeight, h}
<1>1. S \subseteq Nat /\ S # {} /\ Unconfirmed \in Nat /\ \A m \in S : m <= Unconfirmed
  BY HeightTypes
<1> HIDE DEF S
<1>2. Max(S) \in S
  BY <1>1, MaxInSet
<1> QED BY <1>2 DEF RaisedHeight, S

\* BRWalletRegisterTransaction keeps types and ledger.
LEMMA RegisterKeeps ==
    ASSUME VarTypes, EnvTypes, LedgerFits, NEW t \in Txs, NEW ts \in {0, 1}, RegisterTransaction(t, ts)
    PROVE  VarTypes' /\ EnvTypes' /\ LedgerFits'
<1>0. EnvTypes'
  BY DEF RegisterTransaction, RegisterWalletTx, RegisterOtherTx, RegisterKnownTx, chainVars, dbVars, vars, EnvTypes
<1>1. CASE RegisterWalletTx(t, ts)
  <2>1. /\ height \in HeightMaps /\ transactions \in Seq(Txs) /\ allTx' \in SUBSET Txs /\ queue \in Seq(Changes)
        /\ timestamp' \in [Txs -> {0, 1}]
    BY <1>1 DEF VarTypes, RegisterWalletTx
  <2> DEFINE all == allTx'
  <2>2. transactions' \in Seq(Txs)
    <3>1. all \in SUBSET Txs
      BY <2>1
    <3> HIDE DEF all
    <3>2. InsertTx(transactions, t, height, all, chainLen) \in Seq(Txs)
      BY <2>1, <3>1, InsertKeeps
    <3> QED BY <1>1, <3>2 DEF RegisterWalletTx, all
  <2>3. queue' \in Seq(Changes)
    BY <1>1, <2>1, QueueTypes DEF RegisterWalletTx
  <2>4. ledger'.usedAddrs \in SUBSET AllAddrs
    <3> DEFINE l == transactions'
    <3>1. l \in Seq(Txs)
      BY <2>2
    <3> HIDE DEF l
    <3>2. Fits(UpdateBalance(l, height, WalletAddrs(chainLen), blockHeight, now), ToSet(l), height)
      BY <3>1, UpdateFits
    <3>3. UpdateBalance(l, height, WalletAddrs(chainLen), blockHeight, now) \in Ledgers
      BY <3>2 DEF Fits
    <3>4. ledger' \in Ledgers
      BY <1>1, <3>3 DEF RegisterWalletTx, Recompute, l
    <3> QED BY <3>4 DEF Ledgers
  <2>5. chainLen' \in [Chains -> Nat]
    <3> DEFINE used == ledger'.usedAddrs
    <3>1. used \in SUBSET AllAddrs /\ 0 \in Nat /\ chainLen \in [Chains -> Nat]
      BY <2>4 DEF VarTypes
    <3> HIDE DEF used
    <3>2. TopUp(chainLen, 0, used) \in [Chains -> Nat]
      BY <3>1, TopUpGrows
    <3> QED BY <1>1, <3>2 DEF RegisterWalletTx, used
  <2>6. VarTypes'
    BY <1>1, <2>1, <2>2, <2>3, <2>5 DEF VarTypes, RegisterWalletTx, dbVars
  <2>7. ledger' = UpdateBalance(transactions', height', WalletAddrs(chainLen), blockHeight, now)
    BY <1>1 DEF RegisterWalletTx, Recompute
  <2> QED BY <1>0, <2>6, <2>7, RecomputeFits
<1>2. CASE RegisterOtherTx(t, ts)
  <2>1. VarTypes'
    BY <1>2 DEF RegisterOtherTx, VarTypes, dbVars
  <2> QED BY <1>0, <1>2, <2>1 DEF RegisterOtherTx, LedgerFits, Listed
<1>3. CASE RegisterKnownTx(t)
  BY <1>0, <1>3 DEF RegisterKnownTx, vars, walletVars, dbVars, VarTypes, LedgerFits, Listed
<1> QED BY <1>1, <1>2, <1>3 DEF RegisterTransaction

\* BRWalletUpdateTransactions recomputes the ledger when it changes a transaction that the ledger leaves out.
LEMMA UpdateKeeps ==
    ASSUME VarTypes, LedgerFits, NEW txHashes \in Seq(Txs), NEW h \in Heights, NEW ts \in {0, 1},
           UpdateTransactions(txHashes, h, ts)
    PROVE  VarTypes' /\ LedgerFits' /\ start' = start
<1> DEFINE s == UpdateAll(txHashes, h, ts)
<1>1. UpdatedState(s, ToSet(txHashes), h)
  BY UpdateAllKeeps DEF VarTypes
<1>2. /\ blockHeight' = RaisedHeight(h) /\ height' = s.height /\ timestamp' = s.timestamp
      /\ transactions' = s.list /\ allTx' = s.all
      /\ IF \E t \in s.hashes : NeedsUpdate(t)
         THEN Recompute(s.list, s.height, blockHeight') ELSE UNCHANGED ledger
      /\ TxUpdated(s.hashes, h, ts)
      /\ UNCHANGED <<chainLen, removing, rows, alive, start>>
  BY DEF UpdateTransactions, dbVars
<1> HIDE DEF s
<1>3. s \in Updates
  BY <1>1 DEF UpdatedState
<1>4. queue' \in Seq(Changes)
  <2>1. queue \in Seq(Changes) /\ TxUpdated(s.hashes, h, ts) /\ s.hashes \in SUBSET Txs
    BY <1>2, <1>3 DEF VarTypes, Updates
  <2> QED BY <2>1, QueueTypes
<1>5. VarTypes'
  <2>1. RaisedHeight(h) \in Heights
    BY RaisedHeightType DEF VarTypes
  <2> QED BY <1>2, <1>3, <1>4, <2>1 DEF VarTypes, Updates
<1>6. CASE \E t \in s.hashes : NeedsUpdate(t)
  <2>1. ledger' = UpdateBalance(transactions', height', WalletAddrs(chainLen), blockHeight', now)
    BY <1>2, <1>6 DEF Recompute
  <2> QED BY <1>2, <1>5, <2>1, RecomputeFits
<1>7. CASE \A t \in s.hashes : ~ NeedsUpdate(t)
  <2>1. ledger' = ledger
    BY <1>2, <1>7
  <2>2. \A t \in Txs : t \notin s.hashes => height'[t] = height[t]
    BY <1>1, <1>2 DEF UpdatedState
  <2>3. ledger.invalidTx \subseteq Txs /\ ledger.pendingTx \subseteq Txs
    BY DEF LedgerFits, Fits, Ledgers
  <2>4. \A t \in ledger.invalidTx \cup ledger.pendingTx : height'[t] = height[t]
    BY <1>7, <2>2, <2>3 DEF NeedsUpdate
  <2>5. ToSet(transactions') = ToSet(transactions) /\ Len(transactions') = Len(transactions)
    BY <1>1, <1>2 DEF UpdatedState
  <2> QED BY <1>2, <1>5, <2>1, <2>4, <2>5, FitsStill
<1> QED BY <1>2, <1>5, <1>6, <1>7

\* The transactions of a block are distinct members of Txs.
LEMMA BlockTypes ==
    ASSUME NEW block \in Blocks
    PROVE  block \in Seq(Txs) /\ ToSet(block) \subseteq Txs
<1>1. CASE block = <<>>
  BY <1>1 DEF ToSet
<1>2. CASE \E S \in SUBSET Txs : block \in SetToSeqs(S)
  <2>1. PICK S \in SUBSET Txs : block \in SetToSeqs(S)
    BY <1>2
  <2>2. IsFiniteSet(S)
    BY ConstantsAssumption, FS_Subset
  <2>3. block \in Seq(S) /\ ToSet(block) = S
    BY <2>1, <2>2, SeqsOfSet
  <2> QED BY <2>3
<1> QED BY <1>1, <1>2 DEF Blocks

\* So does a block,
LEMMA BlockKeeps ==
    ASSUME VarTypes, EnvTypes, LedgerFits, NEW block \in Blocks, BlockConfirms(block)
    PROVE  VarTypes' /\ EnvTypes' /\ LedgerFits'
<1>1. tip + 1 \in 0..MaxHeight /\ tip + 1 \in Heights /\ tip' = tip + 1
  BY ConstantsAssumption DEF EnvTypes, BlockConfirms, Heights
<1>2. ASSUME start' = start PROVE EnvTypes'
  BY <1>1, <1>2 DEF EnvTypes, BlockConfirms
<1>3. CASE block # <<>>
  <2>1. UpdateTransactions(block, tip + 1, 1) /\ block \in Seq(Txs) /\ 1 \in {0, 1}
    BY <1>3, BlockTypes DEF BlockConfirms
  <2> QED BY <1>1, <1>2, <2>1, UpdateKeeps
<1>4. CASE block = <<>>
  BY <1>2, <1>4 DEF BlockConfirms, walletVars, dbVars, VarTypes, LedgerFits, Listed
<1> QED BY <1>3, <1>4

\* a relay count,
LEMMA RelayKeeps ==
    ASSUME VarTypes, EnvTypes, LedgerFits, NEW t \in Txs, NEW ts \in {0, 1}, RelayCountChanges(t, ts)
    PROVE  VarTypes' /\ EnvTypes' /\ LedgerFits'
<1>1. start' = start => EnvTypes'
  BY DEF RelayCountChanges, EnvTypes, chainVars
<1>2. UpdateTransactions(<<t>>, Unconfirmed, ts) /\ <<t>> \in Seq(Txs) /\ Unconfirmed \in Heights
  BY DEF RelayCountChanges, Heights
<1> QED BY <1>1, <1>2, UpdateKeeps

(***************************************************************************)
(* BRWalletRemoveTransaction and BRWalletSetTxUnconfirmedAfter.            *)
(***************************************************************************)
IsDependent(u, t) == u # t /\ t \in ParentsOf(u)

\* The dependents are the transactions behind the first ones, below the height of t, that spend an output of t.
LEMMA DependentsIs ==
    ASSUME transactions \in Seq(Txs), NEW t
    PROVE  \E from \in 0..Len(transactions) :
             /\ from = LastOf({i \in 1..Len(transactions) : height[transactions[i]] < height[t]})
             /\ Dependents(t) \in Seq(Txs)
             /\ \A u : u \in ToSet(Dependents(t)) <=>
                       \E i \in (from + 1)..Len(transactions) : transactions[i] = u /\ IsDependent(u, t)
<1> DEFINE m == Len(transactions)
           I == {i \in 1..m : height[transactions[i]] < height[t]}
           from == LastOf(I)
           C(l, n) == IF IsDependent(transactions[n], t) THEN Append(l, transactions[n]) ELSE l
           E(f) == [n \in from..m |-> IF n = from THEN <<>> ELSE C(f[n - 1], n)]
           f == CHOOSE h : h = E(h)
           P(n) == \E g : g[from] = <<>> /\ \A i \in (from + 1)..n : g[i] = C(g[i - 1], i)
           T == {n \in Nat : P(n)}
<1>1. m \in Nat /\ I \in SUBSET (1..m)
  OBVIOUS
<1>2. from \in 0..m /\ from \in Nat
  <2> HIDE DEF m, I
  <2> QED BY <1>1, LastPosition
<1>3. Dependents(t) = f[m]
  BY DEF Dependents, SelectLastInSeq, LastOf, IsDependent
<1> HIDE DEF C, m, from, I
<1>4. ASSUME NEW n \in Nat, n <= from PROVE n \in T
  <2> DEFINE g == [i \in {from} |-> <<>>]
  <2>1. g[from] = <<>> /\ \A i \in (from + 1)..n : g[i] = C(g[i - 1], i)
    BY <1>2, <1>4
  <2>2. P(n)
    <3> HIDE DEF g
    <3> QED BY <2>1
  <2> QED BY <2>2
<1>5. ASSUME NEW n \in Nat, n \in T PROVE n + 1 \in T
  <2>1. CASE n + 1 <= from
    BY <1>4, <2>1
  <2>2. CASE ~ (n + 1 <= from)
    <3>1. n >= from
      BY <1>2, <2>2
    <3>2. P(n)
      BY <1>5
    <3>3. PICK g : g[from] = <<>> /\ \A i \in (from + 1)..n : g[i] = C(g[i - 1], i)
      BY <3>2
    <3> DEFINE k == [i \in from..(n + 1) |-> IF i = n + 1 THEN C(g[n], n + 1) ELSE g[i]]
    <3>4. k[from] = <<>>
      BY <1>2, <3>1, <3>3
    <3>5. ASSUME NEW i \in (from + 1)..(n + 1) PROVE k[i] = C(k[i - 1], i)
      <4>1. i - 1 \in from..n /\ i \in from..(n + 1) /\ k[i - 1] = g[i - 1]
        BY <1>2
      <4>2. CASE i = n + 1
        BY <4>1, <4>2
      <4>3. CASE i # n + 1
        <5>1. i \in (from + 1)..n /\ k[i] = g[i]
          BY <1>2, <4>1, <4>3
        <5>2. g[i] = C(g[i - 1], i)
          BY <3>3, <5>1
        <5> QED BY <4>1, <5>1, <5>2
      <4> QED BY <4>2, <4>3
    <3>6. P(n + 1)
      <4> HIDE DEF k
      <4> QED BY <3>4, <3>5
    <3> QED BY <3>6
  <2> QED BY <2>1, <2>2
<1>6. P(m)
  <2>1. m \in T
    <3>1. 0 \in T
      BY <1>2, <1>4
    <3> HIDE DEF T
    <3> QED BY <1>1, <1>5, <3>1, SetInduction
  <2> QED BY <2>1
<1>7. PICK g : g[from] = <<>> /\ \A i \in (from + 1)..m : g[i] = C(g[i - 1], i)
  BY <1>6
<1> DEFINE k == [i \in from..m |-> g[i]]
<1>8. k = E(k)
  <2>1. ASSUME NEW i \in from..m PROVE g[i] = IF i = from THEN <<>> ELSE C(k[i - 1], i)
    <3>1. CASE i = from
      BY <1>7, <3>1
    <3>2. CASE i # from
      <4>1. i \in (from + 1)..m /\ i - 1 \in from..m
        BY <1>1, <1>2, <3>2
      <4>2. k[i - 1] = g[i - 1]
        BY <4>1
      <4>3. g[i] = C(g[i - 1], i)
        BY <1>7, <4>1
      <4> QED BY <3>2, <4>2, <4>3
    <3> QED BY <3>1, <3>2
  <2> QED BY <2>1
<1>9. f = E(f)
  <2> HIDE DEF E, k
  <2> QED BY <1>8
<1>10. f[from] = <<>> /\ \A n \in (from + 1)..m : f[n] = C(f[n - 1], n)
  <2> HIDE DEF f
  <2>1. \A n \in from..m : f[n] = IF n = from THEN <<>> ELSE C(f[n - 1], n)
    <3>1. \A n \in from..m : E(f)[n] = IF n = from THEN <<>> ELSE C(f[n - 1], n)
      OBVIOUS
    <3> HIDE DEF E
    <3> QED BY <1>9, <3>1
  <2>2. from \in from..m
    BY <1>1, <1>2
  <2>3. \A n \in (from + 1)..m : n \in from..m /\ n # from
    BY <1>1, <1>2
  <2> QED BY <2>1, <2>2, <2>3
<1> HIDE DEF f
<1> DEFINE Is(l, n) == /\ l \in Seq(Txs)
                       /\ \A u : u \in ToSet(l) <=> \E i \in (from + 1)..n : transactions[i] = u /\ IsDependent(u, t)
           R == {n \in Nat : from <= n /\ n <= m => Is(f[n], n)}
<1>11. ASSUME NEW n \in Nat, n <= from PROVE n \in R
  <2>1. Is(<<>>, from)
    BY <1>2 DEF ToSet
  <2>2. from <= n => n = from
    BY <1>2, <1>11
  <2> HIDE DEF Is
  <2> QED BY <1>10, <2>1, <2>2
<1>12. ASSUME NEW n \in Nat, n \in R PROVE n + 1 \in R
  <2>1. CASE n + 1 <= from
    <3> HIDE DEF R
    <3> QED BY <1>11, <2>1
  <2>2. CASE ~ (n + 1 <= from)
    <3>1. SUFFICES ASSUME n + 1 <= m PROVE Is(f[n + 1], n + 1)
      OBVIOUS
    <3>2. from <= n /\ n <= m /\ n + 1 \in (from + 1)..m /\ n + 1 \in 1..m /\ (n + 1) - 1 = n
      BY <1>1, <1>2, <2>2, <3>1
    <3>3. Is(f[n], n)
      BY <1>12, <3>2
    <3>4. f[n + 1] = C(f[n], n + 1)
      BY <1>10, <3>2
    <3>5. transactions[n + 1] \in Txs
      BY <3>2 DEF m
    <3> DEFINE l == f[n]
               x == transactions[n + 1]
    <3>6. (from + 1)..(n + 1) = ((from + 1)..n) \cup {n + 1}
      BY <1>2, <3>2
    <3>7. l \in Seq(Txs) /\ \A u : u \in ToSet(l) <=> \E i \in (from + 1)..n : transactions[i] = u /\ IsDependent(u, t)
      BY <3>3
    <3>8. CASE IsDependent(x, t)
      <4>1. f[n + 1] = Append(l, x) /\ x \in Txs
        BY <3>4, <3>5, <3>8 DEF C
      <4> HIDE DEF l, x
      <4>2. Append(l, x) \in Seq(Txs) /\ ToSet(Append(l, x)) = ToSet(l) \cup {x}
        <5>1. l \in Seq(Txs)
          BY <3>7
        <5> QED BY ONLY <4>1, <5>1 DEF ToSet
      <4> QED BY <3>6, <3>7, <3>8, <4>1, <4>2 DEF x
    <3>9. CASE ~ IsDependent(x, t)
      <4>1. f[n + 1] = l
        BY <3>4, <3>9 DEF C
      <4> HIDE DEF l
      <4> QED BY <3>6, <3>7, <3>9, <4>1
    <3> QED BY <3>8, <3>9
  <2> QED BY <2>1, <2>2
<1>13. m \in R
  <2>1. 0 \in R
    <3> HIDE DEF R
    <3> QED BY <1>2, <1>11
  <2> HIDE DEF R
  <2> QED BY <1>1, <1>12, <2>1, SetInduction
<1>14. Is(f[m], m)
  BY <1>1, <1>2, <1>13
<1> QED BY <1>2, <1>3, <1>14 DEF m, from, I

\* The transactions BRWalletSetTxUnconfirmedAfter walks over are behind the last one at or below h.
LEMMA ConfirmedUpToIs ==
    ASSUME transactions \in Seq(Txs), NEW h
    PROVE  /\ ConfirmedUpTo(h) = LastOf({i \in 1..Len(transactions) : height[transactions[i]] <= h})
           /\ ConfirmedUpTo(h) \in 0..Len(transactions)
<1> DEFINE m == Len(transactions)
           I == {i \in 1..m : height[transactions[i]] <= h}
<1>1. ConfirmedUpTo(h) = LastOf(I)
  BY DEF ConfirmedUpTo, SelectLastInSeq, LastOf
<1>2. m \in Nat /\ I \in SUBSET (1..m)
  OBVIOUS
<1>3. LastOf(I) \in 0..m
  <2> HIDE DEF m, I
  <2> QED BY <1>2, LastPosition
<1> QED BY <1>1, <1>3

\* a reorganisation,
LEMMA UnconfirmKeeps ==
    ASSUME VarTypes, EnvTypes, LedgerFits, NEW h \in 0..MaxHeight, SetTxUnconfirmedAfter(h)
    PROVE  VarTypes' /\ EnvTypes' /\ LedgerFits'
<1> DEFINE i == ConfirmedUpTo(h)
           hashes == {transactions[k] : k \in (i + 1)..Len(transactions)}
<1>1. /\ h < tip /\ tip' = h
      /\ mined' = [t \in Txs |-> IF mined[t] > h THEN 0 ELSE mined[t]]
      /\ blockHeight' = h
      /\ height' = [t \in Txs |-> IF t \in hashes THEN Unconfirmed ELSE height[t]]
      /\ IF hashes # {}
         THEN Recompute(transactions, height', h) /\ TxUpdated(hashes, Unconfirmed, 0)
         ELSE UNCHANGED <<ledger, queue>>
      /\ UNCHANGED <<timestamp, transactions, allTx, chainLen, removing, now, rows, alive, start>>
  BY DEF SetTxUnconfirmedAfter, Cut, dbVars
<1>6. transactions \in Seq(Txs) /\ ConfirmedUpTo(h) \in 0..Len(transactions)
  BY ConfirmedUpToIs DEF VarTypes
<1>7. hashes \in SUBSET Txs
  BY <1>6
<1> HIDE DEF hashes
<1>2. EnvTypes'
  BY <1>1, ConstantsAssumption DEF EnvTypes
<1>3. height' \in HeightMaps /\ h \in Heights /\ Unconfirmed \in Heights
  BY <1>1 DEF VarTypes, HeightMaps, Heights
<1>4. CASE hashes # {}
  <2>1. queue' \in Seq(Changes)
    <3>1. queue \in Seq(Changes) /\ TxUpdated(hashes, Unconfirmed, 0) /\ 0 \in {0, 1}
      BY <1>1, <1>4 DEF VarTypes
    <3> QED BY <1>3, <1>7, <3>1, QueueTypes
  <2>2. VarTypes'
    BY <1>1, <1>3, <2>1 DEF VarTypes
  <2>3. ledger' = UpdateBalance(transactions', height', WalletAddrs(chainLen), h, now)
    BY <1>1, <1>4 DEF Recompute
  <2> QED BY <1>2, <2>2, <2>3, RecomputeFits
<1>5. CASE hashes = {}
  <2>1. VarTypes'
    BY <1>1, <1>3, <1>5 DEF VarTypes
  <2>2. \A t \in Txs : height'[t] = height[t]
    BY <1>1, <1>5
  <2>3. ledger.invalidTx \subseteq Txs /\ ledger.pendingTx \subseteq Txs
    BY DEF LedgerFits, Fits, Ledgers
  <2>4. LedgerFits'
    BY <1>1, <1>5, <2>2, <2>3, FitsStill
  <2> QED BY <1>2, <2>1, <2>4
<1> QED BY <1>4, <1>5

\* a rescan,
LEMMA RescanKeeps ==
    ASSUME VarTypes, EnvTypes, LedgerFits, NEW h \in 0..MaxHeight, Rescan(h)
    PROVE  VarTypes' /\ EnvTypes' /\ LedgerFits'
<1>1. EnvTypes'
  BY ConstantsAssumption DEF Rescan, Cut, dbVars, EnvTypes
<1> QED BY <1>1 DEF Rescan, walletVars, dbVars, VarTypes, LedgerFits, Listed

\* and a locked section of BRWalletRemoveTransaction.
LEMMA RemoveStepKeeps ==
    ASSUME VarTypes, EnvTypes, LedgerFits, RemoveStep
    PROVE  VarTypes' /\ EnvTypes' /\ LedgerFits'
<1> DEFINE t == Head(removing)
           dependents == Dependents(t)
<1>1. /\ removing # <<>>
      /\ IF dependents # <<>>
         THEN /\ removing' = dependents \o removing
              /\ UNCHANGED <<transactions, ledger, queue>>
         ELSE /\ removing' = Tail(removing)
              /\ transactions' = RemoveTx(transactions, t)
              /\ Recompute(transactions', height, blockHeight)
              /\ TxDeleted(t)
      /\ UNCHANGED <<height, timestamp, blockHeight, allTx, chainLen, rows, start, alive, chainVars>>
  BY DEF RemoveStep, dbVars
<1>7. t \in Txs
  BY <1>1 DEF VarTypes
<1>2. transactions \in Seq(Txs) /\ removing \in Seq(Txs)
  BY DEF VarTypes
<1>3. dependents \in Seq(Txs)
  BY <1>2, DependentsIs
<1> HIDE DEF t, dependents
<1>4. EnvTypes'
  BY <1>1 DEF EnvTypes, chainVars
<1>5. CASE dependents # <<>>
  <2>1. removing' \in Seq(Txs)
    <3>1. dependents \o removing \in Seq(Txs)
      BY <1>2, <1>3
    <3> QED BY <1>1, <1>5, <3>1
  <2>2. VarTypes'
    BY <1>1, <1>5, <2>1 DEF VarTypes
  <2> QED BY <1>1, <1>4, <1>5, <2>2 DEF LedgerFits, Listed
<1>6. CASE dependents = <<>>
  <2>1. removing' \in Seq(Txs)
    <3>1. Tail(removing) \in Seq(Txs)
      BY <1>1, <1>2
    <3> QED BY <1>1, <1>6, <3>1
  <2>2. transactions' \in Seq(Txs)
    BY <1>1, <1>2, <1>6, RemoveKeeps
  <2>3. queue' \in Seq(Changes)
    <3>1. queue \in Seq(Changes) /\ TxDeleted(t)
      BY <1>1, <1>6 DEF VarTypes
    <3> QED BY <1>7, <3>1, QueueTypes
  <2>4. VarTypes'
    BY <1>1, <2>1, <2>2, <2>3 DEF VarTypes
  <2>5. ledger' = UpdateBalance(transactions', height', WalletAddrs(chainLen), blockHeight, now)
    BY <1>1, <1>6 DEF Recompute
  <2> QED BY <1>4, <2>4, <2>5, RecomputeFits
<1> QED BY <1>5, <1>6

\* Generating addresses only lengthens the chains.
LEMMA GenerateGrows ==
    ASSUME VarTypes, LedgerFits, GenerateAddrs
    PROVE  chainLen' \in [Chains -> Nat] /\ \A c \in Chains : chainLen'[c] >= chainLen[c]
<1> DEFINE used == ledger.usedAddrs
<1>1. used \in SUBSET AllAddrs
  BY DEF LedgerFits, Fits, Ledgers
<1>2. chainLen \in [Chains -> Nat] /\ External \in Chains /\ 1 \in Nat /\ ExtraGap \in Nat
  BY ConstantsAssumption DEF VarTypes, Chains
<1>3. \/ chainLen' = UnusedAddrs(chainLen, External, 1, used)
      \/ chainLen' = TopUp(chainLen, ExtraGap, used)
  BY DEF GenerateAddrs
<1> HIDE DEF used
<1>4. CASE chainLen' = UnusedAddrs(chainLen, External, 1, used)
  BY <1>1, <1>2, <1>4, UnusedAddrsGrow
<1>5. CASE chainLen' = TopUp(chainLen, ExtraGap, used)
  BY <1>1, <1>2, <1>5, TopUpGrows
<1> QED BY <1>3, <1>4, <1>5

\* The list, the heights and the address chains for what the database holds, with the rows in any order.
LEMMA LoadedIs ==
    ASSUME NEW saved, RowsOK(saved), NEW order \in SetToSeqs(DOMAIN saved)
    PROVE  /\ LoadedHeight(saved) \in HeightMaps /\ LoadedTimestamp(saved) \in [Txs -> {0, 1}]
           /\ \A t \in Txs : LoadedHeight(saved)[t] = IF t \in DOMAIN saved THEN saved[t].height ELSE Unconfirmed
           /\ LoadedLen(saved) \in [Chains -> Nat]
           /\ LoadedList(order, LoadedHeight(saved)) \in Seq(Txs)
           /\ ToSet(LoadedList(order, LoadedHeight(saved))) = DOMAIN saved
           /\ IsInjective(LoadedList(order, LoadedHeight(saved)))
           /\ Sorted(LoadedList(order, LoadedHeight(saved)), LoadedHeight(saved))
<1> DEFINE hts == LoadedHeight(saved)
<1>1. DOMAIN saved \subseteq Txs /\ \A t \in DOMAIN saved : saved[t].height \in Heights /\ saved[t].timestamp \in {0, 1}
  BY DEF RowsOK, Row
<1>2. hts \in HeightMaps /\ LoadedTimestamp(saved) \in [Txs -> {0, 1}]
  BY <1>1 DEF HeightMaps, Heights, LoadedHeight, LoadedTimestamp
<1>3. \A t \in Txs : hts[t] = IF t \in DOMAIN saved THEN saved[t].height ELSE Unconfirmed
  BY DEF LoadedHeight
<1> HIDE DEF hts
<1>4. order \in Seq(DOMAIN saved) /\ IsInjective(order) /\ ToSet(order) = DOMAIN saved
  <2>1. IsFiniteSet(DOMAIN saved)
    BY <1>1, ConstantsAssumption, FS_Subset
  <2> QED BY <2>1, SeqsOfSet
<1>5. order \in Seq(Txs)
  BY <1>1, <1>4
<1>6. /\ LoadedList(order, hts) \in Seq(Txs) /\ ToSet(LoadedList(order, hts)) = ToSet(order)
      /\ IsInjective(LoadedList(order, hts)) /\ Sorted(LoadedList(order, hts), hts)
  BY <1>2, <1>4, <1>5, LoadedListIs
<1>7. LoadedLen(saved) \in [Chains -> Nat]
  <2> DEFINE none == [c \in Chains |-> 0]
             used == UNION {AddrsOf(t) : t \in DOMAIN saved}
  <2>1. none \in [Chains -> Nat] /\ used \in SUBSET AllAddrs /\ 0 \in Nat
    BY <1>1 DEF AllAddrs
  <2>2. LoadedLen(saved) = TopUp(none, 0, used)
    BY DEF LoadedLen
  <2> HIDE DEF none, used
  <2> QED BY <2>1, <2>2, TopUpGrows
<1> QED BY <1>2, <1>3, <1>4, <1>6, <1>7 DEF hts

\* What a restart loads from the rows left.
LEMMA RestartLoads ==
    ASSUME VarTypes, EnvTypes, Restart
    PROVE  /\ VarTypes' /\ EnvTypes' /\ IsInjective(transactions') /\ Sorted(transactions', height')
           /\ DOMAIN rows' = DOMAIN rows /\ ToSet(transactions') = DOMAIN rows /\ allTx' = DOMAIN rows
           /\ \A t \in DOMAIN rows : height'[t] = rows'[t].height
           /\ \A t \in Txs \ DOMAIN rows : height'[t] = Unconfirmed
           /\ ledger' = UpdateBalance(transactions', height', WalletAddrs(chainLen'), 0, now)
           /\ chainLen' = LoadedLen(rows')
<1> DEFINE r == rows'
<1>1. PICK order \in SetToSeqs(DOMAIN rows) : BRWalletNew(order, r)
  BY DEF Restart
<1>2. RowsOK(r) /\ DOMAIN r = DOMAIN rows
  <2>1. r \in RowsLeft /\ queue \in Seq(Changes) /\ RowsOK(rows)
    BY DEF Restart, VarTypes
  <2> HIDE DEF r
  <2> QED BY <2>1, RowsLeftAre
<1>3. /\ height' = LoadedHeight(r) /\ timestamp' = LoadedTimestamp(r) /\ transactions' = LoadedList(order, LoadedHeight(r))
      /\ allTx' = DOMAIN r /\ blockHeight' = 0 /\ chainLen' = LoadedLen(r)
      /\ ledger' = UpdateBalance(transactions', height', WalletAddrs(chainLen'), 0, now)
      /\ alive' = (order = <<>> \/ MatchesMasterPubKey(Head(order), r))
  BY <1>1 DEF BRWalletNew
<1>4. queue' = <<>> /\ removing' = <<>> /\ tip' = start.tip /\ mined' = start.mined /\ start' = start /\ now' = now
  BY DEF Restart
<1>5. RowsOK(rows')
  BY <1>2
<1> HIDE DEF r
<1>6. order \in SetToSeqs(DOMAIN r)
  BY <1>2
<1> DEFINE hts == LoadedHeight(r)
           l == LoadedList(order, hts)
<1>7. /\ hts \in HeightMaps /\ LoadedTimestamp(r) \in [Txs -> {0, 1}] /\ LoadedLen(r) \in [Chains -> Nat]
      /\ \A t \in Txs : hts[t] = IF t \in DOMAIN r THEN r[t].height ELSE Unconfirmed
      /\ l \in Seq(Txs) /\ ToSet(l) = DOMAIN r /\ IsInjective(l) /\ Sorted(l, hts)
  BY <1>2, <1>6, LoadedIs
<1>8. 0 \in Heights /\ <<>> \in Seq(Txs) /\ <<>> \in Seq(Changes)
  BY ConstantsAssumption DEF Heights
<1>9. alive' \in BOOLEAN
  BY <1>3
<1>10. DOMAIN r \subseteq Txs
  BY <1>2 DEF RowsOK
<1> HIDE DEF hts, l
<1>11. VarTypes'
  BY <1>3, <1>4, <1>5, <1>7, <1>8, <1>9, <1>10 DEF VarTypes, hts, l
<1>12. EnvTypes'
  <2>1. start.tip \in 0..MaxHeight /\ start.mined \in [Txs -> 0..MaxHeight]
    BY DEF EnvTypes, ChainSet
  <2> QED BY <1>4, <2>1 DEF EnvTypes
<1>13. \A t \in Txs : hts[t] = IF t \in DOMAIN rows THEN rows'[t].height ELSE Unconfirmed
  BY <1>2, <1>7 DEF r
<1>14. DOMAIN rows' = DOMAIN rows /\ chainLen' = LoadedLen(rows')
  BY <1>2, <1>3 DEF r
<1> QED BY <1>2, <1>3, <1>7, <1>10, <1>11, <1>12, <1>13, <1>14 DEF hts, l

\* The addresses a new wallet generates.
LEMMA FirstLenIs == FirstLen \in [Chains -> Nat]
<1> DEFINE none == [c \in Chains |-> 0]
<1>1. none \in [Chains -> Nat] /\ {} \in SUBSET AllAddrs /\ 0 \in Nat
  OBVIOUS
<1> HIDE DEF none
<1>2. TopUp(none, 0, {}) \in [Chains -> Nat]
  BY <1>1, TopUpGrows
<1> QED BY <1>2 DEF none, FirstLen

\* The wallet starts with a ledger that fits its empty list.
LEMMA InitInv == Init => Inv
<1> SUFFICES ASSUME Init PROVE VarTypes /\ EnvTypes /\ LedgerFits
  BY InvIs
<1>1. VarTypes
  <2>1. height \in HeightMaps /\ timestamp \in [Txs -> {0, 1}] /\ blockHeight \in Heights
    BY ConstantsAssumption DEF Init, HeightMaps, Heights
  <2>2. transactions \in Seq(Txs) /\ removing \in Seq(Txs) /\ allTx \in SUBSET Txs /\ alive \in BOOLEAN
    BY DEF Init
  <2>3. RowsOK(rows) /\ queue \in Seq(Changes)
    BY DEF Init, RowsOK
  <2>4. chainLen \in [Chains -> Nat]
    BY FirstLenIs DEF Init
  <2> QED BY <2>1, <2>2, <2>3, <2>4 DEF VarTypes
<1>2. EnvTypes
  BY ConstantsAssumption DEF Init, EnvTypes, Chain, ChainSet
<1>3. transactions = <<>> /\ ledger = EmptyLedger
  BY DEF Init
<1>4. ToSet(transactions) = {} /\ Len(transactions) = 0 /\ Len(EmptyLedger.balanceHist) = 0
  BY <1>3, EmptyLedgerIs DEF ToSet
<1>5. Fits(EmptyLedger, {}, height)
  BY EmptyFits
<1> QED BY <1>1, <1>2, <1>3, <1>4, <1>5 DEF LedgerFits, Listed

\* A session starts with rows loaded.
LEMMA SessionLoads ==
    ASSUME InitSession
    PROVE  /\ VarTypes /\ EnvTypes /\ RowsAgree(rows, Chain)
           /\ IsInjective(transactions) /\ Sorted(transactions, height)
           /\ Listed = DOMAIN rows /\ allTx = DOMAIN rows /\ chainLen = LoadedLen(rows)
           /\ \A t \in Txs : height[t] = IF t \in DOMAIN rows THEN rows[t].height ELSE Unconfirmed
           /\ ledger = UpdateBalance(transactions, height, WalletAddrs(chainLen), 0, now)
<1>1. /\ tip \in 0 .. MaxHeight /\ mined \in [Txs -> 0 .. MaxHeight] /\ start = Chain /\ now = MaxLockHeight
      /\ RowsAgree(rows, Chain)
      /\ height = LoadedHeight(rows) /\ timestamp = LoadedTimestamp(rows)
      /\ blockHeight = 0 /\ allTx = DOMAIN rows /\ chainLen = LoadedLen(rows)
      /\ ledger = UpdateBalance(transactions, height, WalletAddrs(chainLen), 0, now)
      /\ queue = <<>> /\ removing = <<>> /\ alive = TRUE
  BY DEF InitSession
<1>2. PICK order \in SetToSeqs(DOMAIN rows) : transactions = LoadedList(order, height)
  BY DEF InitSession
<1>3. RowsOK(rows)
  <2>4. PICK kept \in SUBSET Txs : \E ts \in [kept -> {0, 1}] :
               rows = [t \in kept |-> [height |-> HeightIn(Chain, t), timestamp |-> ts[t]]]
    BY DEF InitSession
  <2>1. PICK ts \in [kept -> {0, 1}] : rows = [t \in kept |-> [height |-> HeightIn(Chain, t), timestamp |-> ts[t]]]
    BY <2>4
  <2>2. \A t \in Txs : HeightIn(Chain, t) \in Heights
    BY <1>1 DEF HeightIn, Heights, Chain
  <2>3. \A t \in kept : [height |-> HeightIn(Chain, t), timestamp |-> ts[t]] \in Row
    BY <2>2 DEF Row
  <2> QED BY <2>1, <2>3 DEF RowsOK
<1>4. EnvTypes
  BY <1>1, ConstantsAssumption DEF EnvTypes, Chain, ChainSet
<1>5. /\ LoadedHeight(rows) \in HeightMaps /\ LoadedTimestamp(rows) \in [Txs -> {0, 1}] /\ LoadedLen(rows) \in [Chains -> Nat]
      /\ \A t \in Txs : LoadedHeight(rows)[t] = IF t \in DOMAIN rows THEN rows[t].height ELSE Unconfirmed
      /\ LoadedList(order, LoadedHeight(rows)) \in Seq(Txs)
      /\ ToSet(LoadedList(order, LoadedHeight(rows))) = DOMAIN rows
      /\ IsInjective(LoadedList(order, LoadedHeight(rows)))
      /\ Sorted(LoadedList(order, LoadedHeight(rows)), LoadedHeight(rows))
  BY <1>3, LoadedIs
<1>6. 0 \in Heights /\ <<>> \in Seq(Txs) /\ <<>> \in Seq(Changes) /\ DOMAIN rows \subseteq Txs
  BY <1>3, ConstantsAssumption DEF Heights, RowsOK
<1>7. VarTypes
  BY <1>1, <1>2, <1>3, <1>5, <1>6 DEF VarTypes
<1> QED BY <1>1, <1>2, <1>4, <1>5, <1>7 DEF Listed

\* So its ledger fits, too.
LEMMA InitSessionInv == InitSession => Inv
<1> SUFFICES ASSUME InitSession PROVE VarTypes /\ EnvTypes /\ LedgerFits
  BY InvIs
<1>1. /\ VarTypes /\ EnvTypes
      /\ ledger = UpdateBalance(transactions, height, WalletAddrs(chainLen), 0, now)
  BY SessionLoads
<1>2. transactions \in Seq(Txs)
  BY <1>1 DEF VarTypes
<1> DEFINE l == UpdateBalance(transactions, height, WalletAddrs(chainLen), 0, now)
<1>3. Fits(l, ToSet(transactions), height) /\ Len(l.balanceHist) = Len(transactions)
  BY <1>2, UpdateFits
<1> QED BY <1>1, <1>3 DEF LedgerFits, Listed

\* The closures of the queue leave the wallet alone.
LEMMA WriteKeeps ==
    ASSUME VarTypes, EnvTypes, LedgerFits, WriteAdded \/ WriteUpdated \/ WriteDeleted \/ WriteBlocks
    PROVE  VarTypes' /\ EnvTypes' /\ LedgerFits'
<1>1. /\ queue # <<>> /\ queue' = Tail(queue)
      /\ UNCHANGED <<height, timestamp, blockHeight, transactions, allTx, chainLen, ledger, removing, tip, mined, now>>
  BY DEF WriteAdded, WriteUpdated, WriteDeleted, WriteBlocks, Write, walletVars, chainVars
<1>2. queue \in Seq(Changes) /\ RowsOK(rows) /\ height \in HeightMaps /\ timestamp \in [Txs -> {0, 1}]
  BY DEF VarTypes
<1>3. queue' \in Seq(Changes)
  BY <1>1, <1>2, HeadTypes
<1>4. RowsOK(rows') /\ alive' \in BOOLEAN /\ start' \in ChainSet
  <2>1. CASE WriteAdded
    BY <1>2, <2>1, RowAdded DEF WriteAdded, VarTypes, EnvTypes
  <2>2. CASE WriteUpdated
    <3> DEFINE r == rows'
    <3>1. r = UpdatedRows(Head(queue).txs, Head(queue).height, Head(queue).timestamp) /\ Head(queue).op = "updated"
      BY <2>2 DEF WriteUpdated, Write
    <3>2. Head(queue).height \in Heights /\ Head(queue).timestamp \in {0, 1}
      BY <1>1, <1>2, <3>1, HeadTypes
    <3> HIDE DEF r
    <3>3. RowsOK(r)
      BY <1>2, <3>1, <3>2, RowsUpdated
    <3> QED BY <2>2, <3>3 DEF r, WriteUpdated, EnvTypes
  <2>3. CASE WriteDeleted
    BY <1>2, <2>3, RowDeleted DEF WriteDeleted, VarTypes, EnvTypes
  <2>4. CASE WriteBlocks
    <3>1. Head(queue).chain \in ChainSet
      BY <1>1, <1>2, <2>4, HeadTypes DEF WriteBlocks, Write
    <3> QED BY <1>2, <2>4, <3>1 DEF WriteBlocks, VarTypes
  <2> QED BY <2>1, <2>2, <2>3, <2>4
<1>5. VarTypes' /\ EnvTypes'
  BY <1>1, <1>3, <1>4 DEF VarTypes, EnvTypes
<1> QED BY <1>1, <1>5 DEF LedgerFits, Listed

\* Every step keeps the types and a ledger that fits.
LEMMA NextInv == Inv /\ [Next]_vars => Inv'
<1> SUFFICES ASSUME VarTypes, EnvTypes, LedgerFits, [Next]_vars PROVE VarTypes' /\ EnvTypes' /\ LedgerFits'
  BY InvIs, PTL
<1>1. ASSUME NEW t \in Txs, NEW ts \in {0, 1}, RegisterTransaction(t, ts) PROVE VarTypes' /\ EnvTypes' /\ LedgerFits'
  BY <1>1, RegisterKeeps
<1>2. ASSUME NEW block \in Blocks, BlockConfirms(block) PROVE VarTypes' /\ EnvTypes' /\ LedgerFits'
  BY <1>2, BlockKeeps
<1>3. ASSUME NEW t \in Txs, NEW ts \in {0, 1}, RelayCountChanges(t, ts) PROVE VarTypes' /\ EnvTypes' /\ LedgerFits'
  BY <1>3, RelayKeeps
<1>4. ASSUME NEW h \in 0..MaxHeight, SetTxUnconfirmedAfter(h) PROVE VarTypes' /\ EnvTypes' /\ LedgerFits'
  BY <1>4, UnconfirmKeeps
<1>5. ASSUME NEW t \in Txs, RemoveTransaction(t) PROVE VarTypes' /\ EnvTypes' /\ LedgerFits'
  BY <1>5 DEF RemoveTransaction, VarTypes, EnvTypes, LedgerFits, Listed, chainVars, dbVars
<1>6. CASE RemoveStep
  BY <1>6, RemoveStepKeeps
<1>7. CASE GenerateAddrs
  <2>1. chainLen' \in [Chains -> Nat]
    BY <1>7, GenerateGrows
  <2> QED BY <1>7, <2>1 DEF GenerateAddrs, VarTypes, EnvTypes, LedgerFits, Listed, chainVars, dbVars
<1>8. CASE Tick
  <2>1. now' \in MaxLockHeight..MaxTime
    BY <1>8, ConstantsAssumption DEF Tick, EnvTypes
  <2> QED BY <1>8, <2>1 DEF Tick, VarTypes, EnvTypes, LedgerFits, Listed, walletVars, dbVars
<1>9. CASE Restart
  <2>1. VarTypes' /\ EnvTypes' /\ ledger' = UpdateBalance(transactions', height', WalletAddrs(chainLen'), 0, now)
    BY <1>9, RestartLoads
  <2> DEFINE addrs == WalletAddrs(chainLen')
  <2> HIDE DEF addrs
  <2>2. ledger' = UpdateBalance(transactions', height', addrs, 0, now)
    BY <2>1 DEF addrs
  <2> QED BY <2>1, <2>2, RecomputeFits
<1>10. CASE SaveBlocks
  <2>1. Chain \in ChainSet
    BY DEF EnvTypes, Chain, ChainSet
  <2>2. queue' \in Seq(Changes)
    BY <1>10, <2>1, ChangeTypes DEF SaveBlocks, Enqueue, VarTypes
  <2> QED BY <1>10, <2>2 DEF SaveBlocks, VarTypes, EnvTypes, LedgerFits, Listed, walletVars, chainVars, dbVars
<1>11. CASE WriteAdded \/ WriteUpdated \/ WriteDeleted \/ WriteBlocks
  BY <1>11, WriteKeeps
<1>12. CASE Rescanning
  BY <1>12, RescanKeeps DEF Rescanning
<1>13. CASE UNCHANGED vars
  BY <1>13 DEF vars, walletVars, dbVars, chainVars, VarTypes, EnvTypes, LedgerFits, Listed
<1> QED BY <1>1, <1>2, <1>3, <1>4, <1>5, <1>6, <1>7, <1>8, <1>9, <1>10, <1>11, <1>12, <1>13 DEF Next, Running

\* Types, and a ledger that fits the list, always hold.
THEOREM InvAlways == Spec => []Inv
BY InitInv, NextInv, PTL DEF Spec

\* Every variable has the type BRWallet.c gives it.
THEOREM WalletTypeCorrect == Spec => []TypeOK
<1>1. Inv => TypeOK
  BY DEF Inv
<1> QED BY <1>1, InvAlways, PTL

\* A confirmed transaction is never left out of the ledger as invalid or pending, however it came to be
\* confirmed: by a block, by rows loaded at a start, or because a reorganisation did not reach it.
THEOREM ConfirmedIsCountedCorrect == Spec => []ConfirmedIsCounted
<1>1. Inv => ConfirmedIsCounted
  BY DEF Inv, LedgerFits, Fits, ConfirmedIsCounted, Counted
<1> QED BY <1>1, InvAlways, PTL

\* No utxo is spent by a transaction whose own outputs count in the balance.
THEOREM UtxosNotSpentCorrect == Spec => []UtxosNotSpentByCounted
<1>1. Inv => UtxosNotSpentByCounted
  BY DEF Inv, LedgerFits, Fits, UtxosNotSpentByCounted, Counted
<1> QED BY <1>1, InvAlways, PTL

(***************************************************************************)
(* What the ledger adds up to, when the list holds each transaction once.  *)
(***************************************************************************)
Sums(l) == l.balance = Total(l.utxos)

\* The value counted for a new transaction is that of the outputs it adds, less that of the outputs it takes.
LEMMA CountSums ==
    ASSUME NEW S \in SUBSET Txs, NEW t \in Txs, t \notin S, NEW hts, NEW addrs, NEW bh, NEW clock,
           NEW l, Fits(l, S, hts), Sums(l)
    PROVE  Sums(CountTx(l, t, hts, addrs, bh, clock))
<1> DEFINE c == CountTx(l, t, hts, addrs, bh, clock)
           added == OwnedBy({t}, addrs)
           both == l.utxos \cup added
           gone == SpentUtxos(l, t, added)
<1>0. SUFFICES Sums(c)
  OBVIOUS
<1>1. l \in Ledgers
  BY DEF Fits
<1>2. \/ CountedInvalid(l, c, t) \/ CountedPending(l, c, t) \/ CountedValid(l, c, t, added)
  BY <1>1, CountCases
<1>3. added \in SUBSET Coins /\ \A o \in added : o[1] = t
  BY DEF OwnedBy, Coins, Outpoints
<1>4. l.utxos \in SUBSET Coins /\ l.utxos \cap added = {}
  BY <1>1, <1>3 DEF Fits, Ledgers
<1>5. both \in SUBSET Coins /\ gone \subseteq both
  BY <1>3, <1>4 DEF SpentUtxos
<1> HIDE DEF c
<1>6. CASE CountedInvalid(l, c, t) \/ CountedPending(l, c, t)
  BY <1>6 DEF CountedInvalid, CountedPending, Sums
<1>7. CASE CountedValid(l, c, t, added)
  <2>1. c.utxos = both \ gone /\ c.balance = (l.balance + Total(added)) - Total(gone)
    BY <1>7 DEF CountedValid
  <2> HIDE DEF added, gone
  <2>2. Total(both) = Total(l.utxos) + Total(added)
    BY <1>3, <1>4, TotalAdds
  <2> DEFINE u == l.utxos
             rest == both \ gone
  <2> HIDE DEF both
  <2>3. rest \in SUBSET Coins /\ gone \in SUBSET Coins /\ rest \cap gone = {} /\ rest \cup gone = both
    BY <1>5
  <2>4. Total(both) = Total(rest) + Total(gone)
    <3> HIDE DEF rest
    <3> QED BY <2>3, TotalAdds
  <2> HIDE DEF rest
  <2>5. Total(u) \in Nat /\ Total(added) \in Nat /\ Total(gone) \in Nat /\ Total(rest) \in Nat
    BY <1>3, <1>4, <2>3, TotalWithout
  <2>6. l.balance = Total(u) /\ c.utxos = rest /\ Total(both) = Total(u) + Total(added)
    BY <2>1, <2>2 DEF Sums, rest
  <2> HIDE DEF u
  <2>7. c.balance = Total(rest)
    BY <2>1, <2>4, <2>5, <2>6
  <2> QED BY <2>6, <2>7 DEF Sums
<1> QED BY <1>2, <1>6, <1>7

\* two transactions that spend no output in common, unless they are the same
Apart(t, u) == t = u \/ Inputs[t] \cap Inputs[u] = {}

\* conflicting valid ones of S are confirmed, and the valid ones spend just what the ledger calls spent
Valid(l, S, hts) ==
    /\ \A t, u \in S \ l.invalidTx : Apart(t, u) \/ hts[t] # Unconfirmed
    /\ \A o \in l.spentOutputs : \E t \in S \ l.invalidTx : o \in Inputs[t]

\* A transaction, counted behind all confirmed ones if it is not confirmed itself.
LEMMA CountValidates ==
    ASSUME NEW S \in SUBSET Txs, NEW t \in Txs, t \notin S, NEW hts, NEW addrs, NEW bh, NEW clock,
           NEW l, Fits(l, S, hts), Valid(l, S, hts), hts[t] # Unconfirmed => \A u \in S : hts[u] # Unconfirmed
    PROVE  Valid(CountTx(l, t, hts, addrs, bh, clock), S \cup {t}, hts)
<1> DEFINE c == CountTx(l, t, hts, addrs, bh, clock)
           added == OwnedBy({t}, addrs)
<1>0. SUFFICES Valid(c, S \cup {t}, hts)
  OBVIOUS
<1>1. l \in Ledgers
  BY DEF Fits
<1>2. \/ hts[t] = Unconfirmed /\ CountedInvalid(l, c, t)
      \/ hts[t] = Unconfirmed /\ CountedPending(l, c, t)
      \/ (hts[t] = Unconfirmed => ~ InvalidInput(l, t)) /\ CountedValid(l, c, t, added)
  BY <1>1, CountCases
<1>3. l.invalidTx \subseteq S /\ \A u \in S \ l.invalidTx : Inputs[u] \subseteq l.spentOutputs
  BY DEF Fits
<1> HIDE DEF c
<1>4. CASE CountedInvalid(l, c, t)
  <2>1. (S \cup {t}) \ c.invalidTx = S \ l.invalidTx /\ c.spentOutputs = l.spentOutputs
    BY <1>3, <1>4 DEF CountedInvalid
  <2> QED BY <2>1 DEF Valid
<1>5. ASSUME (hts[t] = Unconfirmed => ~ InvalidInput(l, t)),
             c.invalidTx = l.invalidTx /\ c.spentOutputs = l.spentOutputs \cup Inputs[t]
      PROVE  Valid(c, S \cup {t}, hts)
  <2>1. \A u \in S \ l.invalidTx : Inputs[t] \cap Inputs[u] = {} \/ (hts[t] # Unconfirmed /\ hts[u] # Unconfirmed)
    <3>1. CASE hts[t] = Unconfirmed
      BY <1>3, <1>5, <3>1 DEF InvalidInput
    <3>2. CASE hts[t] # Unconfirmed
      BY <3>2
    <3> QED BY <3>1, <3>2
  <2>2. (S \cup {t}) \ c.invalidTx = (S \ l.invalidTx) \cup {t}
    BY <1>3, <1>5
  <2>3. \A u, v \in (S \ l.invalidTx) \cup {t} : Apart(u, v) \/ hts[u] # Unconfirmed
    BY <2>1 DEF Valid, Apart
  <2>4. \A o \in c.spentOutputs : \E u \in (S \ l.invalidTx) \cup {t} : o \in Inputs[u]
    BY <1>5 DEF Valid
  <2> QED BY <2>2, <2>3, <2>4 DEF Valid
<1>6. CASE CountedPending(l, c, t)
  BY <1>5, <1>6 DEF CountedPending
<1>7. CASE (hts[t] = Unconfirmed => ~ InvalidInput(l, t)) /\ CountedValid(l, c, t, added)
  BY <1>5, <1>7 DEF CountedValid
<1> QED BY <1>2, <1>4, <1>6, <1>7

\* every pending transaction is replaceable or, through pending ones, spends the output of one that is
Derived(P) == \A S \in SUBSET P : (\A t \in P : t \in Replaceable \/ ParentsOf(t) \cap S # {} => t \in S) => S = P

\* Without lock times nothing else is pending.
LEMMA CountDerives ==
    ASSUME \A u \in Txs : LockTime[u] = 0, NEW t \in Txs, NEW hts, NEW addrs, NEW bh \in Nat, NEW clock \in Nat,
           NEW l \in Ledgers, Derived(l.pendingTx)
    PROVE  Derived(CountTx(l, t, hts, addrs, bh, clock).pendingTx)
<1> DEFINE c == CountTx(l, t, hts, addrs, bh, clock)
           added == OwnedBy({t}, addrs)
<1>0. SUFFICES Derived(c.pendingTx)
  OBVIOUS
<1>1. \/ CountedInvalid(l, c, t)
      \/ PendingInput(l, t, bh, clock) /\ CountedPending(l, c, t)
      \/ CountedValid(l, c, t, added)
  BY CountCases
<1> HIDE DEF c
<1>2. CASE CountedInvalid(l, c, t) \/ CountedValid(l, c, t, added)
  BY <1>2 DEF CountedInvalid, CountedValid
<1>3. CASE PendingInput(l, t, bh, clock) /\ CountedPending(l, c, t)
  <2>1. ~ FutureLock(t, bh, clock)
    BY DEF FutureLock
  <2>2. t \in Replaceable \/ ParentsOf(t) \cap l.pendingTx # {}
    BY <1>3, <2>1 DEF PendingInput
  <2>3. c.pendingTx = l.pendingTx \cup {t}
    BY <1>3 DEF CountedPending
  <2>4. SUFFICES ASSUME NEW S \in SUBSET (l.pendingTx \cup {t}),
                        \A u \in l.pendingTx \cup {t} : u \in Replaceable \/ ParentsOf(u) \cap S # {} => u \in S
                 PROVE  S = l.pendingTx \cup {t}
    BY <2>3 DEF Derived
  <2> DEFINE R == S \cap l.pendingTx
  <2>5. \A u \in l.pendingTx : u \in Replaceable \/ ParentsOf(u) \cap R # {} => u \in R
    BY <2>4
  <2>6. R = l.pendingTx
    <3> HIDE DEF R
    <3>1. R \in SUBSET l.pendingTx
      BY DEF R
    <3> QED BY <2>5, <3>1 DEF Derived
  <2> QED BY <2>2, <2>4, <2>6
<1> QED BY <1>1, <1>2, <1>3

\* _BRWalletUpdateBalance over a sorted list without repetitions.
LEMMA UpdateAdds ==
    ASSUME NEW list \in Seq(Txs), IsInjective(list), NEW hts \in HeightMaps, Sorted(list, hts),
           NEW addrs, NEW bh, NEW clock
    PROVE  /\ Sums(UpdateBalance(list, hts, addrs, bh, clock))
           /\ Valid(UpdateBalance(list, hts, addrs, bh, clock), ToSet(list), hts)
<1>1. PICK f : /\ f[0] = EmptyLedger
               /\ \A n \in 1..Len(list) : f[n] = CountTx(f[n - 1], list[n], hts, addrs, bh, clock)
               /\ UpdateBalance(list, hts, addrs, bh, clock) = f[Len(list)]
  BY LedgerSteps
<1> DEFINE Is(l, n) == Fits(l, FirstOf(list, n), hts) /\ Sums(l) /\ Valid(l, FirstOf(list, n), hts)
           T == {n \in Nat : n <= Len(list) => Is(f[n], n)}
<1>2. 0 \in T
  <2>1. Sums(EmptyLedger) /\ Valid(EmptyLedger, {}, hts)
    <3>1. {} \in SUBSET Coins
      OBVIOUS
    <3>2. Total({}) = 0
      BY <3>1, TotalWithout
    <3> QED BY <3>2, EmptyLedgerIs DEF Sums, Valid
  <2> QED BY <1>1, <2>1, EmptyFits, FirstOfSteps
<1>3. ASSUME NEW n \in Nat, n \in T PROVE n + 1 \in T
  <2>1. SUFFICES ASSUME n + 1 <= Len(list) PROVE Is(f[n + 1], n + 1)
    OBVIOUS
  <2>2. n <= Len(list) /\ n + 1 \in 1..Len(list) /\ (n + 1) - 1 = n /\ list[n + 1] \in Txs
    BY <2>1
  <2> DEFINE l == f[n]
             t == list[n + 1]
             S == FirstOf(list, n)
  <2>3. Is(l, n)
    BY <1>3, <2>2
  <2>4. f[n + 1] = CountTx(l, t, hts, addrs, bh, clock)
    BY <1>1, <2>2
  <2>5. FirstOf(list, n + 1) = S \cup {t} /\ S \in SUBSET Txs
    BY <2>1, FirstOfSteps
  <2>6. \A i \in 1..n : i \in DOMAIN list /\ n + 1 \in DOMAIN list /\ i # n + 1 /\ i <= n + 1
    BY <2>1
  <2>7. t \notin S
    BY <2>6 DEF IsInjective, FirstOf
  <2>8. \A u \in S : u \in ToSet(list) /\ hts[u] <= hts[t]
    BY <2>6 DEF Sorted, FirstOf, ToSet
  <2>9. t \in ToSet(list) /\ t \in Txs
    BY <2>2 DEF ToSet
  <2>10. hts[t] # Unconfirmed => \A u \in S : hts[u] # Unconfirmed
    <3>1. SUFFICES ASSUME hts[t] # Unconfirmed, NEW u \in S PROVE hts[u] # Unconfirmed
      OBVIOUS
    <3>2. u \in Txs
      BY <2>5
    <3> HIDE DEF t, S
    <3>3. hts[t] \in Nat /\ hts[u] \in Nat /\ hts[t] < Unconfirmed /\ Unconfirmed \in Nat
      BY <2>9, <3>1, <3>2, HeightTypes
    <3> QED BY <2>8, <3>3
  <2> HIDE DEF l, t, S
  <2>11. Fits(l, S, hts) /\ Sums(l) /\ Valid(l, S, hts)
    BY <2>3 DEF S
  <2> DEFINE c == CountTx(l, t, hts, addrs, bh, clock)
  <2>12. Fits(c, S \cup {t}, hts)
    BY <2>5, <2>9, <2>11, CountFits
  <2>13. Sums(c)
    BY <2>5, <2>7, <2>9, <2>11, CountSums
  <2>14. Valid(c, S \cup {t}, hts)
    BY <2>5, <2>7, <2>9, <2>10, <2>11, CountValidates
  <2> HIDE DEF c
  <2>15. Is(c, n + 1)
    BY <2>5, <2>12, <2>13, <2>14
  <2> QED BY <2>4, <2>15 DEF c
<1>4. Len(list) \in T
  <2>1. Len(list) \in Nat
    OBVIOUS
  <2> HIDE DEF T
  <2> QED BY <1>2, <1>3, <2>1, SetInduction
<1>5. Is(f[Len(list)], Len(list)) /\ FirstOf(list, Len(list)) = ToSet(list)
  BY <1>4, FirstOfSteps
<1> QED BY <1>1, <1>5

\* The pending transactions of a new ledger, without lock times.
LEMMA UpdateDerives ==
    ASSUME \A t \in Txs : LockTime[t] = 0, NEW list \in Seq(Txs), NEW hts, NEW addrs, NEW bh \in Nat, NEW clock \in Nat
    PROVE  Derived(UpdateBalance(list, hts, addrs, bh, clock).pendingTx)
<1>1. PICK f : /\ f[0] = EmptyLedger
               /\ \A n \in 1..Len(list) : f[n] = CountTx(f[n - 1], list[n], hts, addrs, bh, clock)
               /\ UpdateBalance(list, hts, addrs, bh, clock) = f[Len(list)]
  BY LedgerSteps
<1> DEFINE T == {n \in Nat : n <= Len(list) => f[n] \in Ledgers /\ Derived(f[n].pendingTx)}
<1>2. 0 \in T
  BY <1>1, EmptyLedgerIs DEF Derived
<1>3. ASSUME NEW n \in Nat, n \in T PROVE n + 1 \in T
  <2>1. SUFFICES ASSUME n + 1 <= Len(list) PROVE f[n + 1] \in Ledgers /\ Derived(f[n + 1].pendingTx)
    OBVIOUS
  <2>2. n <= Len(list) /\ n + 1 \in 1..Len(list) /\ (n + 1) - 1 = n /\ list[n + 1] \in Txs
    BY <2>1
  <2> DEFINE l == f[n]
             t == list[n + 1]
             c == CountTx(l, t, hts, addrs, bh, clock)
  <2>3. l \in Ledgers /\ Derived(l.pendingTx) /\ t \in Txs
    BY <1>3, <2>2
  <2>4. f[n + 1] = c
    BY <1>1, <2>2
  <2> HIDE DEF l, t
  <2>5. c \in Ledgers
    BY <2>3, CountCases
  <2>6. Derived(c.pendingTx)
    BY <2>3, CountDerives
  <2> QED BY <2>4, <2>5, <2>6
<1>4. Len(list) \in T
  <2>1. Len(list) \in Nat
    OBVIOUS
  <2> HIDE DEF T
  <2> QED BY <1>2, <1>3, <2>1, SetInduction
<1> QED BY <1>1, <1>4

(***************************************************************************)
(* Changes that are still to come, by the queue.                           *)
(***************************************************************************)
\* base holds now or some good change of q brings it about, and no bad one follows
Comes(q, base, good, bad) ==
    \E i \in 0..Len(q) : /\ (i = 0 /\ base) \/ (i # 0 /\ q[i] \in good)
                         /\ \A j \in (i + 1)..Len(q) : q[j] \notin bad

\* A change is queued.
LEMMA ComesAfter ==
    ASSUME NEW q \in Seq(Changes), NEW c \in Changes, NEW base, NEW good, NEW bad
    PROVE  /\ Comes(q, base, good, bad) /\ c \notin bad => Comes(Append(q, c), base, good, bad)
           /\ c \in good => Comes(Append(q, c), base, good, bad)
<1> DEFINE n == Len(q)
           r == Append(q, c)
<1>1. n \in Nat /\ Len(r) = n + 1 /\ r[n + 1] = c /\ \A i \in 1..n : r[i] = q[i]
  OBVIOUS
<1> HIDE DEF n, r
<1>2. ASSUME Comes(q, base, good, bad), c \notin bad PROVE Comes(r, base, good, bad)
  <2>1. PICK i \in 0..n : /\ (i = 0 /\ base) \/ (i # 0 /\ q[i] \in good)
                          /\ \A j \in (i + 1)..n : q[j] \notin bad
    BY <1>2 DEF Comes, n
  <2>2. i \in 0..(n + 1) /\ (i # 0 => i \in 1..n)
    BY <1>1
  <2>3. ASSUME NEW j \in (i + 1)..(n + 1) PROVE r[j] \notin bad
    <3>1. CASE j = n + 1
      BY <1>1, <1>2, <3>1
    <3>2. CASE j # n + 1
      <4>1. j \in (i + 1)..n /\ j \in 1..n
        BY <1>1, <3>2
      <4> QED BY <1>1, <2>1, <4>1
    <3> QED BY <3>1, <3>2
  <2>4. (i = 0 /\ base) \/ (i # 0 /\ r[i] \in good)
    BY <1>1, <2>1, <2>2
  <2> QED BY <1>1, <2>2, <2>3, <2>4 DEF Comes
<1>3. ASSUME c \in good PROVE Comes(r, base, good, bad)
  <2>1. n + 1 \in 0..(n + 1) /\ n + 1 # 0 /\ r[n + 1] \in good /\ \A j \in ((n + 1) + 1)..(n + 1) : r[j] \notin bad
    BY <1>1, <1>3
  <2> QED BY <1>1, <2>1 DEF Comes
<1> QED BY <1>2, <1>3 DEF r

\* The change at the head is made.
LEMMA ComesWritten ==
    ASSUME NEW q \in Seq(Changes), q # <<>>, NEW base, NEW after, NEW good, NEW bad, Comes(q, base, good, bad),
           Head(q) \in good => after, base /\ Head(q) \notin bad => after
    PROVE  Comes(Tail(q), after, good, bad)
<1> DEFINE n == Len(q)
           r == Tail(q)
<1>0. SUFFICES Comes(r, after, good, bad)
  OBVIOUS
<1>1. n \in Nat /\ n >= 1 /\ Len(r) = n - 1 /\ Head(q) = q[1] /\ \A i \in 1..(n - 1) : r[i] = q[i + 1]
  <2>1. Len(q) # 0 /\ Len(q) \in Nat
    OBVIOUS
  <2>2. Len(Tail(q)) = Len(q) - 1 /\ Head(q) = q[1] /\ \A i \in 1..(Len(q) - 1) : Tail(q)[i] = q[i + 1]
    BY <2>1
  <2> QED BY <2>1, <2>2
<1> HIDE DEF n, r
<1>2. PICK i \in 0..n : /\ (i = 0 /\ base) \/ (i # 0 /\ q[i] \in good)
                        /\ \A j \in (i + 1)..n : q[j] \notin bad
  BY DEF Comes, n
<1>3. ASSUME NEW k \in 0..(n - 1), k + 1 >= i, NEW j \in (k + 1)..(n - 1) PROVE r[j] \notin bad
  <2>1. j \in 1..(n - 1) /\ j + 1 \in (i + 1)..n
    BY <1>1, <1>3
  <2> QED BY <1>1, <1>2, <2>1
<1>4. CASE i = 0 \/ i = 1
  <2>1. after
    <3>1. CASE i = 0
      <4>1. 1 \in (i + 1)..n
        BY <1>1, <3>1
      <4> QED BY <1>1, <1>2, <3>1, <4>1
    <3>2. CASE i = 1
      BY <1>1, <1>2, <3>2
    <3> QED BY <1>4, <3>1, <3>2
  <2>2. 0 \in 0..(n - 1) /\ 0 + 1 >= i
    BY <1>1, <1>4
  <2>3. \A j \in (0 + 1)..(n - 1) : r[j] \notin bad
    BY <1>3, <2>2
  <2>4. 0 \in 0..Len(r) /\ \A j \in (0 + 1)..Len(r) : r[j] \notin bad
    BY <1>1, <2>2, <2>3
  <2> QED BY <2>1, <2>4 DEF Comes
<1>5. CASE ~ (i = 0 \/ i = 1)
  <2>1. i - 1 \in 0..(n - 1) /\ i - 1 \in 1..(n - 1) /\ (i - 1) + 1 = i /\ (i - 1) + 1 >= i /\ i - 1 # 0
    BY <1>1, <1>5
  <2>2. r[i - 1] \in good
    BY <1>1, <1>2, <1>5, <2>1
  <2> DEFINE k == i - 1
  <2>3. \A j \in (k + 1)..Len(r) : r[j] \notin bad
    <3>1. k \in 0..(n - 1) /\ k + 1 >= i /\ Len(r) = n - 1
      BY <1>1, <2>1
    <3> HIDE DEF k
    <3> QED BY <1>3, <3>1
  <2>4. k \in 0..Len(r) /\ k # 0 /\ r[k] \in good
    BY <1>1, <2>1, <2>2
  <2> HIDE DEF k
  <2> QED BY <2>3, <2>4 DEF Comes
<1> QED BY <1>4, <1>5

\* Nothing is queued.
LEMMA ComesEmpty ==
    ASSUME NEW base, NEW good, NEW bad
    PROVE  Comes(<<>>, base, good, bad) <=> base
<1>1. Len(<<>>) = 0
  OBVIOUS
<1>2. 0..0 = {0} /\ (0 + 1)..0 = {}
  OBVIOUS
<1> QED BY <1>1, <1>2 DEF Comes

Adds(t) == {c \in Changes : c.op = "added" /\ t \in c.txs}
Deletes(t) == {c \in Changes : c.op = "deleted" /\ t \in c.txs}
UpdatesTo(t, h) == {c \in Changes : c.op = "updated" /\ t \in c.txs /\ c.height = h}
UpdatesOther(t, h) == {c \in Changes : c.op = "updated" /\ t \in c.txs /\ c.height # h}

\* t will have a row, none, or one with its height if any
RowComes(t) == Comes(queue, t \in DOMAIN rows, Adds(t), Deletes(t))
RowGoes(t) == Comes(queue, t \notin DOMAIN rows, Deletes(t), Adds(t))
HeightComes(t) ==
    Comes(queue, t \in DOMAIN rows => rows[t].height = height[t],
          Adds(t) \cup UpdatesTo(t, height[t]), UpdatesOther(t, height[t]))

\* the rows there will be when the queue has been worked off are those of the list
QueueOK ==
    /\ \A t \in Listed : RowComes(t)
    /\ \A t \in Txs \ Listed : RowGoes(t)
    /\ \A t \in Txs : HeightComes(t)

\* Nothing about rows changes.
LEMMA QueueSame ==
    ASSUME QueueOK, Listed' = Listed, UNCHANGED <<height, queue, rows>>
    PROVE  QueueOK'
BY DEF QueueOK, RowComes, RowGoes, HeightComes

\* Saving blocks queues no change of the rows.
LEMMA QueueBlocks ==
    ASSUME queue \in Seq(Changes), QueueOK, Listed' = Listed, UNCHANGED <<height, rows>>, Chain \in ChainSet,
           queue' = Enqueue(queue, SavedBlocks(Chain))
    PROVE  QueueOK'
<1> DEFINE c == SavedBlocks(Chain)
<1>1. c \in Changes /\ c.op = "blocks"
  BY ChangeTypes DEF SavedBlocks
<1>2. queue' = Append(queue, c)
  BY DEF Enqueue
<1> HIDE DEF c
<1>3. \A t, h : c \notin Adds(t) /\ c \notin Deletes(t) /\ c \notin UpdatesOther(t, h)
  BY <1>1 DEF Adds, Deletes, UpdatesOther
<1>4. \A t : (RowComes(t) => RowComes(t)') /\ (RowGoes(t) => RowGoes(t)') /\ (HeightComes(t) => HeightComes(t)')
  BY <1>1, <1>2, <1>3, ComesAfter DEF RowComes, RowGoes, HeightComes
<1> QED BY <1>4 DEF QueueOK

\* What txUpdated is told about overrides what it was told before.
LEMMA QueueUpdated ==
    ASSUME queue \in Seq(Changes), QueueOK, Listed' = Listed, Listed \subseteq Txs, rows' = rows,
           NEW hashes \in SUBSET Txs, NEW h \in Heights, NEW ts \in {0, 1}, TxUpdated(hashes, h, ts),
           \A t \in Txs : height'[t] = IF t \in hashes THEN h ELSE height[t]
    PROVE  QueueOK'
<1>1. CASE hashes = {}
  <2>1. queue' = queue /\ \A t \in Txs : height'[t] = height[t]
    BY <1>1 DEF TxUpdated
  <2> QED BY <2>1 DEF QueueOK, RowComes, RowGoes, HeightComes
<1>2. CASE hashes # {}
  <2> DEFINE c == Updated(hashes, h, ts)
  <2>1. c \in Changes /\ c.op = "updated" /\ c.txs = hashes /\ c.height = h
    BY ChangeTypes DEF Updated
  <2>2. queue' = Append(queue, c)
    BY <1>2 DEF TxUpdated, Enqueue
  <2> HIDE DEF c
  <2>3. \A t : c \notin Adds(t) /\ c \notin Deletes(t)
    BY <2>1 DEF Adds, Deletes
  <2>4. \A t : (RowComes(t) => RowComes(t)') /\ (RowGoes(t) => RowGoes(t)')
    BY <2>1, <2>2, <2>3, ComesAfter DEF RowComes, RowGoes
  <2>5. ASSUME NEW t \in Txs PROVE HeightComes(t)'
    <3>1. CASE t \in hashes
      <4>1. c \in Adds(t) \cup UpdatesTo(t, height'[t])
        BY <2>1, <3>1 DEF UpdatesTo
      <4> QED BY <2>1, <2>2, <4>1, ComesAfter DEF HeightComes
    <3>2. CASE t \notin hashes
      <4>1. c \notin UpdatesOther(t, height[t]) /\ height'[t] = height[t] /\ HeightComes(t)
        BY <2>1, <3>2 DEF UpdatesOther, QueueOK
      <4> QED BY <2>1, <2>2, <4>1, ComesAfter DEF HeightComes
    <3> QED BY <3>1, <3>2
  <2> QED BY <2>4, <2>5 DEF QueueOK
<1> QED BY <1>1, <1>2

\* A transaction is listed, or taken off the list.
LEMMA QueueListed ==
    ASSUME queue \in Seq(Changes), QueueOK, NEW t \in Txs, UNCHANGED <<height, rows>>, Listed \subseteq Txs,
           \/ TxAdded(t) /\ Listed' = Listed \cup {t}
           \/ TxDeleted(t) /\ Listed' = Listed \ {t}
    PROVE  QueueOK'
<1>1. Added(t) \in Changes /\ Added(t).op = "added" /\ Added(t).txs = {t}
  BY ChangeTypes DEF Added
<1>2. Deleted(t) \in Changes /\ Deleted(t).op = "deleted" /\ Deleted(t).txs = {t}
  BY ChangeTypes DEF Deleted
<1>3. PICK c \in Changes :
         /\ c.op # "updated" /\ c.txs = {t} /\ queue' = Append(queue, c)
         /\ (c.op = "added" /\ Listed' = Listed \cup {t}) \/ (c.op = "deleted" /\ Listed' = Listed \ {t})
  <2>1. CASE TxAdded(t) /\ Listed' = Listed \cup {t}
    <3>1. queue' = Append(queue, Added(t))
      BY <2>1 DEF TxAdded, Enqueue
    <3> QED BY <1>1, <2>1, <3>1
  <2>2. CASE TxDeleted(t) /\ Listed' = Listed \ {t}
    <3>1. queue' = Append(queue, Deleted(t))
      BY <2>2 DEF TxDeleted, Enqueue
    <3> QED BY <1>2, <2>2, <3>1
  <2> QED BY <2>1, <2>2
<1>4. \A u \in Txs \ {t} : (RowComes(u) => RowComes(u)') /\ (RowGoes(u) => RowGoes(u)')
  <2>1. \A u \in Txs \ {t} : c \notin Adds(u) /\ c \notin Deletes(u)
    BY <1>3 DEF Adds, Deletes
  <2> QED BY <1>3, <2>1, ComesAfter DEF RowComes, RowGoes
<1>5. c.op = "added" => RowComes(t)'
  <2>1. c.op = "added" => c \in Adds(t)
    BY <1>3 DEF Adds
  <2> QED BY <1>3, <2>1, ComesAfter DEF RowComes
<1>6. c.op = "deleted" => RowGoes(t)'
  <2>1. c.op = "deleted" => c \in Deletes(t)
    BY <1>3 DEF Deletes
  <2> QED BY <1>3, <2>1, ComesAfter DEF RowGoes
<1>7. \A u \in Txs : HeightComes(u) => HeightComes(u)'
  <2>1. \A u, h : c \notin UpdatesOther(u, h)
    BY <1>3 DEF UpdatesOther
  <2> QED BY <1>3, <2>1, ComesAfter DEF HeightComes
<1>8. CASE c.op = "added" /\ Listed' = Listed \cup {t}
  BY <1>4, <1>5, <1>7, <1>8 DEF QueueOK
<1>9. CASE c.op = "deleted" /\ Listed' = Listed \ {t}
  BY <1>4, <1>6, <1>7, <1>9 DEF QueueOK
<1> QED BY <1>3, <1>8, <1>9

\* The queue is worked off in its order.
LEMMA QueueWritten ==
    ASSUME VarTypes, QueueOK, WriteAdded \/ WriteUpdated \/ WriteDeleted \/ WriteBlocks
    PROVE  QueueOK'
<1> DEFINE c == Head(queue)
<1>1. queue # <<>> /\ queue' = Tail(queue) /\ height' = height /\ Listed' = Listed
  BY DEF WriteAdded, WriteUpdated, WriteDeleted, WriteBlocks, Write, walletVars, Listed
<1>2. /\ queue \in Seq(Changes) /\ RowsOK(rows) /\ height \in HeightMaps /\ timestamp \in [Txs -> {0, 1}]
      /\ Listed \subseteq Txs
  BY ToSetIs DEF VarTypes, Listed
<1>3. c \in Changes
  BY <1>1, <1>2
<1>4. /\ c.op = "updated" => c.height \in Heights /\ c.timestamp \in {0, 1}
  BY <1>1, <1>2, HeadTypes
<1> DEFINE S == c.txs
           Good(t) == t \in DOMAIN rows => rows[t].height = height[t]
           Effect == \/ /\ c.op = "added" /\ DOMAIN rows' = DOMAIN rows \cup S
                        /\ \A t \in DOMAIN rows' : rows'[t].height = IF t \in S THEN height[t] ELSE rows[t].height
                     \/ /\ c.op = "updated" /\ DOMAIN rows' = DOMAIN rows
                        /\ \A t \in DOMAIN rows : rows'[t].height = IF t \in S THEN c.height ELSE rows[t].height
                     \/ /\ c.op = "deleted" /\ DOMAIN rows' = DOMAIN rows \ S
                        /\ \A t \in DOMAIN rows' : rows'[t] = rows[t]
                     \/ c.op = "blocks" /\ rows' = rows
<1>5. Effect
  <2>1. CASE WriteAdded
    <3>1. c.op = "added"
      BY <2>1 DEF WriteAdded, Write
    <3> QED BY <1>2, <2>1, <3>1, RowAdded
  <2>2. CASE WriteUpdated
    <3> DEFINE r == rows'
    <3>1. r = UpdatedRows(c.txs, c.height, c.timestamp) /\ c.op = "updated"
      BY <2>2 DEF WriteUpdated, Write
    <3> HIDE DEF r, c
    <3>2. DOMAIN r = DOMAIN rows /\ \A t \in DOMAIN rows : r[t].height = IF t \in S THEN c.height ELSE rows[t].height
      BY <1>2, <1>4, <3>1, RowsUpdated
    <3> QED BY <3>1, <3>2 DEF r
  <2>3. CASE WriteDeleted
    <3>1. c.op = "deleted"
      BY <2>3 DEF WriteDeleted, Write
    <3> QED BY <1>2, <2>3, <3>1, RowDeleted
  <2>4. CASE WriteBlocks
    BY <2>4 DEF WriteBlocks, Write
  <2> QED BY <2>1, <2>2, <2>3, <2>4
<1>6. ASSUME NEW t PROVE /\ c \in Adds(t) => t \in DOMAIN rows'
                         /\ t \in DOMAIN rows /\ c \notin Deletes(t) => t \in DOMAIN rows'
                         /\ c \in Deletes(t) => t \notin DOMAIN rows'
                         /\ t \notin DOMAIN rows /\ c \notin Adds(t) => t \notin DOMAIN rows'
  <2> HIDE DEF c
  <2> QED BY <1>3, <1>5 DEF Adds, Deletes
<1>7. ASSUME NEW t PROVE /\ c \in Adds(t) \cup UpdatesTo(t, height[t]) => Good(t)'
                         /\ Good(t) /\ c \notin UpdatesOther(t, height[t]) => Good(t)'
  <2>1. \/ c.op = "added" /\ t \in DOMAIN rows' => rows'[t].height = height[t] \/ (t \notin S /\ t \in DOMAIN rows /\ rows'[t].height = rows[t].height)
        \/ c.op # "added"
    BY <1>5
  <2> HIDE DEF c
  <2>2. Good(t)' <=> (t \in DOMAIN rows' => rows'[t].height = height[t])
    BY <1>1
  <2> QED BY <1>3, <1>5, <2>2 DEF Adds, UpdatesTo, UpdatesOther
<1>8. ASSUME NEW t PROVE (RowComes(t) => RowComes(t)') /\ (RowGoes(t) => RowGoes(t)')
  <2> HIDE DEF Effect
  <2>1. RowComes(t) => RowComes(t)'
    BY <1>1, <1>2, <1>6, ComesWritten DEF RowComes
  <2>2. RowGoes(t) => RowGoes(t)'
    BY <1>1, <1>2, <1>6, ComesWritten DEF RowGoes
  <2> QED BY <2>1, <2>2
<1>9. ASSUME NEW t PROVE HeightComes(t) => HeightComes(t)'
  <2> HIDE DEF Effect
  <2> DEFINE good == Adds(t) \cup UpdatesTo(t, height[t])
             bad == UpdatesOther(t, height[t])
             after == t \in DOMAIN rows' => rows'[t].height = height[t]
  <2>1. (Head(queue) \in good => after) /\ (Good(t) /\ Head(queue) \notin bad => after)
    BY <1>1, <1>7
  <2>2. HeightComes(t)' <=> Comes(queue', after, good, bad)
    BY <1>1 DEF HeightComes
  <2>3. HeightComes(t) <=> Comes(queue, Good(t), good, bad)
    BY DEF HeightComes
  <2> HIDE DEF good, bad, after, Good
  <2> QED BY <1>1, <1>2, <2>1, <2>2, <2>3, ComesWritten
<1> QED BY <1>1, <1>8, <1>9 DEF QueueOK

(***************************************************************************)
(* The second invariant, for restarts that recognise every row: the list,  *)
(* the rows it will have and the ledger agree.                             *)
(***************************************************************************)
\* each transaction is listed once, sorted; what is listed or confirmed is known and belongs to the wallet
ListOK ==
    /\ IsInjective(transactions) /\ Sorted(transactions, height)
    /\ \A t \in Listed : t \in allTx /\ ContainsTx(t, allTx, WalletAddrs(chainLen))
    /\ \A t \in Txs : height[t] # Unconfirmed => t \in allTx /\ ContainsTx(t, allTx, WalletAddrs(chainLen))

RemovingOK == \A t \in ToSet(removing) : height[t] = Unconfirmed

LedgerOK == Sums(ledger) /\ Valid(ledger, Listed, height)

WalletInv == ListOK /\ QueueOK /\ RemovingOK /\ LedgerOK

\* A ledger that is computed anew adds up, and calls no unconfirmed transaction valid beside a conflicting one.
LEMMA RecomputeOK ==
    ASSUME VarTypes', ListOK', NEW addrs, NEW bh, NEW clock,
           ledger' = UpdateBalance(transactions', height', addrs, bh, clock)
    PROVE  LedgerOK'
<1> DEFINE l == transactions'
           h == height'
<1>1. l \in Seq(Txs) /\ h \in HeightMaps /\ IsInjective(l) /\ Sorted(l, h)
  BY DEF VarTypes, ListOK
<1>2. Sums(UpdateBalance(l, h, addrs, bh, clock)) /\ Valid(UpdateBalance(l, h, addrs, bh, clock), ToSet(l), h)
  <2> HIDE DEF l, h
  <2> QED BY <1>1, UpdateAdds
<1> QED BY <1>2 DEF LedgerOK, Listed

\* A transaction of the wallet that is registered: sorted in, its row queued.
LEMMA RegisterWalletInv ==
    ASSUME VarTypes, EnvTypes, LedgerFits, WalletInv, VarTypes', EnvTypes', LedgerFits',
           NEW t \in Txs, NEW ts \in {0, 1}, RegisterTransaction(t, ts)
    PROVE  WalletInv'
<1>1. CASE RegisterWalletTx(t, ts)
  <2>1. /\ t \notin allTx /\ ContainsTx(t, allTx, WalletAddrs(chainLen))
        /\ allTx' = allTx \cup {t} /\ transactions' = InsertTx(transactions, t, height, allTx', chainLen)
        /\ ledger' = UpdateBalance(transactions', height', WalletAddrs(chainLen), blockHeight, now)
        /\ chainLen' = TopUp(chainLen, 0, ledger'.usedAddrs) /\ TxAdded(t)
        /\ UNCHANGED <<height, blockHeight, removing, rows>>
    BY <1>1 DEF RegisterWalletTx, Recompute, dbVars
  <2>2. t \notin Listed
    BY <2>1 DEF WalletInv, ListOK
  <2> DEFINE all == allTx'
  <2>4. /\ Listed' = Listed \cup {t} /\ IsInjective(transactions') /\ Sorted(transactions', height')
    <3>1. all \in SUBSET Txs /\ transactions \in Seq(Txs) /\ height \in HeightMaps
      BY DEF VarTypes
    <3> DEFINE l == InsertTx(transactions, t, height, all, chainLen)
    <3>2. transactions' = l
      BY <2>1
    <3> HIDE DEF all
    <3>3. /\ ToSet(l) = ToSet(transactions) \cup {t}
          /\ IsInjective(transactions) /\ t \notin ToSet(transactions) => IsInjective(l)
          /\ Sorted(transactions, height) => Sorted(l, height)
      BY <3>1, InsertKeeps
    <3> HIDE DEF l
    <3> QED BY <2>1, <2>2, <3>2, <3>3 DEF Listed, WalletInv, ListOK
  <2>5. WalletAddrs(chainLen) \subseteq WalletAddrs(chainLen')
    <3> DEFINE used == ledger'.usedAddrs
               more == chainLen'
    <3>1. used \in SUBSET AllAddrs
      BY DEF LedgerFits, Fits, Ledgers
    <3>2. chainLen \in [Chains -> Nat] /\ more \in [Chains -> Nat] /\ more = TopUp(chainLen, 0, used) /\ 0 \in Nat
      BY <2>1 DEF VarTypes
    <3> HIDE DEF used, more
    <3>3. \A c \in Chains : more[c] >= chainLen[c]
      BY <3>1, <3>2, TopUpGrows
    <3>4. WalletAddrs(chainLen) \subseteq WalletAddrs(more)
      BY <3>2, <3>3, MoreAddrs
    <3> QED BY <3>4 DEF more
  <2>6. ListOK'
    <3> DEFINE W == WalletAddrs(chainLen)
               V == WalletAddrs(chainLen')
    <3>1. ASSUME NEW u, u \in Listed \cup {t} \/ (u \in Txs /\ height[u] # Unconfirmed) PROVE u \in all /\ ContainsTx(u, all, V)
      <4>1. u \in allTx \cup {t} /\ ContainsTx(u, allTx, W)
        BY <2>1, <3>1 DEF WalletInv, ListOK
      <4>2. W \subseteq V /\ allTx \subseteq all /\ all = allTx \cup {t}
        BY <2>1, <2>5
      <4> HIDE DEF W, V, all
      <4> QED BY <4>1, <4>2, ContainsMore
    <3> QED BY <2>1, <2>4, <3>1 DEF ListOK
  <2>7. RemovingOK'
    BY <2>1 DEF WalletInv, RemovingOK
  <2>8. QueueOK'
    <3>1. queue \in Seq(Changes) /\ Listed \subseteq Txs
      BY ToSetIs DEF VarTypes, Listed
    <3> QED BY <2>1, <2>4, <3>1, QueueListed DEF WalletInv
  <2>9. LedgerOK'
    BY <2>1, <2>6, RecomputeOK
  <2> QED BY <2>6, <2>7, <2>8, <2>9 DEF WalletInv
<1>2. CASE RegisterOtherTx(t, ts)
  <2>1. /\ allTx' = allTx \cup {t}
        /\ UNCHANGED <<height, blockHeight, transactions, chainLen, ledger, removing, queue, rows>>
    BY <1>2 DEF RegisterOtherTx, dbVars
  <2>2. ListOK'
    <3> DEFINE W == WalletAddrs(chainLen)
               all == allTx'
    <3>1. ASSUME NEW u, u \in Listed \/ (u \in Txs /\ height[u] # Unconfirmed) PROVE u \in all /\ ContainsTx(u, all, W)
      <4>1. u \in allTx /\ ContainsTx(u, allTx, W) /\ allTx \subseteq all
        BY <2>1, <3>1 DEF WalletInv, ListOK
      <4> HIDE DEF W, all
      <4> QED BY <4>1, ContainsMore
    <3> QED BY <2>1, <3>1 DEF ListOK, WalletInv, Listed
  <2>3. QueueOK'
    BY <2>1, QueueSame DEF WalletInv, Listed
  <2> QED BY <2>1, <2>2, <2>3 DEF WalletInv, RemovingOK, LedgerOK, Listed
<1>3. CASE RegisterKnownTx(t)
  <2>1. UNCHANGED <<height, transactions, allTx, chainLen, ledger, removing, queue, rows>>
    BY <1>3 DEF RegisterKnownTx, vars, walletVars, dbVars
  <2>2. QueueOK'
    BY <2>1, QueueSame DEF WalletInv, Listed
  <2> QED BY <2>1, <2>2 DEF WalletInv, ListOK, RemovingOK, LedgerOK, Listed
<1> QED BY <1>1, <1>2, <1>3 DEF RegisterTransaction

\* what BRWalletUpdateTransactions does when it reports the given hashes
Effect(hashes, S, h, ts) ==
    /\ hashes \subseteq S
    /\ ToSet(transactions') = ToSet(transactions)
    /\ \A t \in Txs : height'[t] = IF t \in hashes THEN h ELSE height[t]
    /\ \A t \in S \cap Listed : height'[t] = h
    /\ TxUpdated(hashes, h, ts)
    /\ removing' = removing /\ rows' = rows
    /\ ledger' = ledger \/ \E bh : ledger' = UpdateBalance(transactions', height', WalletAddrs(chainLen), bh, now)

\* BRWalletUpdateTransactions gives the hashes it reports the height h, and frees only other transactions.
LEMMA UpdateEffect ==
    ASSUME VarTypes, ListOK, NEW txHashes \in Seq(Txs), NEW h \in Heights, NEW ts \in {0, 1},
           UpdateTransactions(txHashes, h, ts)
    PROVE  ListOK' /\ \E hashes \in SUBSET Txs : Effect(hashes, ToSet(txHashes), h, ts)
<1> DEFINE s == UpdateAll(txHashes, h, ts)
           W == WalletAddrs(chainLen)
<1>1. UpdatedState(s, ToSet(txHashes), h)
  BY UpdateAllKeeps DEF VarTypes
<1>2. /\ height' = s.height /\ transactions' = s.list /\ allTx' = s.all
      /\ (ledger' = UpdateBalance(s.list, s.height, WalletAddrs(chainLen), blockHeight', now) \/ ledger' = ledger)
      /\ TxUpdated(s.hashes, h, ts)
      /\ chainLen' = chainLen /\ removing' = removing /\ rows' = rows
  BY DEF UpdateTransactions, Recompute, dbVars
<1> HIDE DEF s
<1>3. /\ s \in Updates /\ s.hashes \in SUBSET Txs /\ s.all \subseteq allTx /\ allTx \cap Payers(W) \subseteq s.all
      /\ allTx \in SUBSET Txs
      /\ \A t \in allTx \ s.all : ~ ContainsTx(t, allTx, W)
      /\ \A t \in s.hashes : t \in allTx /\ ContainsTx(t, allTx, W)
  BY <1>1 DEF UpdatedState, Updates, VarTypes
<1>4. ToSet(transactions') = ToSet(transactions) /\ Listed' = Listed
  BY <1>1, <1>2 DEF UpdatedState, Listed
<1>7. /\ s.hashes \subseteq ToSet(txHashes)
      /\ \A t \in Txs : height'[t] = IF t \in s.hashes THEN h ELSE height[t]
      /\ \A t \in ToSet(txHashes) \cap Listed : height'[t] = h
  BY <1>1, <1>2 DEF UpdatedState, ListOK
<1>5. ListOK'
  <2>1. ASSUME NEW t, t \in Listed \/ (t \in Txs /\ height'[t] # Unconfirmed) PROVE t \in allTx /\ ContainsTx(t, allTx, W)
    <3>1. CASE t \in Listed \/ (t \in Txs /\ height[t] # Unconfirmed)
      BY <3>1 DEF ListOK
    <3>2. CASE t \in s.hashes
      BY <1>3, <3>2
    <3> QED BY <1>7, <2>1, <3>1, <3>2
  <2>2. ASSUME NEW t, t \in Listed \/ (t \in Txs /\ height'[t] # Unconfirmed) PROVE t \in s.all /\ ContainsTx(t, s.all, W)
    <3> HIDE DEF W
    <3>1. \A u \in Txs : ContainsTx(u, s.all, W) <=> ContainsTx(u, allTx, W)
      BY <1>3, ContainsSame
    <3> QED BY <1>3, <2>1, <2>2, <3>1
  <2>3. IsInjective(transactions') /\ Sorted(transactions', height')
    BY <1>1, <1>2 DEF UpdatedState, ListOK
  <2> QED BY <1>2, <1>4, <2>2, <2>3 DEF ListOK
<1>8. ledger' = ledger \/ \E bh : ledger' = UpdateBalance(transactions', height', WalletAddrs(chainLen), bh, now)
  BY <1>2
<1>9. Effect(s.hashes, ToSet(txHashes), h, ts)
  BY <1>2, <1>4, <1>7, <1>8 DEF Effect
<1> QED BY <1>3, <1>5, <1>9

\* So it keeps the invariant when it takes no confirmation back.
LEMMA UpdateInv ==
    ASSUME VarTypes, WalletInv, VarTypes', removing = <<>>, NEW txHashes \in Seq(Txs), NEW h \in Heights, NEW ts \in {0, 1},
           UpdateTransactions(txHashes, h, ts), h # Unconfirmed \/ \A t \in ToSet(txHashes) : height[t] = Unconfirmed
    PROVE  WalletInv'
<1>1. ListOK' /\ \E hashes \in SUBSET Txs : Effect(hashes, ToSet(txHashes), h, ts)
  BY UpdateEffect DEF WalletInv
<1>2. PICK hashes \in SUBSET Txs : Effect(hashes, ToSet(txHashes), h, ts)
  BY <1>1
<1>3. Listed' = Listed /\ Listed \subseteq Txs /\ queue \in Seq(Changes)
  BY <1>2, ToSetIs DEF Effect, Listed, VarTypes
<1>4. QueueOK'
  BY <1>2, <1>3, QueueUpdated DEF Effect, WalletInv
<1>5. RemovingOK'
  BY <1>2 DEF Effect, RemovingOK, ToSet
<1>6. LedgerOK'
  <2>1. CASE ledger' = ledger
    <3>1. \A t \in Txs : height[t] # Unconfirmed => height'[t] # Unconfirmed
      BY <1>2 DEF Effect
    <3>2. Sums(ledger) /\ Valid(ledger, Listed, height)
      BY DEF WalletInv, LedgerOK
    <3>3. Valid(ledger, Listed, height')
      BY <1>3, <3>1, <3>2 DEF Valid
    <3> QED BY <1>3, <2>1, <3>2, <3>3 DEF LedgerOK
  <2>2. CASE \E bh : ledger' = UpdateBalance(transactions', height', WalletAddrs(chainLen), bh, now)
    <3>1. PICK bh : ledger' = UpdateBalance(transactions', height', WalletAddrs(chainLen), bh, now)
      BY <2>2
    <3> QED BY <1>1, <3>1, RecomputeOK
  <2> QED BY <1>2, <2>1, <2>2 DEF Effect
<1> QED BY <1>1, <1>4, <1>5, <1>6 DEF WalletInv

\* A block: the transactions it holds are confirmed.
LEMMA BlockInv ==
    ASSUME VarTypes, EnvTypes, WalletInv, VarTypes', NEW block \in Blocks, BlockConfirms(block)
    PROVE  WalletInv'
<1>1. block \in Seq(Txs) /\ removing = <<>> /\ tip + 1 \in Heights /\ tip + 1 # Unconfirmed
  <2>1. tip \in Nat /\ tip < MaxHeight /\ MaxHeight \in Nat /\ Unconfirmed \in Nat /\ MaxHeight < Unconfirmed
    BY HeightTypes DEF EnvTypes, BlockConfirms
  <2> QED BY <2>1, BlockTypes DEF Heights, BlockConfirms, Ready
<1>2. CASE block # <<>>
  <2>1. UpdateTransactions(block, tip + 1, 1) /\ 1 \in {0, 1}
    BY <1>2 DEF BlockConfirms
  <2> QED BY <1>1, <2>1, UpdateInv
<1>3. CASE block = <<>>
  <2>1. UNCHANGED <<height, transactions, allTx, chainLen, ledger, removing, queue, rows>>
    BY <1>3 DEF BlockConfirms, walletVars, dbVars
  <2>2. QueueOK'
    BY <2>1, QueueSame DEF WalletInv, Listed
  <2> QED BY <2>1, <2>2 DEF WalletInv, ListOK, RemovingOK, LedgerOK, Listed
<1> QED BY <1>2, <1>3

\* A relay count: unconfirmed transactions stay so.
LEMMA RelayInv ==
    ASSUME VarTypes, WalletInv, VarTypes', NEW t \in Txs, NEW ts \in {0, 1}, RelayCountChanges(t, ts)
    PROVE  WalletInv'
<1>1. /\ UpdateTransactions(<<t>>, Unconfirmed, ts) /\ <<t>> \in Seq(Txs) /\ Unconfirmed \in Heights
      /\ ToSet(<<t>>) = {t} /\ height[t] = Unconfirmed /\ removing = <<>>
  BY DEF RelayCountChanges, Heights, ToSet, Ready
<1> QED BY <1>1, UpdateInv

\* In a sorted list the walk of BRWalletSetTxUnconfirmedAfter passes just the transactions above h.
LEMMA PassedAre ==
    ASSUME VarTypes, ListOK, NEW h \in 0..MaxHeight
    PROVE  LET hashes == {transactions[k] : k \in (ConfirmedUpTo(h) + 1)..Len(transactions)}
           IN  hashes \subseteq Listed /\ \A t \in Listed : t \in hashes <=> height[t] > h
<1> DEFINE m == Len(transactions)
           I == {k \in 1..m : height[transactions[k]] <= h}
           i == LastOf(I)
           hashes == {transactions[k] : k \in (i + 1)..m}
<1>1. transactions \in Seq(Txs) /\ height \in HeightMaps
  BY DEF VarTypes
<1>2. ConfirmedUpTo(h) = i
  BY <1>1, ConfirmedUpToIs
<1>3. m \in Nat /\ I \in SUBSET (1..m) /\ \A k \in 1..m : transactions[k] \in Txs
  BY <1>1
<1>4. /\ i \in 0..m /\ (i \in I \/ (I = {} /\ i = 0))
      /\ \A k \in 1..m : k > i => k \notin I
  <2> HIDE DEF m, I
  <2> QED BY <1>3, LastPosition
<1>5. \A t : t \in Listed <=> \E k \in 1..m : transactions[k] = t
  BY <1>1, ToSetIs DEF Listed
<1>6. \A k \in 1..m : height[transactions[k]] \in Nat
  BY <1>1, <1>3, HeightTypes
<1>7. h \in Nat
  BY HeightTypes
<1>8. \A j, k \in 1..m : (transactions[j] = transactions[k] => j = k) /\ (j <= k => height[transactions[j]] <= height[transactions[k]])
  BY <1>1 DEF ListOK, IsInjective, Sorted
<1>9. \A k \in 1..m : k \in I <=> height[transactions[k]] <= h
  OBVIOUS
<1> HIDE DEF m, I, i
<1>10. ASSUME NEW k \in 1..m, k > i PROVE height[transactions[k]] > h
  BY <1>4, <1>6, <1>7, <1>9, <1>10
<1>11. ASSUME NEW k \in 1..m, k <= i PROVE height[transactions[k]] <= h
  <2>1. i \in I /\ i \in 1..m
    BY <1>3, <1>4, <1>11
  <2>2. height[transactions[k]] <= height[transactions[i]] /\ height[transactions[i]] <= h
    BY <1>8, <1>9, <1>11, <2>1
  <2> QED BY <1>6, <1>7, <2>1, <2>2
<1>12. \A k \in (i + 1)..m : k \in 1..m /\ k > i
  BY <1>3, <1>4
<1>13. \A k \in 1..m : ~ (k <= i) => k \in (i + 1)..m /\ k > i
  BY <1>3, <1>4
<1>14. hashes \subseteq Listed
  BY <1>5, <1>12
<1>15. ASSUME NEW t \in Listed PROVE t \in hashes <=> height[t] > h
  <2>1. PICK k \in 1..m : transactions[k] = t
    BY <1>5
  <2>2. CASE k <= i
    <3>1. height[t] <= h /\ ~ (height[t] > h)
      BY <1>6, <1>7, <1>11, <2>1, <2>2
    <3>2. t \notin hashes
      <4>1. SUFFICES ASSUME NEW j \in (i + 1)..m, transactions[j] = t PROVE FALSE
        OBVIOUS
      <4>2. j = k /\ j > i
        BY <1>8, <1>12, <2>1, <4>1
      <4> QED BY <1>3, <1>4, <2>2, <4>2
    <3> QED BY <3>1, <3>2
  <2>3. CASE ~ (k <= i)
    BY <1>10, <1>13, <2>1, <2>3
  <2> QED BY <2>2, <2>3
<1>16. hashes = {transactions[k] : k \in (ConfirmedUpTo(h) + 1)..Len(transactions)}
  BY <1>2 DEF m
<1> HIDE DEF hashes
<1> QED BY <1>14, <1>15, <1>16

\* A reorganisation: the end of the list is unconfirmed, and so stays sorted.
LEMMA UnconfirmInv ==
    ASSUME VarTypes, EnvTypes, WalletInv, VarTypes', NEW h \in 0..MaxHeight, SetTxUnconfirmedAfter(h)
    PROVE  WalletInv'
<1> DEFINE hashes == {transactions[k] : k \in (ConfirmedUpTo(h) + 1)..Len(transactions)}
<1>1. /\ removing = <<>>
      /\ height' = [t \in Txs |-> IF t \in hashes THEN Unconfirmed ELSE height[t]]
      /\ IF hashes # {}
         THEN ledger' = UpdateBalance(transactions', height', WalletAddrs(chainLen), h, now) /\ TxUpdated(hashes, Unconfirmed, 0)
         ELSE UNCHANGED <<ledger, queue>>
      /\ UNCHANGED <<transactions, allTx, chainLen, removing, rows>>
  BY DEF SetTxUnconfirmedAfter, Ready, Recompute, dbVars
<1>2. hashes \subseteq Listed /\ \A t \in Listed : t \in hashes <=> height[t] > h
  BY PassedAre DEF WalletInv
<1> HIDE DEF hashes
<1>3. Listed' = Listed /\ Listed \subseteq Txs /\ queue \in Seq(Changes)
  BY <1>1, ToSetIs DEF VarTypes, Listed
<1>4. h \in Nat /\ h < Unconfirmed /\ Unconfirmed \in Nat /\ \A t \in Txs : height[t] \in Nat /\ height[t] <= Unconfirmed
  <2>1. MaxHeight \in Nat /\ Unconfirmed \in Nat /\ MaxHeight < Unconfirmed
    BY HeightTypes
  <2>2. \A t \in Txs : height[t] \in Nat /\ height[t] <= Unconfirmed
    BY HeightTypes DEF VarTypes
  <2> QED BY <2>1, <2>2
<1>5. \A t \in Txs : height'[t] = IF t \in hashes THEN Unconfirmed ELSE height[t]
  BY <1>1
<1>6. ListOK'
  <2>1. Sorted(transactions, height')
    <3>1. SUFFICES ASSUME NEW i \in DOMAIN transactions, NEW j \in DOMAIN transactions, i <= j
                   PROVE  height'[transactions[i]] <= height'[transactions[j]]
      BY DEF Sorted
    <3> DEFINE t == transactions[i]
               u == transactions[j]
    <3>2. t \in Listed /\ u \in Listed /\ height[t] <= height[u]
      BY <3>1 DEF WalletInv, ListOK, Sorted, Listed, ToSet
    <3> HIDE DEF t, u
    <3>3. t \in Txs /\ u \in Txs
      BY <1>3, <3>2
    <3>4. height'[t] <= height'[u]
      BY <1>2, <1>4, <1>5, <3>2, <3>3
    <3> QED BY <3>4 DEF t, u
  <2>2. \A t \in Txs : height'[t] # Unconfirmed => height[t] # Unconfirmed
    BY <1>5
  <2> QED BY <1>1, <1>3, <2>1, <2>2 DEF WalletInv, ListOK
<1>7. QueueOK'
  <2>1. TxUpdated(hashes, Unconfirmed, 0)
    BY <1>1 DEF TxUpdated
  <2>2. hashes \in SUBSET Txs /\ Unconfirmed \in Heights /\ 0 \in {0, 1}
    BY <1>2, <1>3 DEF Heights
  <2> QED BY <1>1, <1>3, <1>5, <2>1, <2>2, QueueUpdated DEF WalletInv
<1>8. RemovingOK'
  BY <1>1 DEF RemovingOK, ToSet
<1>9. LedgerOK'
  <2>1. CASE hashes # {}
    BY <1>1, <1>6, <2>1, RecomputeOK
  <2>2. CASE hashes = {}
    <3>1. \A t \in Txs : height'[t] = height[t]
      BY <1>5, <2>2
    <3>2. Sums(ledger) /\ Valid(ledger, Listed, height)
      BY DEF WalletInv, LedgerOK
    <3>3. Valid(ledger, Listed, height')
      BY <1>3, <3>1, <3>2 DEF Valid
    <3> QED BY <1>1, <1>3, <2>2, <3>2, <3>3 DEF LedgerOK
  <2> QED BY <2>1, <2>2
<1> QED BY <1>6, <1>7, <1>8, <1>9 DEF WalletInv

\* Sequences put together or shortened.
LEMMA SeqElements ==
    ASSUME NEW a \in Seq(Txs), NEW b \in Seq(Txs)
    PROVE  /\ ToSet(a \o b) = ToSet(a) \cup ToSet(b)
           /\ a # <<>> => ToSet(Tail(a)) \subseteq ToSet(a) /\ Head(a) \in ToSet(a)
<1>1. ToSet(a \o b) = ToSet(a) \cup ToSet(b)
  <2>1. ASSUME NEW i \in 1..Len(a) PROVE (a \o b)[i] = a[i] /\ i \in DOMAIN (a \o b)
    OBVIOUS
  <2>2. ASSUME NEW i \in 1..Len(b) PROVE (a \o b)[i + Len(a)] = b[i] /\ i + Len(a) \in DOMAIN (a \o b)
    OBVIOUS
  <2>3. ASSUME NEW i \in DOMAIN (a \o b)
        PROVE  (\E j \in 1..Len(a) : (a \o b)[i] = a[j]) \/ (\E j \in 1..Len(b) : (a \o b)[i] = b[j])
    <3>1. CASE i <= Len(a)
      <4>1. i \in 1..Len(a)
        BY <3>1
      <4> QED BY <2>1, <4>1
    <3>2. CASE ~ (i <= Len(a))
      <4>1. i - Len(a) \in 1..Len(b) /\ (i - Len(a)) + Len(a) = i
        BY <3>2
      <4> QED BY <2>2, <4>1
    <3> QED BY <3>1, <3>2
  <2>4. DOMAIN a = 1..Len(a) /\ DOMAIN b = 1..Len(b)
    OBVIOUS
  <2> DEFINE c == a \o b
             n == Len(a)
  <2>5. /\ \A i \in DOMAIN a : c[i] = a[i] /\ i \in DOMAIN c
        /\ \A i \in DOMAIN b : c[i + n] = b[i] /\ i + n \in DOMAIN c
        /\ \A i \in DOMAIN c : (\E j \in DOMAIN a : c[i] = a[j]) \/ (\E j \in DOMAIN b : c[i] = b[j])
    BY <2>1, <2>2, <2>3, <2>4
  <2> HIDE DEF c, n
  <2>6. {c[i] : i \in DOMAIN c} = {a[i] : i \in DOMAIN a} \cup {b[i] : i \in DOMAIN b}
    BY ONLY <2>5
  <2> QED BY <2>6 DEF ToSet, c
<1>2. ASSUME a # <<>> PROVE ToSet(Tail(a)) \subseteq ToSet(a) /\ Head(a) \in ToSet(a)
  <2>1. DOMAIN Tail(a) = 1..(Len(a) - 1) /\ DOMAIN a = 1..Len(a) /\ Len(a) \in Nat /\ Len(a) > 0
    BY <1>2
  <2>2. \A i \in 1..(Len(a) - 1) : Tail(a)[i] = a[i + 1] /\ i + 1 \in 1..Len(a)
    BY <1>2
  <2>3. Head(a) = a[1] /\ 1 \in 1..Len(a)
    BY <1>2
  <2> QED BY <2>1, <2>2, <2>3 DEF ToSet
<1> QED BY <1>1, <1>2

\* The dependents of an unconfirmed transaction are listed and unconfirmed; when there are none, a listed
\* transaction that spends an output of it is confirmed.
LEMMA DependentsAre ==
    ASSUME VarTypes, ListOK, NEW t \in Txs, height[t] = Unconfirmed
    PROVE  /\ Dependents(t) \in Seq(Txs)
           /\ \A u \in ToSet(Dependents(t)) : u \in Listed /\ height[u] = Unconfirmed
           /\ Dependents(t) = <<>> => \A u \in Listed : u # t /\ t \in ParentsOf(u) => height[u] # Unconfirmed
<1> DEFINE m == Len(transactions)
           I == {i \in 1..m : height[transactions[i]] < height[t]}
<1>1. transactions \in Seq(Txs) /\ height \in HeightMaps
  BY DEF VarTypes
<1>2. PICK from \in 0..m :
             /\ from = LastOf(I)
             /\ Dependents(t) \in Seq(Txs)
             /\ \A u : u \in ToSet(Dependents(t)) <=>
                       \E i \in (from + 1)..m : transactions[i] = u /\ IsDependent(u, t)
  BY <1>1, DependentsIs
<1>3. m \in Nat /\ I \in SUBSET (1..m) /\ \A k \in 1..m : transactions[k] \in Txs
  BY <1>1
<1>4. /\ from \in I \/ (I = {} /\ from = 0)
      /\ \A k \in 1..m : k > from => k \notin I
  <2>1. /\ LastOf(I) \in I \/ (I = {} /\ LastOf(I) = 0)
        /\ \A k \in 1..m : k > LastOf(I) => k \notin I
    <3> HIDE DEF m, I
    <3> QED BY <1>3, LastPosition
  <2> QED BY <1>2, <2>1
<1>5. \A u : u \in Listed <=> \E k \in 1..m : transactions[k] = u
  BY <1>1, ToSetIs DEF Listed
<1>6. \A k \in 1..m : /\ height[transactions[k]] \in Nat /\ height[transactions[k]] <= Unconfirmed /\ Unconfirmed \in Nat
                      /\ (k \in I <=> height[transactions[k]] < Unconfirmed)
  BY <1>1, <1>3, HeightTypes
<1>7. \A j, k \in 1..m : j <= k => height[transactions[j]] <= height[transactions[k]]
  BY <1>1 DEF ListOK, Sorted
<1>8. \A k \in (from + 1)..m : k \in 1..m /\ k > from
  BY <1>3
<1>9. \A k \in 1..m : ~ (k <= from) => k \in (from + 1)..m
  BY <1>3
<1> HIDE DEF m, I
<1>10. \A k \in (from + 1)..m : height[transactions[k]] = Unconfirmed
  BY <1>4, <1>6, <1>8
<1>11. ASSUME NEW k \in 1..m, k <= from PROVE height[transactions[k]] # Unconfirmed
  <2>1. from \in I /\ from \in 1..m
    BY <1>3, <1>4, <1>11
  <2>2. height[transactions[k]] <= height[transactions[from]] /\ height[transactions[from]] < Unconfirmed
    BY <1>6, <1>7, <1>11, <2>1
  <2> QED BY <1>6, <2>1, <2>2
<1>12. \A u \in ToSet(Dependents(t)) : u \in Listed /\ height[u] = Unconfirmed
  BY <1>2, <1>5, <1>8, <1>10
<1>13. ASSUME Dependents(t) = <<>>, NEW u \in Listed, u # t /\ t \in ParentsOf(u) PROVE height[u] # Unconfirmed
  <2>1. PICK k \in 1..m : transactions[k] = u
    BY <1>5
  <2>2. ToSet(Dependents(t)) = {}
    BY <1>13 DEF ToSet
  <2>3. k <= from
    BY <1>2, <1>9, <1>13, <2>1, <2>2 DEF IsDependent
  <2> QED BY <1>11, <2>1, <2>3
<1> QED BY <1>2, <1>12, <1>13

\* A locked section of BRWalletRemoveTransaction.
LEMMA RemoveStepInv ==
    ASSUME VarTypes, EnvTypes, WalletInv, VarTypes', RemoveStep
    PROVE  WalletInv'
<1> DEFINE t == Head(removing)
           dependents == Dependents(t)
<1>1. /\ removing # <<>>
      /\ IF dependents # <<>>
         THEN /\ removing' = dependents \o removing
              /\ UNCHANGED <<transactions, ledger, queue>>
         ELSE /\ removing' = Tail(removing)
              /\ transactions' = RemoveTx(transactions, t)
              /\ ledger' = UpdateBalance(transactions', height', WalletAddrs(chainLen), blockHeight, now)
              /\ TxDeleted(t)
      /\ UNCHANGED <<height, allTx, chainLen, rows>>
  BY DEF RemoveStep, Recompute, dbVars
<1>2. transactions \in Seq(Txs) /\ removing \in Seq(Txs) /\ Listed \subseteq Txs /\ queue \in Seq(Changes)
  BY ToSetIs DEF VarTypes, Listed
<1>3. t \in ToSet(removing) /\ ToSet(Tail(removing)) \subseteq ToSet(removing) /\ ToSet(removing) \subseteq Txs
  BY <1>1, <1>2, SeqElements, ToSetIs
<1>4. t \in Txs /\ height[t] = Unconfirmed
  BY <1>3 DEF WalletInv, RemovingOK
<1>5. dependents \in Seq(Txs) /\ \A u \in ToSet(dependents) : u \in Listed /\ height[u] = Unconfirmed
  BY <1>4, DependentsAre DEF WalletInv
<1> HIDE DEF t, dependents
<1>6. CASE dependents # <<>>
  <2>1. removing' = dependents \o removing /\ UNCHANGED <<transactions, ledger, queue>>
    BY <1>1, <1>6
  <2>2. ToSet(removing') = ToSet(dependents) \cup ToSet(removing)
    <3>1. ToSet(dependents \o removing) = ToSet(dependents) \cup ToSet(removing)
      BY <1>2, <1>5, SeqElements
    <3> QED BY <2>1, <3>1
  <2>3. RemovingOK'
    BY <1>1, <1>5, <2>2 DEF WalletInv, RemovingOK
  <2>4. QueueOK'
    BY <1>1, <2>1, QueueSame DEF WalletInv, Listed
  <2> QED BY <1>1, <2>1, <2>3, <2>4 DEF WalletInv, ListOK, LedgerOK, Listed
<1>7. CASE dependents = <<>>
  <2>1. /\ removing' = Tail(removing) /\ transactions' = RemoveTx(transactions, t)
        /\ ledger' = UpdateBalance(transactions', height', WalletAddrs(chainLen), blockHeight, now) /\ TxDeleted(t)
    BY <1>1, <1>7
  <2>2. /\ IsInjective(transactions') /\ Sorted(transactions', height') /\ Listed' = Listed \ {t}
    <3> DEFINE l == RemoveTx(transactions, t)
    <3>1. /\ ToSet(l) \subseteq ToSet(transactions) /\ ToSet(transactions) \subseteq ToSet(l) \cup {t}
          /\ IsInjective(transactions) => IsInjective(l) /\ t \notin ToSet(l)
          /\ \A hts : Sorted(transactions, hts) => Sorted(l, hts)
      BY <1>2, RemoveKeeps
    <3>2. transactions' = l
      BY <2>1
    <3> HIDE DEF l
    <3> QED BY <1>1, <3>1, <3>2 DEF WalletInv, ListOK, Listed
  <2>3. ListOK'
    BY <1>1, <2>2 DEF WalletInv, ListOK
  <2>4. QueueOK'
    BY <1>1, <1>2, <1>4, <2>1, <2>2, QueueListed DEF WalletInv
  <2>5. RemovingOK'
    BY <1>1, <1>3, <2>1 DEF WalletInv, RemovingOK
  <2>6. LedgerOK'
    BY <2>1, <2>3, RecomputeOK
  <2> QED BY <2>3, <2>4, <2>5, <2>6 DEF WalletInv
<1> QED BY <1>6, <1>7

\* the wallet as loaded from rows that are all associated with it
Loaded ==
    /\ RowsOK(rows) /\ RowsRecognized(rows)
    /\ IsInjective(transactions) /\ Sorted(transactions, height)
    /\ Listed = DOMAIN rows /\ allTx = DOMAIN rows /\ chainLen = LoadedLen(rows) /\ queue = <<>>
    /\ \A t \in Txs : height[t] = IF t \in DOMAIN rows THEN rows[t].height ELSE Unconfirmed

\* Its list is in order, and no row is to come.
LEMMA LoadedOK == Loaded => ListOK /\ QueueOK
<1> SUFFICES ASSUME RowsOK(rows), RowsRecognized(rows), IsInjective(transactions), Sorted(transactions, height),
                    Listed = DOMAIN rows, allTx = DOMAIN rows, chainLen = LoadedLen(rows), queue = <<>>,
                    \A t \in Txs : height[t] = IF t \in DOMAIN rows THEN rows[t].height ELSE Unconfirmed
             PROVE  ListOK /\ QueueOK
  BY DEF Loaded
<1>1. ListOK
  BY DEF ListOK, RowsRecognized, MatchesMasterPubKey, RowsOK
<1>2. QueueOK
  <2>1. \A t : (RowComes(t) <=> t \in DOMAIN rows) /\ (RowGoes(t) <=> t \notin DOMAIN rows)
    <3> TAKE t
    <3> DEFINE has == t \in DOMAIN rows
               hasNot == t \notin DOMAIN rows
    <3>1. (RowComes(t) <=> Comes(<<>>, has, Adds(t), Deletes(t))) /\ (RowGoes(t) <=> Comes(<<>>, hasNot, Deletes(t), Adds(t)))
      BY DEF RowComes, RowGoes
    <3>2. (Comes(<<>>, has, Adds(t), Deletes(t)) <=> has) /\ (Comes(<<>>, hasNot, Deletes(t), Adds(t)) <=> hasNot)
      <4> HIDE DEF has, hasNot
      <4> QED BY ComesEmpty
    <3> QED BY <3>1, <3>2
  <2>2. ASSUME NEW t \in Txs PROVE HeightComes(t)
    <3> DEFINE is == t \in DOMAIN rows => rows[t].height = height[t]
               good == Adds(t) \cup UpdatesTo(t, height[t])
               bad == UpdatesOther(t, height[t])
    <3>1. is
      OBVIOUS
    <3>2. HeightComes(t) <=> Comes(<<>>, is, good, bad)
      BY DEF HeightComes
    <3> HIDE DEF is, good, bad
    <3> QED BY <3>1, <3>2, ComesEmpty
  <2> QED BY <2>1, <2>2 DEF QueueOK
<1> QED BY <1>1, <1>2

\* BRWalletNew, when every row is associated with the wallet.
LEMMA RestartInv ==
    ASSUME VarTypes, EnvTypes, Restart, RowsRecognized(rows)
    PROVE  WalletInv'
<1>1. /\ VarTypes' /\ EnvTypes' /\ IsInjective(transactions') /\ Sorted(transactions', height')
      /\ DOMAIN rows' = DOMAIN rows /\ ToSet(transactions') = DOMAIN rows /\ allTx' = DOMAIN rows
      /\ \A t \in DOMAIN rows : height'[t] = rows'[t].height
      /\ \A t \in Txs \ DOMAIN rows : height'[t] = Unconfirmed
      /\ ledger' = UpdateBalance(transactions', height', WalletAddrs(chainLen'), 0, now)
      /\ chainLen' = LoadedLen(rows')
  BY RestartLoads
<1>2. queue' = <<>> /\ removing' = <<>>
  BY DEF Restart
<1>3. LoadedLen(rows') = LoadedLen(rows) /\ RowsOK(rows)' /\ Listed' = DOMAIN rows'
  BY <1>1 DEF LoadedLen, VarTypes, Listed
<1>4. RowsRecognized(rows)'
  BY <1>1, <1>3 DEF RowsRecognized, MatchesMasterPubKey
<1>5. ListOK' /\ QueueOK'
  <2>1. Loaded'
    BY <1>1, <1>2, <1>3, <1>4 DEF Loaded
  <2> QED BY <2>1, LoadedOK, PTL
<1>6. RemovingOK'
  BY <1>2 DEF RemovingOK, ToSet
<1>7. LedgerOK'
  <2> DEFINE addrs == WalletAddrs(chainLen')
  <2> HIDE DEF addrs
  <2>1. ledger' = UpdateBalance(transactions', height', addrs, 0, now)
    BY <1>1 DEF addrs
  <2> QED BY <1>1, <1>5, <2>1, RecomputeOK
<1> QED BY <1>5, <1>6, <1>7 DEF WalletInv

\* The wallet starts as loaded from no rows.
LEMMA InitWalletInv == Init => WalletInv
<1> SUFFICES ASSUME Init PROVE WalletInv
  OBVIOUS
<1>1. Listed = {} /\ ToSet(removing) = {} /\ DOMAIN rows = {}
  BY DEF Init, Listed, ToSet
<1>2. LoadedLen(rows) = FirstLen
  <2>1. UNION {AddrsOf(t) : t \in {}} = {}
    OBVIOUS
  <2> QED BY <1>1, <2>1 DEF LoadedLen, FirstLen
<1>3. IsInjective(transactions) /\ Sorted(transactions, height)
  BY DEF Init, IsInjective, Sorted
<1>4. Loaded
  BY <1>1, <1>2, <1>3 DEF Init, Loaded, RowsOK, RowsRecognized
<1>5. RemovingOK
  BY <1>1 DEF RemovingOK
<1>6. LedgerOK
  <2>1. {} \in SUBSET Coins
    OBVIOUS
  <2>2. Total({}) = 0
    BY <2>1, TotalWithout
  <2> QED BY <1>1, <2>2, EmptyLedgerIs DEF Init, LedgerOK, Sums, Valid
<1> QED BY <1>4, <1>5, <1>6, LoadedOK DEF WalletInv

\* A session starts with the wallet as loaded.
LEMMA InitSessionWalletInv == InitSession => WalletInv
<1> SUFFICES ASSUME InitSession PROVE WalletInv
  OBVIOUS
<1>1. /\ VarTypes /\ EnvTypes /\ RowsAgree(rows, Chain)
      /\ IsInjective(transactions) /\ Sorted(transactions, height)
      /\ Listed = DOMAIN rows /\ allTx = DOMAIN rows /\ chainLen = LoadedLen(rows)
      /\ \A t \in Txs : height[t] = IF t \in DOMAIN rows THEN rows[t].height ELSE Unconfirmed
      /\ ledger = UpdateBalance(transactions, height, WalletAddrs(chainLen), 0, now)
  BY SessionLoads
<1>2. queue = <<>> /\ removing = <<>>
  BY DEF InitSession
<1>3. Loaded
  BY <1>1, <1>2 DEF Loaded, VarTypes, RowsAgree
<1>4. RemovingOK
  BY <1>2 DEF RemovingOK, ToSet
<1>5. LedgerOK
  <2>1. transactions \in Seq(Txs) /\ height \in HeightMaps
    BY <1>1 DEF VarTypes
  <2> DEFINE addrs == WalletAddrs(chainLen)
             l == UpdateBalance(transactions, height, addrs, 0, now)
  <2>2. Sums(l) /\ Valid(l, ToSet(transactions), height)
    <3> HIDE DEF addrs
    <3> QED BY <1>1, <2>1, UpdateAdds
  <2> HIDE DEF l
  <2>3. ledger = l
    BY <1>1 DEF l
  <2> QED BY <2>2, <2>3 DEF LedgerOK, Listed
<1> QED BY <1>3, <1>4, <1>5, LoadedOK DEF WalletInv

\* Generating addresses only adds to what belongs to the wallet.
LEMMA GenerateInv ==
    ASSUME VarTypes, LedgerFits, WalletInv, GenerateAddrs
    PROVE  WalletInv'
<1>1. UNCHANGED <<height, transactions, allTx, ledger, removing, queue, rows>>
  BY DEF GenerateAddrs, dbVars
<1>2. chainLen \in [Chains -> Nat] /\ chainLen' \in [Chains -> Nat] /\ \A c \in Chains : chainLen'[c] >= chainLen[c]
  BY GenerateGrows DEF VarTypes
<1> DEFINE W == WalletAddrs(chainLen)
           more == chainLen'
           V == WalletAddrs(more)
<1>3. W \subseteq V
  <2>1. more \in [Chains -> Nat] /\ \A c \in Chains : more[c] >= chainLen[c]
    BY <1>2
  <2> HIDE DEF more
  <2> QED BY <1>2, <2>1, MoreAddrs
<1>4. ASSUME NEW t, t \in Listed \/ (t \in Txs /\ height[t] # Unconfirmed) PROVE t \in allTx /\ ContainsTx(t, allTx, V)
  <2>1. t \in allTx /\ ContainsTx(t, allTx, W)
    BY <1>4 DEF WalletInv, ListOK
  <2> HIDE DEF W, V
  <2> QED BY <1>3, <2>1, ContainsMore
<1>5. ListOK'
  BY <1>1, <1>4 DEF WalletInv, ListOK, Listed
<1>6. QueueOK'
  BY <1>1, QueueSame DEF WalletInv, Listed
<1> QED BY <1>1, <1>5, <1>6 DEF WalletInv, RemovingOK, LedgerOK, Listed

\* What changes neither the list nor the rows to come.
LEMMA WalletInvStill ==
    ASSUME WalletInv, QueueOK', RemovingOK', UNCHANGED <<height, transactions, allTx, chainLen, ledger>>
    PROVE  WalletInv'
BY DEF WalletInv, ListOK, LedgerOK, Listed

\* Every step of a session keeps the second invariant.
LEMMA RunningInv ==
    ASSUME VarTypes, EnvTypes, LedgerFits, WalletInv, VarTypes', EnvTypes', LedgerFits', Running
    PROVE  WalletInv'
<1>1. ASSUME NEW t \in Txs, NEW ts \in {0, 1}, RegisterTransaction(t, ts) PROVE WalletInv'
  BY <1>1, RegisterWalletInv
<1>2. ASSUME NEW block \in Blocks, BlockConfirms(block) PROVE WalletInv'
  BY <1>2, BlockInv
<1>3. ASSUME NEW t \in Txs, NEW ts \in {0, 1}, RelayCountChanges(t, ts) PROVE WalletInv'
  BY <1>3, RelayInv
<1>4. ASSUME NEW h \in 0..MaxHeight, SetTxUnconfirmedAfter(h) PROVE WalletInv'
  BY <1>4, UnconfirmInv
<1>5. ASSUME NEW t \in Txs, RemoveTransaction(t) PROVE WalletInv'
  <2>1. /\ height[t] = Unconfirmed /\ removing' = <<t>>
        /\ UNCHANGED <<height, transactions, allTx, chainLen, ledger, queue, rows>>
    BY <1>5 DEF RemoveTransaction, dbVars
  <2>2. ToSet(removing') = {t}
    BY <2>1 DEF ToSet
  <2>3. RemovingOK'
    BY <2>1, <2>2 DEF RemovingOK
  <2>4. QueueOK'
    BY <2>1, QueueSame DEF WalletInv, Listed
  <2> QED BY <2>1, <2>3, <2>4, WalletInvStill
<1>6. CASE RemoveStep
  BY <1>6, RemoveStepInv
<1>7. CASE GenerateAddrs
  BY <1>7, GenerateInv
<1>8. CASE SaveBlocks
  <2>1. queue' = Enqueue(queue, SavedBlocks(Chain)) /\ UNCHANGED <<height, transactions, allTx, chainLen, ledger, removing, rows>>
    BY <1>8 DEF SaveBlocks, walletVars, dbVars
  <2>2. Chain \in ChainSet /\ queue \in Seq(Changes)
    BY DEF EnvTypes, VarTypes, Chain, ChainSet
  <2>3. QueueOK'
    BY <2>1, <2>2, QueueBlocks DEF WalletInv, Listed
  <2>4. RemovingOK'
    BY <2>1 DEF WalletInv, RemovingOK
  <2> QED BY <2>1, <2>3, <2>4, WalletInvStill
<1>9. CASE WriteAdded \/ WriteUpdated \/ WriteDeleted \/ WriteBlocks
  <2>1. UNCHANGED <<height, transactions, allTx, chainLen, ledger, removing>>
    BY <1>9 DEF WriteAdded, WriteUpdated, WriteDeleted, WriteBlocks, Write, walletVars
  <2>2. QueueOK'
    BY <1>9, QueueWritten DEF WalletInv
  <2>3. RemovingOK'
    BY <2>1 DEF WalletInv, RemovingOK
  <2> QED BY <2>1, <2>2, <2>3, WalletInvStill
<1>10. CASE Tick
  <2>1. UNCHANGED <<height, transactions, allTx, chainLen, ledger, removing, queue, rows>>
    BY <1>10 DEF Tick, walletVars, dbVars
  <2>2. QueueOK' /\ RemovingOK'
    BY <2>1, QueueSame DEF WalletInv, RemovingOK, Listed
  <2> QED BY <2>1, <2>2, WalletInvStill
<1> QED BY <1>1, <1>2, <1>3, <1>4, <1>5, <1>6, <1>7, <1>8, <1>9, <1>10 DEF Running

\* Every step keeps it, a restart when it recognises the rows.
LEMMA NextWalletInv == Inv /\ WalletInv /\ [NextRecognized]_vars /\ Inv' => WalletInv'
<1> SUFFICES ASSUME VarTypes, EnvTypes, LedgerFits, WalletInv, [NextRecognized]_vars, VarTypes', EnvTypes', LedgerFits'
             PROVE  WalletInv'
  BY InvIs, PTL
<1>1. CASE Running
  BY <1>1, RunningInv
<1>2. CASE Rescanning \/ UNCHANGED vars
  <2>1. UNCHANGED <<height, transactions, allTx, chainLen, ledger, removing, queue, rows>>
    BY <1>2 DEF Rescanning, Rescan, vars, walletVars, dbVars
  <2>2. QueueOK' /\ RemovingOK'
    BY <2>1, QueueSame DEF WalletInv, RemovingOK, Listed
  <2> QED BY <2>1, <2>2, WalletInvStill
<1>3. CASE Restart /\ RowsRecognized(rows)
  BY <1>3, RestartInv
<1> QED BY <1>1, <1>2, <1>3 DEF NextRecognized

\* Both invariants hold while restarts recognise the rows.
THEOREM WalletInvAlways == SpecRecognized => [](Inv /\ WalletInv)
<1>1. [NextRecognized]_vars => [Next]_vars
  BY DEF NextRecognized, Next
<1>2. Inv /\ [NextRecognized]_vars => Inv'
  BY <1>1, NextInv
<1> QED BY <1>2, InitInv, InitWalletInv, NextWalletInv, PTL DEF SpecRecognized

\* wallet->transactions is sorted by block height through registrations, blocks that confirm any of it,
\* reorganisations, removals, rescans and loading.
THEOREM SortedCorrect == SpecRecognized => []SortedByHeight
<1>1. WalletInv => SortedByHeight
  BY DEF WalletInv, ListOK, Sorted, SortedByHeight
<1> QED BY <1>1, WalletInvAlways, PTL

\* No transaction that BRWalletUpdateTransactions frees is still listed or has an output in the utxo list, and none
\* is listed twice.
THEOREM NoDanglingCorrect == SpecRecognized => []NoDanglingTx
<1>1. Inv /\ WalletInv => NoDanglingTx
  BY DEF Inv, LedgerFits, Fits, WalletInv, ListOK, NoDanglingTx
<1> QED BY <1>1, WalletInvAlways, PTL

\* Whatever has been queued, written or lost with a stopped process: once the queue has been worked off, the
\* database has the rows of the list, with their heights.
THEOREM SavedMatchesCorrect == SpecRecognized => []SavedMatchesListed
<1>1. Inv /\ WalletInv => SavedMatchesListed
  <2> SUFFICES ASSUME VarTypes, QueueOK, queue = <<>>
               PROVE  DOMAIN rows = Listed /\ \A t \in Listed : rows[t].height = height[t]
    BY InvIs DEF WalletInv, SavedMatchesListed
  <2>1. Listed \subseteq Txs /\ DOMAIN rows \subseteq Txs
    BY ToSetIs DEF VarTypes, RowsOK, Listed
  <2>2. ASSUME NEW t \in Txs PROVE t \in Listed <=> t \in DOMAIN rows
    <3> DEFINE has == t \in DOMAIN rows
               hasNot == t \notin DOMAIN rows
    <3>1. (t \in Listed => Comes(<<>>, has, Adds(t), Deletes(t))) /\ (t \notin Listed => Comes(<<>>, hasNot, Deletes(t), Adds(t)))
      BY DEF QueueOK, RowComes, RowGoes
    <3>2. (Comes(<<>>, has, Adds(t), Deletes(t)) <=> has) /\ (Comes(<<>>, hasNot, Deletes(t), Adds(t)) <=> hasNot)
      <4> HIDE DEF has, hasNot
      <4> QED BY ComesEmpty
    <3> QED BY <3>1, <3>2
  <2>3. ASSUME NEW t \in Listed PROVE rows[t].height = height[t]
    <3> DEFINE is == t \in DOMAIN rows => rows[t].height = height[t]
               good == Adds(t) \cup UpdatesTo(t, height[t])
               bad == UpdatesOther(t, height[t])
    <3>1. Comes(<<>>, is, good, bad)
      BY <2>1 DEF QueueOK, HeightComes
    <3>2. is
      <4> HIDE DEF is, good, bad
      <4> QED BY <3>1, ComesEmpty
    <3> QED BY <2>1, <2>2, <3>2
  <2> QED BY <2>1, <2>2, <2>3
<1> QED BY <1>1, WalletInvAlways, PTL

\* The balance is the value of the utxos, what was received less what was sent, and balanceHist is aligned.
THEOREM LedgerAddsCorrect == SpecRecognized => []LedgerAdds
<1>1. Inv /\ WalletInv => LedgerAdds
  BY DEF Inv, LedgerFits, Fits, WalletInv, LedgerOK, Sums, LedgerAdds
<1> QED BY <1>1, WalletInvAlways, PTL

\* An unconfirmed transaction is never valid beside another valid one that spends the same output, also when
\* rows keep confirmations of an abandoned branch.
THEOREM ConflictsAreConfirmedCorrect == SpecRecognized => []ConflictsAreConfirmed
<1>1. WalletInv => ConflictsAreConfirmed
  BY DEF WalletInv, LedgerOK, Valid, Apart, Conflicting, ConflictsAreConfirmed
<1> QED BY <1>1, WalletInvAlways, PTL

(***************************************************************************)
(* Removing a transaction.                                                 *)
(***************************************************************************)
\* The step that empties the stack of removals takes the transaction the removal was called for off the list, and
\* only confirmed ones there still spend its outputs.
LEMMA LastRemoval ==
    ASSUME Inv, WalletInv, RemoveStep, removing' = <<>>
    PROVE  /\ Last(removing) \in ToSet(removing) /\ Listed' \subseteq Listed /\ Last(removing) \notin Listed'
           /\ \A u \in Listed' : Last(removing) \in ParentsOf(u) => height[u] # Unconfirmed
<1> DEFINE t == Head(removing)
           dependents == Dependents(t)
           l == RemoveTx(transactions, t)
<1>0. VarTypes /\ EnvTypes
  BY InvIs
<1>1. /\ removing # <<>>
      /\ IF dependents # <<>> THEN removing' = dependents \o removing
         ELSE removing' = Tail(removing) /\ transactions' = l
  BY DEF RemoveStep
<1>2. transactions \in Seq(Txs) /\ removing \in Seq(Txs)
  BY <1>0 DEF VarTypes
<1>3. t \in ToSet(removing) /\ ToSet(removing) \subseteq Txs
  BY <1>1, <1>2, SeqElements, ToSetIs
<1>4. t \in Txs /\ height[t] = Unconfirmed
  BY <1>3 DEF WalletInv, RemovingOK
<1>5. dependents \in Seq(Txs) /\ (dependents = <<>> => \A u \in Listed : u # t /\ t \in ParentsOf(u) => height[u] # Unconfirmed)
  BY <1>0, <1>4, DependentsAre DEF WalletInv
<1>6. ToSet(l) \subseteq ToSet(transactions) /\ t \notin ToSet(l)
  BY <1>2, RemoveKeeps DEF WalletInv, ListOK
<1> HIDE DEF dependents, l
<1>7. dependents = <<>>
  <2>1. Len(dependents \o removing) = Len(dependents) + Len(removing) /\ Len(dependents) \in Nat /\ Len(removing) \in Nat
    BY <1>2, <1>5
  <2>2. Len(removing) # 0
    BY <1>1, <1>2
  <2>3. dependents \o removing # <<>>
    BY <2>1, <2>2
  <2> QED BY <1>1, <2>3
<1>8. Tail(removing) = <<>> /\ transactions' = l
  BY <1>1, <1>7
<1>9. Last(removing) = t
  <2>1. Len(Tail(removing)) = Len(removing) - 1 /\ Len(removing) \in Nat
    BY <1>1, <1>2
  <2>2. Len(Tail(removing)) = 0
    <3>1. Len(<<>>) = 0
      OBVIOUS
    <3> QED BY <1>8, <3>1, Zenon
  <2>3. Len(removing) = 1
    BY <2>1, <2>2
  <2> QED BY <1>1, <1>2, <2>3 DEF Last
<1>10. ASSUME NEW u \in ToSet(l), t \in ParentsOf(u) PROVE height[u] # Unconfirmed
  <2>1. u \in Listed /\ u # t
    BY <1>6, <1>10 DEF Listed
  <2> QED BY <1>5, <1>7, <1>10, <2>1
<1> HIDE DEF t
<1> QED BY <1>3, <1>6, <1>8, <1>9, <1>10 DEF Listed

\* When BRWalletRemoveTransaction returns, the transaction and all unconfirmed ones that depend on it are off the
\* list, although the lock is released between the removals.
THEOREM UnconfirmedDependentsRemovedCorrect == SpecRecognized => UnconfirmedDependentsRemoved
<1>1. Inv /\ WalletInv /\ [NextRecognized]_vars =>
        [RemoveStep /\ removing' = <<>> =>
           LET t == Last(removing) IN
           /\ t \notin ToSet(transactions')
           /\ \A u \in ToSet(transactions') : t \in ParentsOf(u) => height[u] # Unconfirmed]_vars
  BY LastRemoval DEF Listed
<1> QED BY <1>1, WalletInvAlways, PTL DEF SpecRecognized, UnconfirmedDependentsRemoved

(***************************************************************************)
(* The third invariant, for one session: listed transactions follow the    *)
(* chain.                                                                  *)
(***************************************************************************)
ChainHeight(t) == IF mined[t] = 0 THEN Unconfirmed ELSE mined[t]

\* the chain holds no conflict, and parents not above their children
ChainOK ==
    /\ \A t, u \in Txs : mined[t] # 0 /\ mined[u] # 0 => Apart(t, u)
    /\ \A t \in Txs : mined[t] # 0 => \A p \in ParentsOf(t) \cap Txs : mined[p] # 0 /\ mined[p] <= mined[t]
    /\ \A t \in Txs : mined[t] <= tip

Follows == \A t \in Listed : height[t] = ChainHeight(t)

RemovingMined == \A t \in ToSet(removing) : mined[t] = 0

SessionInv == ChainOK /\ Follows /\ RemovingMined

\* A listed transaction is unconfirmed just when no block of the chain holds it.
LEMMA MinedIs ==
    ASSUME VarTypes, EnvTypes, Follows, NEW t \in Listed
    PROVE  t \in Txs /\ (height[t] = Unconfirmed <=> mined[t] = 0) /\ (mined[t] # 0 => height[t] = mined[t])
<1>1. t \in Txs
  BY ToSetIs DEF VarTypes, Listed
<1>2. mined[t] \in 0..MaxHeight /\ MaxHeight \in Nat /\ Unconfirmed \in Nat /\ MaxHeight < Unconfirmed
  BY <1>1, HeightTypes DEF EnvTypes
<1>3. mined[t] # Unconfirmed
  BY <1>2
<1> QED BY <1>1, <1>3 DEF Follows, ChainHeight

\* The chain after a block that can be mined.
LEMMA BlockChain ==
    ASSUME EnvTypes, ChainOK, NEW block \in Blocks, BlockConfirms(block)
    PROVE  /\ ChainOK'
           /\ \A t \in ToSet(block) : mined[t] = 0
           /\ \A t \in Txs : mined'[t] = IF t \in ToSet(block) THEN tip + 1 ELSE mined[t]
<1> DEFINE B == ToSet(block)
           chain == {t \in Txs : mined[t] # 0}
           before(i) == chain \cup {block[j] : j \in 1..(i - 1)}
<1>1. block \in Seq(Txs) /\ B \subseteq Txs /\ \A x : x \in B <=> \E i \in 1..Len(block) : block[i] = x
  BY BlockTypes, ToSetIs
<1>2. ASSUME NEW i \in 1..Len(block)
      PROVE  /\ mined[block[i]] = 0
             /\ ParentsOf(block[i]) \cap Txs \subseteq before(i)
             /\ \A t \in before(i) : Inputs[t] \cap Inputs[block[i]] = {}
  BY <1>1 DEF BlockConfirms, CanBeMined
<1>3. tip' = tip + 1 /\ mined' = [t \in Txs |-> IF t \in B THEN tip + 1 ELSE mined[t]]
  BY DEF BlockConfirms
<1>4. tip \in Nat /\ \A t \in Txs : mined[t] \in Nat /\ mined[t] <= tip
  BY HeightTypes DEF EnvTypes, ChainOK
<1>5. \A t \in B : mined[t] = 0
  BY <1>1, <1>2
<1>6. \A i \in 1..Len(block) : before(i) \subseteq chain \cup B
  BY <1>1
<1> HIDE DEF B
<1>7. \A t \in Txs : mined'[t] = IF t \in B THEN tip + 1 ELSE mined[t]
  BY <1>3
<1>8. \A t \in Txs : (mined'[t] # 0 <=> t \in chain \cup B) /\ mined'[t] <= tip + 1
  BY <1>4, <1>7
<1>9. ASSUME NEW t \in chain, NEW u \in B PROVE Apart(t, u) /\ Apart(u, t)
  <2>1. PICK i \in 1..Len(block) : block[i] = u
    BY <1>1
  <2> QED BY <1>2, <2>1 DEF Apart
<1>10. ASSUME NEW t \in B, NEW u \in B PROVE Apart(t, u)
  <2>1. PICK i \in 1..Len(block) : block[i] = t
    BY <1>1
  <2>2. PICK j \in 1..Len(block) : block[j] = u
    BY <1>1
  <2>3. Len(block) \in Nat
    BY <1>1
  <2>4. CASE i < j
    <3>1. i \in 1..(j - 1)
      BY <2>3, <2>4
    <3>2. t \in before(j)
      BY <2>1, <3>1
    <3> HIDE DEF before
    <3> QED BY <1>2, <2>2, <3>2 DEF Apart
  <2>5. CASE j < i
    <3>1. j \in 1..(i - 1)
      BY <2>3, <2>5
    <3>2. u \in before(i)
      BY <2>2, <3>1
    <3> HIDE DEF before
    <3> QED BY <1>2, <2>1, <3>2 DEF Apart
  <2>6. CASE i = j
    BY <2>1, <2>2, <2>6 DEF Apart
  <2> QED BY <2>3, <2>4, <2>5, <2>6
<1>11. \A t, u \in Txs : mined'[t] # 0 /\ mined'[u] # 0 => Apart(t, u)
  <2>1. \A t, u \in chain : Apart(t, u)
    BY DEF ChainOK
  <2> HIDE DEF chain
  <2> QED BY <1>8, <1>9, <1>10, <2>1
<1>12. ASSUME NEW t \in Txs, mined'[t] # 0, NEW p \in ParentsOf(t) \cap Txs
       PROVE  mined'[p] # 0 /\ mined'[p] <= mined'[t]
  <2>1. CASE t \in B
    <3>1. PICK i \in 1..Len(block) : block[i] = t
      BY <1>1, <2>1
    <3>2. p \in chain \cup B
      BY <1>2, <1>6, <3>1
    <3>3. mined'[t] = tip + 1
      BY <1>7, <2>1
    <3> HIDE DEF chain
    <3> QED BY <1>8, <3>2, <3>3
  <2>2. CASE t \notin B
    <3>1. mined'[t] = mined[t] /\ mined[t] # 0
      BY <1>7, <1>12, <2>2
    <3>2. mined[p] # 0 /\ mined[p] <= mined[t]
      BY <3>1 DEF ChainOK
    <3>3. p \notin B
      BY <1>5, <3>2
    <3> QED BY <1>7, <3>1, <3>2, <3>3
  <2> QED BY <2>1, <2>2
<1>13. ChainOK'
  BY <1>3, <1>8, <1>11, <1>12 DEF ChainOK
<1> QED BY <1>5, <1>7, <1>13 DEF B


\* A new transaction of the wallet is unconfirmed and in no block.
LEMMA RegisterFollows ==
    ASSUME VarTypes, ListOK, SessionInv, NEW t \in Txs, NEW ts \in {0, 1}, RegisterTransaction(t, ts)
    PROVE  SessionInv'
<1>1. mined[t] = 0 /\ UNCHANGED <<height, removing, tip, mined>>
  BY DEF RegisterTransaction, RegisterWalletTx, RegisterOtherTx, RegisterKnownTx, vars, walletVars, chainVars
<1>2. Listed' = Listed \/ (t \notin allTx /\ Listed' = Listed \cup {t})
  <2>1. CASE RegisterWalletTx(t, ts)
    <3> DEFINE all == allTx'
               l == InsertTx(transactions, t, height, all, chainLen)
    <3>1. t \notin allTx /\ transactions' = l /\ all = allTx \cup {t}
      BY <2>1 DEF RegisterWalletTx
    <3>2. all \in SUBSET Txs /\ transactions \in Seq(Txs) /\ height \in HeightMaps
      BY <3>1 DEF VarTypes
    <3> HIDE DEF all
    <3>3. ToSet(l) = ToSet(transactions) \cup {t}
      BY <3>2, InsertKeeps
    <3> QED BY <3>1, <3>3 DEF Listed
  <2>2. CASE RegisterOtherTx(t, ts) \/ RegisterKnownTx(t)
    BY <2>2 DEF RegisterOtherTx, RegisterKnownTx, vars, walletVars, Listed
  <2> QED BY <2>1, <2>2 DEF RegisterTransaction
<1>3. t \notin allTx => height[t] = Unconfirmed
  BY DEF ListOK
<1>4. Follows'
  BY <1>1, <1>2, <1>3 DEF SessionInv, Follows, ChainHeight
<1> QED BY <1>1, <1>4 DEF SessionInv, ChainOK, RemovingMined

\* A block: the listed transactions it holds get its height.
LEMMA BlockFollows ==
    ASSUME VarTypes, EnvTypes, ListOK, SessionInv, NEW block \in Blocks, BlockConfirms(block)
    PROVE  SessionInv'
<1>1. /\ ChainOK' /\ \A t \in ToSet(block) : mined[t] = 0
      /\ \A t \in Txs : mined'[t] = IF t \in ToSet(block) THEN tip + 1 ELSE mined[t]
  BY BlockChain DEF SessionInv
<1>2. /\ block \in Seq(Txs) /\ removing = <<>> /\ tip + 1 \in Heights /\ tip + 1 # 0 /\ Listed \subseteq Txs
  <2>1. tip \in Nat /\ tip < MaxHeight /\ MaxHeight \in Nat
    BY HeightTypes DEF EnvTypes, BlockConfirms
  <2>2. Listed \subseteq Txs
    BY ToSetIs DEF VarTypes, Listed
  <2> QED BY <2>1, <2>2, BlockTypes DEF Heights, BlockConfirms, Ready
<1>3. \A t \in Listed : height[t] = ChainHeight(t)
  BY DEF SessionInv, Follows
<1>4. CASE block # <<>>
  <2>1. UpdateTransactions(block, tip + 1, 1) /\ 1 \in {0, 1}
    BY <1>4 DEF BlockConfirms
  <2>2. PICK hashes \in SUBSET Txs : Effect(hashes, ToSet(block), tip + 1, 1)
    BY <1>2, <2>1, UpdateEffect
  <2>3. Listed' = Listed /\ removing' = removing
    BY <2>2 DEF Effect, Listed
  <2>4. ASSUME NEW t \in Listed PROVE height'[t] = ChainHeight(t)'
    <3>1. CASE t \in ToSet(block)
      <4>1. height'[t] = tip + 1 /\ mined'[t] = tip + 1
        BY <1>1, <1>2, <2>2, <3>1 DEF Effect
      <4> QED BY <1>2, <4>1 DEF ChainHeight
    <3>2. CASE t \notin ToSet(block)
      <4>1. height'[t] = height[t] /\ mined'[t] = mined[t]
        BY <1>1, <1>2, <2>2, <3>2 DEF Effect
      <4> QED BY <1>3, <4>1 DEF ChainHeight
    <3> QED BY <3>1, <3>2
  <2>5. Follows' /\ RemovingMined'
    BY <1>2, <2>3, <2>4 DEF Follows, RemovingMined, ToSet
  <2> QED BY <1>1, <2>5 DEF SessionInv
<1>5. CASE block = <<>>
  <2>1. UNCHANGED <<height, transactions, removing>>
    BY <1>5 DEF BlockConfirms, walletVars
  <2>2. \A t \in Txs : mined'[t] = mined[t]
    BY <1>1, <1>5 DEF ToSet
  <2>3. Follows' /\ RemovingMined'
    BY <1>2, <1>3, <2>1, <2>2 DEF Follows, ChainHeight, Listed, RemovingMined, ToSet
  <2> QED BY <1>1, <2>3 DEF SessionInv
<1> QED BY <1>4, <1>5

\* A relay count changes no height.
LEMMA RelayFollows ==
    ASSUME VarTypes, ListOK, SessionInv, NEW t \in Txs, NEW ts \in {0, 1}, RelayCountChanges(t, ts)
    PROVE  SessionInv'
<1>1. /\ UpdateTransactions(<<t>>, Unconfirmed, ts) /\ <<t>> \in Seq(Txs) /\ Unconfirmed \in Heights
      /\ ToSet(<<t>>) = {t} /\ height[t] = Unconfirmed /\ UNCHANGED <<tip, mined>>
  BY DEF RelayCountChanges, Heights, ToSet, chainVars
<1>2. PICK hashes \in SUBSET Txs : Effect(hashes, ToSet(<<t>>), Unconfirmed, ts)
  BY <1>1, UpdateEffect
<1>3. Listed' = Listed /\ removing' = removing /\ \A u \in Txs : height'[u] = height[u]
  BY <1>1, <1>2 DEF Effect, Listed
<1>4. Listed \subseteq Txs
  BY ToSetIs DEF VarTypes, Listed
<1> QED BY <1>1, <1>3, <1>4 DEF SessionInv, ChainOK, Follows, ChainHeight, RemovingMined

\* A reorganisation: what BRWalletSetTxUnconfirmedAfter unconfirms is what the chain loses.
LEMMA UnconfirmFollows ==
    ASSUME VarTypes, EnvTypes, ListOK, SessionInv, NEW h \in 0..MaxHeight, SetTxUnconfirmedAfter(h)
    PROVE  SessionInv'
<1> DEFINE hashes == {transactions[k] : k \in (ConfirmedUpTo(h) + 1)..Len(transactions)}
<1>1. /\ removing = <<>> /\ h < tip /\ tip' = h
      /\ mined' = [t \in Txs |-> IF mined[t] > h THEN 0 ELSE mined[t]]
      /\ height' = [t \in Txs |-> IF t \in hashes THEN Unconfirmed ELSE height[t]]
      /\ UNCHANGED <<transactions, removing>>
  BY DEF SetTxUnconfirmedAfter, Ready, Cut
<1>2. hashes \subseteq Listed /\ \A t \in Listed : t \in hashes <=> height[t] > h
  BY PassedAre
<1> HIDE DEF hashes
<1>3. /\ Listed' = Listed /\ Listed \subseteq Txs
      /\ \A t \in Listed : (height[t] = Unconfirmed <=> mined[t] = 0) /\ (mined[t] # 0 => height[t] = mined[t])
  BY <1>1, MinedIs DEF SessionInv, Listed
<1>4. h \in Nat /\ tip \in Nat /\ h < Unconfirmed /\ Unconfirmed \in Nat /\ \A t \in Txs : mined[t] \in Nat /\ height[t] \in Nat
  <2>1. MaxHeight \in Nat /\ Unconfirmed \in Nat /\ MaxHeight < Unconfirmed
    BY HeightTypes
  <2>2. \A t \in Txs : mined[t] \in Nat
    BY <2>1 DEF EnvTypes
  <2>3. \A t \in Txs : height[t] \in Nat
    BY HeightTypes DEF VarTypes
  <2> QED BY <2>1, <2>2, <2>3 DEF EnvTypes
<1>5. /\ \A t \in Txs : mined'[t] = IF mined[t] > h THEN 0 ELSE mined[t]
      /\ \A t \in Txs : height'[t] = IF t \in hashes THEN Unconfirmed ELSE height[t]
  BY <1>1
<1>6. ChainOK'
  <2>1. \A t \in Txs : mined'[t] # 0 => mined[t] # 0 /\ mined[t] <= h /\ mined'[t] = mined[t]
    BY <1>4, <1>5
  <2>2. \A t, u \in Txs : mined'[t] # 0 /\ mined'[u] # 0 => Apart(t, u)
    BY <2>1 DEF SessionInv, ChainOK
  <2>3. \A t \in Txs : mined'[t] <= h
    BY <1>4, <1>5
  <2>4. ASSUME NEW t \in Txs, mined'[t] # 0, NEW p \in ParentsOf(t) \cap Txs PROVE mined'[p] # 0 /\ mined'[p] <= mined'[t]
    <3>1. mined[t] # 0 /\ mined[t] <= h /\ mined'[t] = mined[t]
      BY <2>1, <2>4
    <3>2. mined[p] # 0 /\ mined[p] <= mined[t]
      BY <3>1 DEF SessionInv, ChainOK
    <3>3. ~ (mined[p] > h)
      BY <1>4, <3>1, <3>2
    <3> QED BY <1>5, <3>1, <3>2, <3>3
  <2> QED BY <1>1, <2>2, <2>3, <2>4 DEF ChainOK
<1>7. Follows'
  <2>1. ASSUME NEW t \in Listed PROVE height'[t] = ChainHeight(t)'
    <3>1. t \in Txs /\ (t \in hashes <=> height[t] > h) /\ (height[t] = Unconfirmed <=> mined[t] = 0) /\ (mined[t] # 0 => height[t] = mined[t])
      BY <1>2, <1>3
    <3>2. height'[t] = IF mined'[t] = 0 THEN Unconfirmed ELSE mined'[t]
      BY <1>4, <1>5, <3>1
    <3> QED BY <3>2 DEF ChainHeight
  <2> QED BY <1>3, <2>1 DEF Follows
<1>8. RemovingMined'
  BY <1>1 DEF RemovingMined, ToSet
<1> QED BY <1>6, <1>7, <1>8 DEF SessionInv

\* A locked section of BRWalletRemoveTransaction finds only transactions that are in no block.
LEMMA RemoveStepFollows ==
    ASSUME VarTypes, EnvTypes, ListOK, RemovingOK, SessionInv, RemoveStep
    PROVE  SessionInv'
<1> DEFINE t == Head(removing)
           dependents == Dependents(t)
<1>1. /\ removing # <<>>
      /\ IF dependents # <<>>
         THEN removing' = dependents \o removing /\ transactions' = transactions
         ELSE removing' = Tail(removing) /\ transactions' = RemoveTx(transactions, t)
      /\ UNCHANGED <<height, tip, mined>>
  BY DEF RemoveStep, chainVars
<1>2. transactions \in Seq(Txs) /\ removing \in Seq(Txs)
  BY DEF VarTypes
<1>3. t \in ToSet(removing) /\ ToSet(Tail(removing)) \subseteq ToSet(removing) /\ ToSet(removing) \subseteq Txs
  BY <1>1, <1>2, SeqElements, ToSetIs
<1>4. dependents \in Seq(Txs) /\ \A u \in ToSet(dependents) : mined[u] = 0
  <2>1. t \in Txs /\ height[t] = Unconfirmed
    BY <1>3 DEF RemovingOK
  <2>2. dependents \in Seq(Txs) /\ \A u \in ToSet(dependents) : u \in Listed /\ height[u] = Unconfirmed
    BY <2>1, DependentsAre
  <2> QED BY <2>2, MinedIs DEF SessionInv
<1> HIDE DEF t, dependents
<1>5. ToSet(removing') \subseteq ToSet(dependents) \cup ToSet(removing)
  <2>1. ToSet(dependents \o removing) = ToSet(dependents) \cup ToSet(removing)
    BY <1>2, <1>4, SeqElements
  <2> QED BY <1>1, <1>3, <2>1
<1>6. Listed' \subseteq Listed
  <2>1. ToSet(RemoveTx(transactions, t)) \subseteq ToSet(transactions)
    BY <1>2, RemoveKeeps
  <2> QED BY <1>1, <2>1 DEF Listed
<1> QED BY <1>1, <1>4, <1>5, <1>6 DEF SessionInv, ChainOK, Follows, ChainHeight, RemovingMined

\* A session starts with rows that agree with the saved blocks.
LEMMA InitSessionFollows == InitSession => SessionInv
<1> SUFFICES ASSUME InitSession PROVE SessionInv
  OBVIOUS
<1>1. /\ EnvTypes /\ RowsAgree(rows, Chain) /\ Listed = DOMAIN rows
      /\ \A t \in Txs : height[t] = IF t \in DOMAIN rows THEN rows[t].height ELSE Unconfirmed
      /\ Listed \subseteq Txs
  <2>1. VarTypes
    BY SessionLoads
  <2> QED BY <2>1, SessionLoads DEF VarTypes, RowsOK
<1>2. IsChain(Chain) /\ Chain.tip = tip /\ Chain.mined = mined /\ removing = <<>>
  BY DEF InitSession, Chain
<1>3. ChainOK
  <2>1. \A t, u \in Txs : mined[t] # 0 /\ mined[u] # 0 => Apart(t, u)
    BY <1>2 DEF IsChain, Apart
  <2>2. ASSUME NEW t \in Txs, mined[t] # 0, NEW p \in ParentsOf(t) \cap Txs PROVE mined[p] # 0 /\ mined[p] <= mined[t]
    <3>1. mined[p] \in 1..mined[t]
      BY <1>2, <2>2 DEF IsChain
    <3>2. mined[t] \in Nat
      BY <1>1, HeightTypes DEF EnvTypes
    <3> QED BY <3>1, <3>2
  <2>3. \A t \in Txs : mined[t] <= tip
    BY <1>2 DEF IsChain
  <2> QED BY <2>1, <2>2, <2>3 DEF ChainOK
<1>4. Follows
  BY <1>1, <1>2 DEF RowsAgree, HeightIn, Follows, ChainHeight
<1>5. RemovingMined
  BY <1>2 DEF RemovingMined, ToSet
<1> QED BY <1>3, <1>4, <1>5 DEF SessionInv

\* Every step of a session keeps it.
LEMMA RunningFollows == Inv /\ WalletInv /\ SessionInv /\ [Running]_vars => SessionInv'
<1> SUFFICES ASSUME VarTypes, EnvTypes, WalletInv, SessionInv, [Running]_vars PROVE SessionInv'
  BY InvIs
<1>0. ListOK /\ RemovingOK
  BY DEF WalletInv
<1>1. ASSUME NEW t \in Txs, NEW ts \in {0, 1}, RegisterTransaction(t, ts) PROVE SessionInv'
  BY <1>0, <1>1, RegisterFollows
<1>2. ASSUME NEW block \in Blocks, BlockConfirms(block) PROVE SessionInv'
  BY <1>0, <1>2, BlockFollows
<1>3. ASSUME NEW t \in Txs, NEW ts \in {0, 1}, RelayCountChanges(t, ts) PROVE SessionInv'
  BY <1>0, <1>3, RelayFollows
<1>4. ASSUME NEW h \in 0..MaxHeight, SetTxUnconfirmedAfter(h) PROVE SessionInv'
  BY <1>0, <1>4, UnconfirmFollows
<1>5. ASSUME NEW t \in Txs, RemoveTransaction(t) PROVE SessionInv'
  <2>1. /\ t \in Listed /\ height[t] = Unconfirmed /\ removing' = <<t>> /\ UNCHANGED <<height, transactions, tip, mined>>
    BY <1>5 DEF RemoveTransaction, chainVars
  <2>2. ToSet(removing') = {t} /\ mined[t] = 0
    BY <2>1, MinedIs DEF SessionInv, ToSet
  <2> QED BY <2>1, <2>2 DEF SessionInv, ChainOK, Follows, ChainHeight, RemovingMined, Listed
<1>6. CASE RemoveStep
  BY <1>0, <1>6, RemoveStepFollows
<1>7. CASE GenerateAddrs \/ SaveBlocks \/ WriteAdded \/ WriteUpdated \/ WriteDeleted \/ WriteBlocks \/ Tick \/ UNCHANGED vars
  <2>1. UNCHANGED <<height, transactions, removing, tip, mined>>
    BY <1>7 DEF GenerateAddrs, SaveBlocks, WriteAdded, WriteUpdated, WriteDeleted, WriteBlocks, Write, Tick, vars, walletVars, chainVars
  <2> QED BY <2>1 DEF SessionInv, ChainOK, Follows, ChainHeight, RemovingMined, Listed
<1> QED BY <1>1, <1>2, <1>3, <1>4, <1>5, <1>6, <1>7 DEF Running

\* All three invariants hold in a session.
THEOREM SessionInvAlways == SpecSession => [](Inv /\ WalletInv /\ SessionInv)
<1>1. [Running]_vars => [Next]_vars /\ [NextRecognized]_vars
  BY DEF NextRecognized, Next
<1>2. Inv /\ [Running]_vars => Inv'
  BY <1>1, NextInv
<1>3. Inv /\ WalletInv /\ [Running]_vars /\ Inv' => WalletInv'
  BY <1>1, NextWalletInv
<1> QED BY <1>2, <1>3, InitSessionInv, InitSessionWalletInv, InitSessionFollows, RunningFollows, PTL DEF SpecSession

\* In such a session, too, the list stays sorted and nothing points to a transaction that has been freed.
THEOREM SessionListCorrect == SpecSession => [](SortedByHeight /\ NoDanglingTx)
<1>1. Inv /\ WalletInv => SortedByHeight /\ NoDanglingTx
  BY DEF Inv, LedgerFits, Fits, WalletInv, ListOK, Sorted, SortedByHeight, NoDanglingTx
<1> QED BY <1>1, SessionInvAlways, PTL

\* In a session that starts with rows that agree with the saved blocks, listed transactions have the heights of
\* their blocks in the chain, or none.
THEOREM HeightsFollowCorrect == SpecSession => []HeightsFollowChain
<1>1. SessionInv => HeightsFollowChain
  BY DEF SessionInv, Follows, ChainHeight, HeightsFollowChain, HeightIn, Chain
<1> QED BY <1>1, SessionInvAlways, PTL

\* In such a session no two valid listed transactions spend the same output.
THEOREM NoConflictCorrect == SpecSession => []NoConflictIsValid
<1>1. Inv /\ WalletInv /\ SessionInv => NoConflictIsValid
  <2> SUFFICES ASSUME Inv, WalletInv, SessionInv, NEW t \in Listed \ ledger.invalidTx, NEW u \in Listed \ ledger.invalidTx
               PROVE  ~ Conflicting(t, u)
    BY DEF NoConflictIsValid
  <2>1. VarTypes /\ EnvTypes
    BY InvIs
  <2>2. /\ t \in Txs /\ (height[t] = Unconfirmed <=> mined[t] = 0)
        /\ u \in Txs /\ (height[u] = Unconfirmed <=> mined[u] = 0)
    BY <2>1, MinedIs DEF SessionInv
  <2>3. (Apart(t, u) \/ height[t] # Unconfirmed) /\ (Apart(u, t) \/ height[u] # Unconfirmed)
    BY DEF WalletInv, LedgerOK, Valid
  <2>4. mined[t] # 0 /\ mined[u] # 0 => Apart(t, u)
    BY <2>2 DEF SessionInv, ChainOK
  <2> QED BY <2>2, <2>3, <2>4 DEF Apart, Conflicting
<1> QED BY <1>1, SessionInvAlways, PTL

\* When BRWalletRemoveTransaction returns in such a session, the transaction and all that depend on it are off the
\* list: a confirmed one would have its parent in the chain.
THEOREM DependentsRemovedCorrect == SpecSession => DependentsRemoved
<1>1. ASSUME Inv, WalletInv, SessionInv, RemoveStep, removing' = <<>>
      PROVE  /\ Last(removing) \notin ToSet(transactions')
             /\ \A u \in ToSet(transactions') : Last(removing) \notin ParentsOf(u)
  <2> DEFINE t == Last(removing)
  <2>1. /\ t \in ToSet(removing) /\ Listed' \subseteq Listed /\ t \notin Listed'
        /\ \A u \in Listed' : t \in ParentsOf(u) => height[u] # Unconfirmed
    BY <1>1, LastRemoval
  <2> HIDE DEF t
  <2>2. VarTypes /\ EnvTypes
    BY <1>1, InvIs
  <2>3. t \in Txs /\ mined[t] = 0
    BY <1>1, <2>1, <2>2, ToSetIs DEF VarTypes, SessionInv, RemovingMined
  <2>4. ASSUME NEW u \in Listed', t \in ParentsOf(u) PROVE FALSE
    <3>1. u \in Listed /\ height[u] # Unconfirmed
      BY <2>1, <2>4
    <3>2. u \in Txs /\ mined[u] # 0
      BY <1>1, <2>2, <3>1, MinedIs DEF SessionInv
    <3> QED BY <1>1, <2>3, <2>4, <3>2 DEF SessionInv, ChainOK
  <2> QED BY <2>1, <2>4 DEF Listed, t
<1>2. Inv /\ WalletInv /\ SessionInv /\ [Running]_vars =>
        [RemoveStep /\ removing' = <<>> =>
           LET t == Last(removing) IN
           t \notin ToSet(transactions') /\ \A u \in ToSet(transactions') : t \notin ParentsOf(u)]_vars
  BY <1>1
<1> QED BY <1>2, SessionInvAlways, PTL DEF SpecSession, DependentsRemoved

(***************************************************************************)
(* Transactions that are safe before they are confirmed.                   *)
(***************************************************************************)
\* LeastClosure, for a rule over the known parents of unconfirmed transactions.
LEMMA UnconfirmedClosure ==
    ASSUME VarTypes, NEW base \in SUBSET Txs
    PROVE  \E A \in SUBSET Txs : \A t \in Txs :
              t \in A <=> height[t] = Unconfirmed /\ (t \in base \/ ParentsOf(t) \cap allTx \cap A # {})
<1> DEFINE first == {t \in base : height[t] = Unconfirmed}
           steps == {t \in Txs : height[t] = Unconfirmed}
           par == [t \in Txs |-> ParentsOf(t) \cap allTx]
<1>1. first \in SUBSET Txs /\ steps \in SUBSET Txs /\ par \in [Txs -> SUBSET Txs]
  BY DEF VarTypes
<1>2. PICK A \in SUBSET Txs : \A t \in Txs : t \in A <=> t \in first \/ (t \in steps /\ par[t] \cap A # {})
  <2> HIDE DEF first, steps, par
  <2>1. \A B, C \in SUBSET Txs, q \in [Txs -> SUBSET Txs] : \E A \in SUBSET Txs :
           \A t \in Txs : t \in A <=> t \in B \/ (t \in C /\ q[t] \cap A # {})
    BY LeastClosure
  <2>2. \A q \in [Txs -> SUBSET Txs] : \E A \in SUBSET Txs :
           \A t \in Txs : t \in A <=> t \in first \/ (t \in steps /\ q[t] \cap A # {})
    BY <1>1, <2>1
  <2> QED BY <1>1, <2>2
<1>3. \A t \in Txs : t \in A <=> height[t] = Unconfirmed /\ (t \in base \/ ParentsOf(t) \cap allTx \cap A # {})
  BY <1>2
<1> QED BY <1>3

\* BRWalletTransactionIsPending finds every unconfirmed transaction that is replaceable or spends a known pending one.
LEMMA PendingIs ==
    ASSUME VarTypes
    PROVE  \A t \in Txs : height[t] = Unconfirmed =>
              /\ t \in Replaceable => TransactionIsPending(t)
              /\ (\E p \in ParentsOf(t) \cap allTx : TransactionIsPending(p)) => TransactionIsPending(t)
<1> DEFINE Early(t) == t \in Replaceable \/ FutureLock(t, blockHeight, now)
           base == {t \in Txs : Early(t)}
           E(f) == [t \in Txs |-> /\ height[t] = Unconfirmed
                                  /\ \/ t \in Replaceable
                                     \/ FutureLock(t, blockHeight, now)
                                     \/ \E p \in ParentsOf(t) \cap allTx : f[p]]
<1>1. PICK A \in SUBSET Txs : \A t \in Txs :
              t \in A <=> height[t] = Unconfirmed /\ (t \in base \/ ParentsOf(t) \cap allTx \cap A # {})
  <2>1. base \in SUBSET Txs
    OBVIOUS
  <2> HIDE DEF base
  <2> QED BY <2>1, UnconfirmedClosure
<1> DEFINE g == [t \in Txs |-> t \in A]
<1>2. g = E(g)
  <2>1. ASSUME NEW t \in Txs PROVE g[t] = E(g)[t]
    <3>1. g[t] = (t \in A)
      OBVIOUS
    <3>2. (\E p \in ParentsOf(t) \cap allTx : g[p]) <=> ParentsOf(t) \cap allTx \cap A # {}
      BY DEF VarTypes
    <3>3. E(g)[t] = (height[t] = Unconfirmed /\ (Early(t) \/ \E p \in ParentsOf(t) \cap allTx : g[p]))
      <4> HIDE DEF g
      <4> QED BY DEF FutureLock
    <3>4. t \in base <=> Early(t)
      OBVIOUS
    <3> HIDE DEF g, E, base, Early
    <3> QED BY <1>1, <3>1, <3>2, <3>3, <3>4
  <2>2. g = [t \in Txs |-> g[t]] /\ E(g) = [t \in Txs |-> E(g)[t]]
    OBVIOUS
  <2> HIDE DEF g, E
  <2> QED BY <2>1, <2>2
<1> DEFINE f == CHOOSE h : h = E(h)
<1>3. f = E(f)
  <2> HIDE DEF E, g
  <2> QED BY <1>2
<1>4. \A t \in Txs : TransactionIsPending(t) = f[t]
  BY DEF TransactionIsPending
<1>5. \A t \in Txs : f[t] = E(f)[t]
  <2> HIDE DEF f, E
  <2> QED BY <1>3
<1> HIDE DEF f
<1>6. \A t \in Txs : f[t] = (/\ height[t] = Unconfirmed
                             /\ \/ t \in Replaceable
                                \/ FutureLock(t, blockHeight, now)
                                \/ \E p \in ParentsOf(t) \cap allTx : f[p])
  BY <1>5
<1>7. allTx \in SUBSET Txs
  BY DEF VarTypes
<1> HIDE DEF E
<1> QED BY <1>4, <1>6, <1>7

\* BRWalletTransactionIsValid calls a known unconfirmed transaction valid only when the ledger does.
LEMMA ValidIs ==
    ASSUME VarTypes, NEW tx \in Txs, tx \in allTx, height[tx] = Unconfirmed, TransactionIsValid(tx)
    PROVE  tx \notin ledger.invalidTx
<1> DEFINE Sound(t) == IF t \in allTx THEN t \notin ledger.invalidTx ELSE Inputs[t] \cap ledger.spentOutputs = {}
           base == {t \in Txs : ~ Sound(t)}
           E(f) == [t \in Txs |-> height[t] = Unconfirmed =>
                                    /\ IF t \in allTx THEN t \notin ledger.invalidTx
                                                      ELSE Inputs[t] \cap ledger.spentOutputs = {}
                                    /\ \A p \in ParentsOf(t) \cap allTx : f[p]]
<1>1. PICK A \in SUBSET Txs : \A t \in Txs :
              t \in A <=> height[t] = Unconfirmed /\ (t \in base \/ ParentsOf(t) \cap allTx \cap A # {})
  <2>1. base \in SUBSET Txs
    OBVIOUS
  <2> HIDE DEF base
  <2> QED BY <2>1, UnconfirmedClosure
<1> DEFINE g == [t \in Txs |-> t \notin A]
<1>2. g = E(g)
  <2>1. ASSUME NEW t \in Txs PROVE g[t] = E(g)[t]
    <3>1. g[t] = (t \notin A)
      OBVIOUS
    <3>2. (\A p \in ParentsOf(t) \cap allTx : g[p]) <=> ParentsOf(t) \cap allTx \cap A = {}
      BY DEF VarTypes
    <3>3. E(g)[t] = (height[t] = Unconfirmed => Sound(t) /\ \A p \in ParentsOf(t) \cap allTx : g[p])
      <4> HIDE DEF g
      <4> QED OBVIOUS
    <3>4. t \in base <=> ~ Sound(t)
      OBVIOUS
    <3> HIDE DEF g, E, base, Sound
    <3> QED BY <1>1, <3>1, <3>2, <3>3, <3>4
  <2>2. g = [t \in Txs |-> g[t]] /\ E(g) = [t \in Txs |-> E(g)[t]]
    OBVIOUS
  <2> HIDE DEF g, E
  <2> QED BY <2>1, <2>2
<1> DEFINE f == CHOOSE h : h = E(h)
<1>3. f = E(f)
  <2> HIDE DEF E, g
  <2> QED BY <1>2
<1>4. TransactionIsValid(tx) = f[tx]
  BY DEF TransactionIsValid
<1>5. f[tx] = E(f)[tx]
  <2> HIDE DEF f, E
  <2> QED BY <1>3
<1> HIDE DEF f
<1>6. E(f)[tx] => tx \notin ledger.invalidTx
  OBVIOUS
<1> HIDE DEF E
<1> QED BY <1>4, <1>5, <1>6

\* BRWalletTransactionIsVerified wants an unconfirmed transaction to be valid and not pending.
LEMMA VerifiedIs ==
    ASSUME VarTypes, NEW tx \in Txs, height[tx] = Unconfirmed, TransactionIsVerified(tx)
    PROVE  TransactionIsValid(tx) /\ ~ TransactionIsPending(tx)
<1> DEFINE Safe(t) == timestamp[t] # 0 /\ TransactionIsValid(t) /\ ~ TransactionIsPending(t)
           base == {t \in Txs : ~ Safe(t)}
           E(f) == [t \in Txs |-> height[t] = Unconfirmed =>
                                    /\ timestamp[t] # 0 /\ TransactionIsValid(t) /\ ~ TransactionIsPending(t)
                                    /\ \A p \in ParentsOf(t) \cap allTx : f[p]]
<1>1. PICK A \in SUBSET Txs : \A t \in Txs :
              t \in A <=> height[t] = Unconfirmed /\ (t \in base \/ ParentsOf(t) \cap allTx \cap A # {})
  <2>1. base \in SUBSET Txs
    OBVIOUS
  <2> HIDE DEF base
  <2> QED BY <2>1, UnconfirmedClosure
<1> DEFINE g == [t \in Txs |-> t \notin A]
<1>2. g = E(g)
  <2>1. ASSUME NEW t \in Txs PROVE g[t] = E(g)[t]
    <3>1. g[t] = (t \notin A)
      OBVIOUS
    <3>2. (\A p \in ParentsOf(t) \cap allTx : g[p]) <=> ParentsOf(t) \cap allTx \cap A = {}
      BY DEF VarTypes
    <3>3. E(g)[t] = (height[t] = Unconfirmed => Safe(t) /\ \A p \in ParentsOf(t) \cap allTx : g[p])
      <4> HIDE DEF g
      <4> QED OBVIOUS
    <3>4. t \in base <=> ~ Safe(t)
      OBVIOUS
    <3> HIDE DEF g, E, base, Safe
    <3> QED BY <1>1, <3>1, <3>2, <3>3, <3>4
  <2>2. g = [t \in Txs |-> g[t]] /\ E(g) = [t \in Txs |-> E(g)[t]]
    OBVIOUS
  <2> HIDE DEF g, E
  <2> QED BY <2>1, <2>2
<1> DEFINE f == CHOOSE h : h = E(h)
<1>3. f = E(f)
  <2> HIDE DEF E, g
  <2> QED BY <1>2
<1>4. TransactionIsVerified(tx) = f[tx]
  BY DEF TransactionIsVerified
<1>5. f[tx] = E(f)[tx]
  <2> HIDE DEF f, E
  <2> QED BY <1>3
<1> HIDE DEF f
<1>6. E(f)[tx] => TransactionIsValid(tx) /\ ~ TransactionIsPending(tx)
  OBVIOUS
<1> HIDE DEF E
<1> QED BY <1>4, <1>5, <1>6

\* A step leaves the ledger alone or computes it anew.
LEMMA LedgerStep ==
    ASSUME VarTypes, EnvTypes, VarTypes', EnvTypes', [Next]_vars
    PROVE  \/ ledger' = ledger
           \/ \E list \in Seq(Txs), bh \in Nat, clock \in Nat : \E hts, addrs :
                 ledger' = UpdateBalance(list, hts, addrs, bh, clock)
<1>1. blockHeight \in Nat /\ blockHeight' \in Nat /\ now \in Nat
  <2>1. \A h \in Heights : h \in Nat
    BY HeightTypes
  <2> QED BY <2>1, ConstantsAssumption DEF VarTypes, EnvTypes
<1>2. transactions \in Seq(Txs) /\ transactions' \in Seq(Txs)
  BY DEF VarTypes
<1>3. ASSUME NEW t \in Txs, NEW ts \in {0, 1}, RegisterTransaction(t, ts)
      PROVE  ledger' = ledger \/ \E hts, addrs : ledger' = UpdateBalance(transactions', hts, addrs, blockHeight, now)
  <2>1. CASE RegisterWalletTx(t, ts)
    BY <2>1 DEF RegisterWalletTx, Recompute
  <2>2. CASE RegisterOtherTx(t, ts)
    BY <2>2 DEF RegisterOtherTx
  <2>3. CASE RegisterKnownTx(t)
    BY <2>3 DEF RegisterKnownTx, vars, walletVars
  <2> QED BY <1>3, <2>1, <2>2, <2>3 DEF RegisterTransaction
<1>4. ASSUME NEW txHashes, NEW h, NEW ts, UpdateTransactions(txHashes, h, ts)
      PROVE  ledger' = ledger \/ \E hts, addrs : ledger' = UpdateBalance(transactions', hts, addrs, blockHeight', now)
  BY <1>4 DEF UpdateTransactions, Recompute
<1>5. ASSUME NEW block \in Blocks, BlockConfirms(block)
      PROVE  ledger' = ledger \/ \E hts, addrs : ledger' = UpdateBalance(transactions', hts, addrs, blockHeight', now)
  BY <1>4, <1>5 DEF BlockConfirms, walletVars
<1>6. ASSUME NEW t \in Txs, NEW ts \in {0, 1}, RelayCountChanges(t, ts)
      PROVE  ledger' = ledger \/ \E hts, addrs : ledger' = UpdateBalance(transactions', hts, addrs, blockHeight', now)
  BY <1>4, <1>6 DEF RelayCountChanges
<1>7. ASSUME NEW h \in 0..MaxHeight, SetTxUnconfirmedAfter(h)
      PROVE  ledger' = ledger \/ \E hts, addrs : ledger' = UpdateBalance(transactions, hts, addrs, blockHeight', now)
  BY <1>7 DEF SetTxUnconfirmedAfter, Recompute
<1>8. ASSUME NEW t \in Txs, RemoveTransaction(t) PROVE ledger' = ledger
  BY <1>8 DEF RemoveTransaction
<1>9. ASSUME RemoveStep
      PROVE  ledger' = ledger \/ \E hts, addrs : ledger' = UpdateBalance(transactions', hts, addrs, blockHeight, now)
  BY <1>9 DEF RemoveStep, Recompute
<1>10. ASSUME GenerateAddrs \/ SaveBlocks \/ WriteAdded \/ WriteUpdated \/ WriteDeleted \/ WriteBlocks \/ Tick \/ Rescanning
       PROVE  ledger' = ledger
  BY <1>10 DEF GenerateAddrs, SaveBlocks, WriteAdded, WriteUpdated, WriteDeleted, WriteBlocks, Write, Tick,
               Rescanning, Rescan, walletVars
<1>11. ASSUME Restart
       PROVE  \E hts, addrs : ledger' = UpdateBalance(transactions', hts, addrs, 0, now)
  BY <1>11 DEF Restart, BRWalletNew
<1>12. ASSUME UNCHANGED vars PROVE ledger' = ledger
  BY <1>12 DEF vars, walletVars
<1>13. \/ ledger' = ledger
       \/ \E hts, addrs : \/ ledger' = UpdateBalance(transactions', hts, addrs, blockHeight, now)
                          \/ ledger' = UpdateBalance(transactions', hts, addrs, blockHeight', now)
                          \/ ledger' = UpdateBalance(transactions, hts, addrs, blockHeight', now)
                          \/ ledger' = UpdateBalance(transactions', hts, addrs, 0, now)
  BY <1>3, <1>5, <1>6, <1>7, <1>8, <1>9, <1>10, <1>11, <1>12 DEF Next, Running
<1> QED BY <1>1, <1>2, <1>13

\* Without lock times, what is pending stays derived from replaceable transactions.
LEMMA NextDerives ==
    ASSUME \A t \in Txs : LockTime[t] = 0, Inv, Inv', Derived(ledger.pendingTx), [Next]_vars
    PROVE  Derived(ledger.pendingTx)'
<1>1. VarTypes /\ EnvTypes /\ VarTypes' /\ EnvTypes'
  <2>1. VarTypes' /\ EnvTypes'
    BY InvIs, PTL
  <2> QED BY <2>1, InvIs
<1>2. CASE ledger' = ledger
  BY <1>2 DEF Derived
<1>3. CASE \E list \in Seq(Txs), bh \in Nat, clock \in Nat : \E hts, addrs :
              ledger' = UpdateBalance(list, hts, addrs, bh, clock)
  <2>1. PICK list \in Seq(Txs), bh \in Nat, clock \in Nat : \E hts, addrs :
              ledger' = UpdateBalance(list, hts, addrs, bh, clock)
    BY <1>3
  <2>2. PICK hts, addrs : ledger' = UpdateBalance(list, hts, addrs, bh, clock)
    BY <2>1
  <2>3. Derived(UpdateBalance(list, hts, addrs, bh, clock).pendingTx)
    BY UpdateDerives
  <2>4. Derived(ledger'.pendingTx)
    BY <2>2, <2>3
  <2> QED BY <2>4 DEF Derived
<1> QED BY <1>1, <1>2, <1>3, LedgerStep

\* The ledger holds only transactions for pending that BRWalletTransactionIsPending calls so.
LEMMA PendingFound ==
    ASSUME Inv, WalletInv, Derived(ledger.pendingTx), NEW t \in ledger.pendingTx
    PROVE  TransactionIsPending(t)
<1> DEFINE P == ledger.pendingTx
           S == {u \in P : TransactionIsPending(u)}
<1>1. VarTypes
  BY InvIs
<1>2. \A u \in P : u \in Txs /\ u \in allTx /\ height[u] = Unconfirmed
  <2>1. P \subseteq Listed /\ \A u \in P : height[u] = Unconfirmed
    BY DEF Inv, LedgerFits, Fits
  <2>2. Listed \subseteq allTx /\ allTx \subseteq Txs
    BY <1>1 DEF WalletInv, ListOK, VarTypes
  <2> HIDE DEF P
  <2> QED BY <2>1, <2>2
<1>3. \A u \in P : u \in Replaceable \/ ParentsOf(u) \cap S # {} => u \in S
  <2>1. ASSUME NEW u \in P, u \in Replaceable PROVE u \in S
    BY <1>1, <1>2, <2>1, PendingIs
  <2>2. ASSUME NEW u \in P, ParentsOf(u) \cap S # {} PROVE u \in S
    <3>1. PICK p \in ParentsOf(u) : p \in P /\ TransactionIsPending(p)
      BY <2>2
    <3>2. p \in ParentsOf(u) \cap allTx
      BY <1>2, <3>1
    <3> QED BY <1>1, <1>2, <3>1, <3>2, PendingIs
  <2> HIDE DEF S, P
  <2> QED BY <2>1, <2>2
<1>4. S = P
  <2>1. S \in SUBSET P
    OBVIOUS
  <2>2. Derived(P)
    OBVIOUS
  <2> HIDE DEF S, P
  <2> QED BY <1>3, <2>1, <2>2 DEF Derived
<1> QED BY <1>4

\* Without lock times a listed transaction that BRWalletTransactionIsVerified calls safe counts in the balance.
THEOREM VerifiedIsCountedCorrect ==
    ASSUME \A t \in Txs : LockTime[t] = 0
    PROVE  SpecRecognized => []VerifiedIsCounted
<1>1. ASSUME Inv, WalletInv, Derived(ledger.pendingTx) PROVE VerifiedIsCounted
  <2> SUFFICES ASSUME NEW t \in Listed, TransactionIsVerified(t) PROVE t \in Counted
    BY DEF VerifiedIsCounted
  <2>1. VarTypes /\ t \in Txs /\ t \in allTx
    BY <1>1, InvIs DEF WalletInv, ListOK, VarTypes
  <2>2. CASE height[t] # Unconfirmed
    BY <1>1, <2>2 DEF Inv, LedgerFits, Fits, Counted
  <2>3. CASE height[t] = Unconfirmed
    <3>1. TransactionIsValid(t) /\ ~ TransactionIsPending(t)
      BY <2>1, <2>3, VerifiedIs
    <3>2. t \notin ledger.invalidTx
      BY <2>1, <2>3, <3>1, ValidIs
    <3>3. t \notin ledger.pendingTx
      BY <1>1, <3>1, PendingFound
    <3> QED BY <3>2, <3>3 DEF Counted
  <2> QED BY <2>2, <2>3
<1>2. Init => Derived(ledger.pendingTx)
  BY EmptyLedgerIs DEF Init, Derived
<1>3. Inv /\ Inv' /\ Derived(ledger.pendingTx) /\ [NextRecognized]_vars => Derived(ledger.pendingTx)'
  <2>1. [NextRecognized]_vars => [Next]_vars
    BY DEF NextRecognized, Next
  <2> QED BY <2>1, NextDerives
<1>4. Inv /\ WalletInv /\ Derived(ledger.pendingTx) => VerifiedIsCounted
  BY <1>1
<1> QED BY <1>2, <1>3, <1>4, WalletInvAlways, PTL DEF SpecRecognized
=============================================================================

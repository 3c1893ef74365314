---------------------------- MODULE SigningProofs ----------------------------
(***************************************************************************)
(* Proofs about what comes after the balance of a transaction, each for    *)
(* any constants and however its steps follow each other: the keys that    *)
(* sign and the fee that is paid for them, the collateral (Signing), the   *)
(* packing of the change (TokenPacking), the wallets that derive the keys  *)
(* and the messages that they sign (HDWallet, MessageSigning).             *)
(***************************************************************************)
EXTENDS Signing, TokenPacking, MessageSigning, SumsProofs, SequenceTheorems

TypeOK ==
  /\ {inputs, potential, wallet, collaterals} \subseteq SUBSET UTxOs
  /\ refs \in Nat
  /\ required \in {None} \cup SUBSET Keys
  /\ items \subseteq Items
  /\ natives \subseteq NativeScripts /\ attached \subseteq NativeScripts

\* What is called for by the state that a transaction was built from.
Vkeys == BuildRequiredVkeys(inputs, collaterals, required)

\* A signed transaction is of the builder as it is.
SignedInv ==
  tx.status = "signed" =>
    /\ tx.given \subseteq Keys
    /\ tx.witnesses = KeysThatSign(tx.given, tx.forced, Vkeys)
    /\ tx.counted = Cardinality(FakeVkeyWitnesses(WitnessCount(Vkeys)))

-----------------------------------------------------------------------------
(* Trees of native scripts.  A recursive function satisfies its equation if some *)
(* function does: one that is built nesting by nesting.                          *)

\* What _dfs returns for a script.
LEMMA DfsExists ==
  \A s \in NativeScripts :
    Dfs[s] = IF s.op = "pubkey" THEN {s.key}
             ELSE IF s.op \in {"all", "any"} THEN UNION {Dfs[t] : t \in s.subs} ELSE {}
<1> DEFINE Value(f, s) == IF s.op = "pubkey" THEN {s.key}
                          ELSE IF s.op \in {"all", "any"} THEN UNION {f[t] : t \in s.subs} ELSE {}
<1>1. PICK nesting \in [NativeScripts -> 0..MaxNesting] :
             \A s \in NativeScripts : \A t \in s.subs : nesting[t] < nesting[s]
  BY ScriptsAssumption
<1> DEFINE Below(n) == {s \in NativeScripts : nesting[s] < n}
           Solved(n) == \E f : f = [s \in NativeScripts |-> f[s]] /\ \A s \in Below(n) : f[s] = Value(f, s)
<1>2. Solved(0)
  <2>1. Below(0) = {}
    BY <1>1
  <2> DEFINE f == [s \in NativeScripts |-> {}]
  <2>2. f = [s \in NativeScripts |-> f[s]]
    OBVIOUS
  <2> QED BY <2>1, <2>2
<1>3. ASSUME NEW n \in Nat, Solved(n)
      PROVE  Solved(n + 1)
  <2>1. PICK f : f = [s \in NativeScripts |-> f[s]] /\ \A s \in Below(n) : f[s] = Value(f, s)
    BY <1>3
  <2> DEFINE g == [s \in NativeScripts |-> IF nesting[s] < n THEN f[s] ELSE Value(f, s)]
  <2>2. ASSUME NEW s \in Below(n + 1)
        PROVE  g[s] = Value(g, s)
    <3>1. \A t \in s.subs : t \in NativeScripts /\ nesting[t] < n
      BY <1>1, ScriptsAssumption
    <3>2. \A t \in s.subs : g[t] = f[t]
      BY <3>1
    <3>3. g[s] = Value(f, s)
      BY <2>1
    <3> HIDE DEF g
    <3>4. {g[t] : t \in s.subs} = {f[t] : t \in s.subs}
      BY <3>2
    <3>5. Value(g, s) = Value(f, s)
      BY <3>4
    <3> QED BY <3>5, <3>3
  <2>3. g = [s \in NativeScripts |-> g[s]]
    OBVIOUS
  <2> QED BY <2>2, <2>3
<1>4. Solved(MaxNesting + 1)
  <2> HIDE DEF Solved
  <2> SUFFICES ASSUME ~Solved(MaxNesting + 1) PROVE FALSE
    OBVIOUS
  <2> DEFINE Unsolved == {n \in Nat : ~Solved(n)}
  <2>1. Unsolved \in SUBSET Nat /\ Unsolved # {}
    BY ScriptsAssumption
  <2>2. PICK n \in Unsolved : \A m \in Unsolved : n <= m
    BY <2>1, LeastMember
  <2>3. n - 1 \in Nat /\ n - 1 \notin Unsolved
    BY <1>2, <2>2
  <2> QED BY <1>3, <2>2, <2>3
<1>5. PICK f : f = [s \in NativeScripts |-> f[s]] /\ \A s \in Below(MaxNesting + 1) : f[s] = Value(f, s)
  BY <1>4
<1>6. Below(MaxNesting + 1) = NativeScripts
  BY <1>1, ScriptsAssumption
<1> DEFINE Equation(h) == h = [s \in NativeScripts |-> Value(h, s)]
<1>7. \E h : Equation(h)
  <2>1. \A s \in NativeScripts : f[s] = Value(f, s)
    BY <1>5, <1>6
  <2> HIDE DEF Value
  <2>2. f = [s \in NativeScripts |-> Value(f, s)]
    BY <1>5, <2>1
  <2> QED BY <2>2
<1>8. Dfs = CHOOSE h : Equation(h)
  BY DEF Dfs
<1> HIDE DEF Equation
<1>9. Equation(Dfs)
  BY <1>7, <1>8
<1> QED BY <1>9 DEF Equation

\* The scripts within a script.
LEMMA WithinExists ==
  \A s \in NativeScripts :
    Within[s] = {s} \cup UNION {Within[t] : t \in s.subs}
<1> DEFINE Value(f, s) == {s} \cup UNION {f[t] : t \in s.subs}
<1>1. PICK nesting \in [NativeScripts -> 0..MaxNesting] :
             \A s \in NativeScripts : \A t \in s.subs : nesting[t] < nesting[s]
  BY ScriptsAssumption
<1> DEFINE Below(n) == {s \in NativeScripts : nesting[s] < n}
           Solved(n) == \E f : f = [s \in NativeScripts |-> f[s]] /\ \A s \in Below(n) : f[s] = Value(f, s)
<1>2. Solved(0)
  <2>1. Below(0) = {}
    BY <1>1
  <2> DEFINE f == [s \in NativeScripts |-> {}]
  <2>2. f = [s \in NativeScripts |-> f[s]]
    OBVIOUS
  <2> QED BY <2>1, <2>2
<1>3. ASSUME NEW n \in Nat, Solved(n)
      PROVE  Solved(n + 1)
  <2>1. PICK f : f = [s \in NativeScripts |-> f[s]] /\ \A s \in Below(n) : f[s] = Value(f, s)
    BY <1>3
  <2> DEFINE g == [s \in NativeScripts |-> IF nesting[s] < n THEN f[s] ELSE Value(f, s)]
  <2>2. ASSUME NEW s \in Below(n + 1)
        PROVE  g[s] = Value(g, s)
    <3>1. \A t \in s.subs : t \in NativeScripts /\ nesting[t] < n
      BY <1>1, ScriptsAssumption
    <3>2. \A t \in s.subs : g[t] = f[t]
      BY <3>1
    <3>3. g[s] = Value(f, s)
      BY <2>1
    <3> HIDE DEF g
    <3>4. {g[t] : t \in s.subs} = {f[t] : t \in s.subs}
      BY <3>2
    <3>5. Value(g, s) = Value(f, s)
      BY <3>4
    <3> QED BY <3>5, <3>3
  <2>3. g = [s \in NativeScripts |-> g[s]]
    OBVIOUS
  <2> QED BY <2>2, <2>3
<1>4. Solved(MaxNesting + 1)
  <2> HIDE DEF Solved
  <2> SUFFICES ASSUME ~Solved(MaxNesting + 1) PROVE FALSE
    OBVIOUS
  <2> DEFINE Unsolved == {n \in Nat : ~Solved(n)}
  <2>1. Unsolved \in SUBSET Nat /\ Unsolved # {}
    BY ScriptsAssumption
  <2>2. PICK n \in Unsolved : \A m \in Unsolved : n <= m
    BY <2>1, LeastMember
  <2>3. n - 1 \in Nat /\ n - 1 \notin Unsolved
    BY <1>2, <2>2
  <2> QED BY <1>3, <2>2, <2>3
<1>5. PICK f : f = [s \in NativeScripts |-> f[s]] /\ \A s \in Below(MaxNesting + 1) : f[s] = Value(f, s)
  BY <1>4
<1>6. Below(MaxNesting + 1) = NativeScripts
  BY <1>1, ScriptsAssumption
<1> DEFINE Equation(h) == h = [s \in NativeScripts |-> Value(h, s)]
<1>7. \E h : Equation(h)
  <2>1. \A s \in NativeScripts : f[s] = Value(f, s)
    BY <1>5, <1>6
  <2> HIDE DEF Value
  <2>2. f = [s \in NativeScripts |-> Value(f, s)]
    BY <1>5, <2>1
  <2> QED BY <2>2
<1>8. Within = CHOOSE h : Equation(h)
  BY DEF Within
<1> HIDE DEF Equation
<1>9. Equation(Within)
  BY <1>7, <1>8
<1> QED BY <1>9 DEF Equation

\* What satisfies a script.
LEMMA SatisfiedByExists ==
  \A s \in NativeScripts :
    SatisfiedBy[s] =
      {W \in SUBSET Keys :
         /\ s.op = "pubkey" => s.key \in W
         /\ s.op = "all" => \A t \in s.subs : W \in SatisfiedBy[t]
         /\ s.op = "any" => \E t \in s.subs : W \in SatisfiedBy[t]
         /\ s.op = "nofk" => Cardinality({t \in s.subs : W \in SatisfiedBy[t]}) >= s.n}
<1> DEFINE Value(f, s) == 
             {W \in SUBSET Keys :
                /\ s.op = "pubkey" => s.key \in W
                /\ s.op = "all" => \A t \in s.subs : W \in f[t]
                /\ s.op = "any" => \E t \in s.subs : W \in f[t]
                /\ s.op = "nofk" => Cardinality({t \in s.subs : W \in f[t]}) >= s.n}
<1>1. PICK nesting \in [NativeScripts -> 0..MaxNesting] :
             \A s \in NativeScripts : \A t \in s.subs : nesting[t] < nesting[s]
  BY ScriptsAssumption
<1> DEFINE Below(n) == {s \in NativeScripts : nesting[s] < n}
           Solved(n) == \E f : f = [s \in NativeScripts |-> f[s]] /\ \A s \in Below(n) : f[s] = Value(f, s)
<1>2. Solved(0)
  <2>1. Below(0) = {}
    BY <1>1
  <2> DEFINE f == [s \in NativeScripts |-> {}]
  <2>2. f = [s \in NativeScripts |-> f[s]]
    OBVIOUS
  <2> QED BY <2>1, <2>2
<1>3. ASSUME NEW n \in Nat, Solved(n)
      PROVE  Solved(n + 1)
  <2>1. PICK f : f = [s \in NativeScripts |-> f[s]] /\ \A s \in Below(n) : f[s] = Value(f, s)
    BY <1>3
  <2> DEFINE g == [s \in NativeScripts |-> IF nesting[s] < n THEN f[s] ELSE Value(f, s)]
  <2>2. ASSUME NEW s \in Below(n + 1)
        PROVE  g[s] = Value(g, s)
    <3>1. \A t \in s.subs : t \in NativeScripts /\ nesting[t] < n
      BY <1>1, ScriptsAssumption
    <3>2. \A t \in s.subs : g[t] = f[t]
      BY <3>1
    <3>3. g[s] = Value(f, s)
      BY <2>1
    <3> HIDE DEF g
    <3>4. \A W \in SUBSET Keys :
            {t \in s.subs : W \in g[t]} = {t \in s.subs : W \in f[t]}
      BY <3>2
    <3>5. Value(g, s) = Value(f, s)
      BY <3>2, <3>4
    <3> QED BY <3>5, <3>3
  <2>3. g = [s \in NativeScripts |-> g[s]]
    OBVIOUS
  <2> QED BY <2>2, <2>3
<1>4. Solved(MaxNesting + 1)
  <2> HIDE DEF Solved
  <2> SUFFICES ASSUME ~Solved(MaxNesting + 1) PROVE FALSE
    OBVIOUS
  <2> DEFINE Unsolved == {n \in Nat : ~Solved(n)}
  <2>1. Unsolved \in SUBSET Nat /\ Unsolved # {}
    BY ScriptsAssumption
  <2>2. PICK n \in Unsolved : \A m \in Unsolved : n <= m
    BY <2>1, LeastMember
  <2>3. n - 1 \in Nat /\ n - 1 \notin Unsolved
    BY <1>2, <2>2
  <2> QED BY <1>3, <2>2, <2>3
<1>5. PICK f : f = [s \in NativeScripts |-> f[s]] /\ \A s \in Below(MaxNesting + 1) : f[s] = Value(f, s)
  BY <1>4
<1>6. Below(MaxNesting + 1) = NativeScripts
  BY <1>1, ScriptsAssumption
<1> DEFINE Equation(h) == h = [s \in NativeScripts |-> Value(h, s)]
<1>7. \E h : Equation(h)
  <2>1. \A s \in NativeScripts : f[s] = Value(f, s)
    BY <1>5, <1>6
  <2> HIDE DEF Value
  <2>2. f = [s \in NativeScripts |-> Value(f, s)]
    BY <1>5, <2>1
  <2> QED BY <2>2
<1>8. SatisfiedBy = CHOOSE h : Equation(h)
  BY DEF SatisfiedBy
<1> HIDE DEF Equation
<1>9. Equation(SatisfiedBy)
  BY <1>7, <1>8
<1> QED BY <1>9 DEF Equation
-----------------------------------------------------------------------------
(* The collateral *)

\* The return of what a run of the loop has chosen, measured or not yet.
Returns(S) == {ReturnOf(S), Measured(ReturnOf(S))}

EligibleOf(S) == {u \in S : Eligible(u)}

\* A state of the loop is worth what it has chosen.
Summed(s) ==
  /\ s.got \subseteq EligibleOf(UTxOs)
  /\ s.coin = Coin(s.got) /\ s.tokens = NumberOfTokens(s.got)

\* ... and, after a round of the loop, has the return of it.
Balanced(s) ==
  /\ Summed(s)
  /\ s.ret \in Returns(s.got)
  /\ s = [got |-> s.got, coin |-> s.coin, tokens |-> s.tokens, ret |-> s.ret]

\* A run that started in s0 and has popped P has left nothing out, or needs no more.
Passed(s, s0, P) ==
  /\ s0.got \subseteq s.got /\ s.got \subseteq s0.got \cup EligibleOf(P)
  /\ EligibleOf(P) \subseteq s.got \/ ~WantsMore(s)

\* Coins and tokens are sums: of natural numbers, one summand for one UTxO.
LEMMA CoinSums ==
  ASSUME NEW S \in SUBSET UTxOs
  PROVE  /\ Coin(S) \in Nat /\ NumberOfTokens(S) \in Nat
         /\ \A u \in UTxOs \ S : /\ Coin(S \cup {u}) = Coin(S) + u.coin
                                 /\ NumberOfTokens(S \cup {u}) = NumberOfTokens(S) + u.tokens
<1> DEFINE c == [u \in UTxOs |-> u.coin]
           k == [u \in UTxOs |-> u.tokens]
<1>1. IsFiniteSet(S) /\ \A u \in UTxOs : c[u] \in Nat /\ k[u] \in Nat
  BY CollateralAssumption, FS_Subset
<1>2. \A u \in UTxOs : c[u] = u.coin /\ k[u] = u.tokens
  OBVIOUS
<1>3. Coin(S) = Total(c, S) /\ NumberOfTokens(S) = Total(k, S)
  BY DEF Coin, NumberOfTokens
<1>4. \A u \in UTxOs : /\ Coin(S \cup {u}) = Total(c, S \cup {u})
                       /\ NumberOfTokens(S \cup {u}) = Total(k, S \cup {u})
  BY DEF Coin, NumberOfTokens
<1> HIDE DEF c, k
<1>5. \A u \in S : c[u] \in Nat /\ k[u] \in Nat
  BY <1>1
<1>6. IsFiniteSet(UnitsOf(c, S)) /\ IsFiniteSet(UnitsOf(k, S)) /\ Total(c, S) \in Nat /\ Total(k, S) \in Nat
  BY <1>1, <1>5, TotalFinite
<1>7. ASSUME NEW u \in UTxOs \ S
      PROVE  /\ Total(c, S \cup {u}) = Total(c, S) + c[u]
             /\ Total(k, S \cup {u}) = Total(k, S) + k[u]
  <2>1. u \notin S /\ c[u] \in Nat /\ k[u] \in Nat
    BY <1>1
  <2>2. Total(c, S \cup {u}) = Total(c, S) + c[u]
    BY ONLY <1>6, <2>1, TotalAdd
  <2>3. Total(k, S \cup {u}) = Total(k, S) + k[u]
    BY ONLY <1>6, <2>1, TotalAdd
  <2> QED BY <2>2, <2>3
<1> QED BY <1>2, <1>3, <1>4, <1>6, <1>7

LEMMA NoCoins == Coin({}) = 0 /\ NumberOfTokens({}) = 0
BY TotalEmpty DEF Coin, NumberOfTokens

LEMMA AmountTyped ==
  ASSUME refs \in Nat
  PROVE  CollateralAmount \in Nat
<1>1. {Base, PerRef} \subseteq Nat
  BY CollateralAssumption
<1>2. PerRef * refs \in Nat
  BY <1>1
<1> QED BY <1>1, <1>2 DEF CollateralAmount

\* The last that is popped of some candidates is one of them.
LEMMA PoppedLastIsIn ==
  ASSUME NEW S \in SUBSET UTxOs, S # {}
  PROVE  PoppedLast(S) \in S
<1> DEFINE Sizes == {u.size : u \in S}
<1>1. \A u \in S : u.size \in Nat /\ u.coin \in Nat
  BY CollateralAssumption
<1>2. PICK n \in Sizes : \A m \in Sizes : n <= m
  <2>1. Sizes \in SUBSET Nat /\ Sizes # {}
    BY <1>1
  <2> QED BY <2>1, LeastMember
<1> DEFINE Short == {u \in S : u.size = n}
<1>3. \A u \in S : n <= u.size /\ n \in Nat
  BY <1>1, <1>2
<1>4. ASSUME NEW u \in UTxOs
      PROVE  u.coin <= Coin(UTxOs) /\ Coin(UTxOs) \in Nat
  <2> DEFINE T == UTxOs \ {u}
  <2>1. T \in SUBSET UTxOs /\ u \in UTxOs \ T /\ T \cup {u} = UTxOs
    OBVIOUS
  <2> HIDE DEF T
  <2>2. Coin(T) \in Nat /\ Coin(UTxOs) = Coin(T) + u.coin
    BY <2>1, CoinSums
  <2>3. u.coin \in Nat
    BY CollateralAssumption
  <2> QED BY <2>2, <2>3
<1> DEFINE Rests == {Coin(UTxOs) - u.coin : u \in Short}
<1>5. PICK d \in Rests : \A e \in Rests : d <= e
  <2>1. Rests \in SUBSET Nat /\ Rests # {}
    BY <1>1, <1>2, <1>4
  <2> HIDE DEF Rests
  <2> QED BY <2>1, LeastMember
<1>6. PICK u \in Short : d = Coin(UTxOs) - u.coin
  BY <1>5
<1>7. \A v \in Short : v.coin <= u.coin
  <2> TAKE v \in Short
  <2>1. Coin(UTxOs) - u.coin <= Coin(UTxOs) - v.coin
    BY <1>5, <1>6
  <2> QED BY <1>1, <1>4, <2>1
<1>8. \A v \in S : ~PoppedBefore(u, v)
  BY <1>1, <1>3, <1>6, <1>7 DEF PoppedBefore
<1> QED BY <1>6, <1>8 DEF PoppedLast
\* One round of the loop.
LEMMA RoundPasses ==
  ASSUME refs \in Nat, NEW s, NEW s0, NEW P \in SUBSET UTxOs, NEW u \in UTxOs,
         Balanced(s), Passed(s, s0, P)
  PROVE  Balanced(Consider(s, u)) /\ Passed(Consider(s, u), s0, P \cup {u})
<1>1. s.got \in SUBSET UTxOs /\ CollateralAmount \in Nat
  BY AmountTyped DEF Summed, Balanced, EligibleOf
<1>2. Coin(s.got) \in Nat /\ NumberOfTokens(s.got) \in Nat
  BY <1>1, CoinSums
<1>3. EligibleOf(P \cup {u}) = IF Eligible(u) THEN EligibleOf(P) \cup {u} ELSE EligibleOf(P)
  BY DEF EligibleOf
<1>4. CASE ~WantsMore(s)
  <2>1. Consider(s, u) = s
    BY <1>4 DEF Consider
  <2> QED BY <1>3, <1>4, <2>1 DEF Passed
<1>5. CASE WantsMore(s) /\ Eligible(u) /\ u \notin s.got
  <2> DEFINE got == s.got \cup {u}
             t == [got |-> got, coin |-> s.coin + u.coin, tokens |-> s.tokens + u.tokens,
                   ret |-> [coin |-> (s.coin + u.coin) - CollateralAmount,
                            tokens |-> s.tokens + u.tokens]]
  <2>1. Consider(s, u) = t
    BY <1>5 DEF Consider, WithReturn
  <2>2. Coin(got) = s.coin + u.coin /\ NumberOfTokens(got) = s.tokens + u.tokens
    BY <1>1, <1>5, CoinSums DEF Summed, Balanced
  <2>3. got \subseteq EligibleOf(UTxOs)
    BY <1>5 DEF Summed, Balanced, EligibleOf
  <2>4. t.ret = ReturnOf(got)
    BY <2>2 DEF ReturnOf
  <2>5. Balanced(t)
    BY <2>2, <2>3, <2>4 DEF Summed, Balanced, Returns
  <2>6. Passed(t, s0, P \cup {u})
    BY <1>3, <1>5 DEF Passed
  <2> QED BY <2>1, <2>5, <2>6
<1>6. CASE WantsMore(s) /\ ~(Eligible(u) /\ u \notin s.got)
  <2>1. CASE s.coin < CollateralAmount
    <3>1. Consider(s, u) = s
      BY <1>6, <2>1 DEF Consider
    <3> QED BY <1>3, <1>6, <3>1 DEF Passed
  <2>2. CASE ~(s.coin < CollateralAmount)
    <3> DEFINE t == [s EXCEPT !.ret = Measured(s.ret)]
    <3>1. Consider(s, u) = t
      BY <1>6, <2>2 DEF Consider
    <3>2. t = [got |-> s.got, coin |-> s.coin, tokens |-> s.tokens, ret |-> Measured(s.ret)]
      BY DEF Summed, Balanced
    <3>3. Measured(s.ret) = Measured(ReturnOf(s.got))
      <4>1. Measured(Measured(ReturnOf(s.got))) = Measured(ReturnOf(s.got))
        BY CollateralAssumption DEF Measured, ReturnOf
      <4> QED BY <4>1 DEF Summed, Balanced, Returns
    <3>4. Balanced(t)
      BY <3>2, <3>3 DEF Summed, Balanced, Returns
    <3>5. Passed(t, s0, P \cup {u})
      BY <1>3, <1>6, <3>2 DEF Passed
    <3> QED BY <3>1, <3>4, <3>5
  <2> QED BY <2>1, <2>2
<1> QED BY <1>4, <1>5, <1>6
\* The loop, from its first round to its last.
LEMMA LoopExists ==
  ASSUME NEW s0, NEW C \in SUBSET UTxOs
  PROVE  \E popped :
           /\ popped[{}] = WithReturn(s0.got, s0.coin, s0.tokens)
           /\ \A S \in SUBSET C : S # {} =>
                popped[S] = Consider(popped[S \ {PoppedLast(S)}], PoppedLast(S))
           /\ popped[C] = AddCollateralInput(s0, C)
<1> DEFINE start == WithReturn(s0.got, s0.coin, s0.tokens)
           Value(f, S) == IF S = {} THEN start
                          ELSE Consider(f[S \ {PoppedLast(S)}], PoppedLast(S))
           Small(n) == {S \in SUBSET C : Cardinality(S) < n}
           Solved(n) == \E f : f = [S \in SUBSET C |-> f[S]] /\ \A S \in Small(n) : f[S] = Value(f, S)
           Equation(h) == h = [S \in SUBSET C |-> Value(h, S)]
<1>1. \A S \in SUBSET C : IsFiniteSet(S) /\ Cardinality(S) \in Nat /\ Cardinality(S) <= Cardinality(C)
  <2>1. IsFiniteSet(C)
    BY CollateralAssumption, FS_Subset
  <2> QED BY <2>1, FS_Subset, FS_CardinalityType
<1>2. Solved(0)
  <2>1. Small(0) = {}
    BY <1>1
  <2> DEFINE f == [S \in SUBSET C |-> {}]
  <2>2. f = [S \in SUBSET C |-> f[S]]
    OBVIOUS
  <2> QED BY <2>1, <2>2
<1>3. ASSUME NEW n \in Nat, Solved(n)
      PROVE  Solved(n + 1)
  <2>1. PICK f : f = [S \in SUBSET C |-> f[S]] /\ \A S \in Small(n) : f[S] = Value(f, S)
    BY <1>3
  <2> DEFINE g == [S \in SUBSET C |-> IF Cardinality(S) < n THEN f[S] ELSE Value(f, S)]
  <2>2. ASSUME NEW S \in Small(n + 1)
        PROVE  g[S] = Value(g, S)
    <3>1. CASE S = {}
      <4>1. g[S] = Value(f, S)
        BY <2>1
      <4> QED BY <3>1, <4>1
    <3>2. CASE S # {}
      <4> DEFINE R == S \ {PoppedLast(S)}
      <4>1. PoppedLast(S) \in S
        BY <3>2, PoppedLastIsIn
      <4>2. R \in SUBSET C /\ Cardinality(R) < n
        <5>1. IsFiniteSet(S) /\ Cardinality(R) = Cardinality(S) - 1
          BY <1>1, <4>1, FS_RemoveElement
        <5> QED BY <1>1, <5>1
      <4>3. g[R] = f[R]
        BY <4>2
      <4>4. g[S] = Value(f, S)
        BY <2>1
      <4> QED BY <3>2, <4>3, <4>4
    <3> QED BY <3>1, <3>2
  <2>3. g = [S \in SUBSET C |-> g[S]]
    OBVIOUS
  <2> QED BY <2>2, <2>3
<1>4. Solved(Cardinality(C) + 1)
  <2> HIDE DEF Solved
  <2> SUFFICES ASSUME ~Solved(Cardinality(C) + 1) PROVE FALSE
    OBVIOUS
  <2> DEFINE Unsolved == {n \in Nat : ~Solved(n)}
  <2>1. Unsolved \in SUBSET Nat /\ Unsolved # {}
    BY <1>1
  <2>2. PICK n \in Unsolved : \A m \in Unsolved : n <= m
    BY <2>1, LeastMember
  <2>3. n - 1 \in Nat /\ n - 1 \notin Unsolved
    BY <1>2, <2>2
  <2> QED BY <1>3, <2>2, <2>3
<1>5. PICK f : f = [S \in SUBSET C |-> f[S]] /\ \A S \in Small(Cardinality(C) + 1) : f[S] = Value(f, S)
  BY <1>4
<1>6. Small(Cardinality(C) + 1) = SUBSET C
  BY <1>1
<1>7. \E h : Equation(h)
  <2>1. \A S \in SUBSET C : f[S] = Value(f, S)
    BY <1>5, <1>6
  <2> HIDE DEF Value
  <2>2. f = [S \in SUBSET C |-> Value(f, S)]
    BY <1>5, <2>1
  <2> QED BY <2>2
<1> DEFINE popped == CHOOSE h : Equation(h)
<1>8. AddCollateralInput(s0, C) = popped[C]
  BY DEF AddCollateralInput, MapThenFoldSet
<1> HIDE DEF Equation
<1>9. Equation(popped)
  BY <1>7
<1> HIDE DEF popped
<1>10. \A S \in SUBSET C : popped[S] = Value(popped, S)
  BY <1>9 DEF Equation
<1>11. popped[{}] = start
  BY <1>10
<1> HIDE DEF start
<1>12. \A S \in SUBSET C : S # {} => popped[S] = Consider(popped[S \ {PoppedLast(S)}], PoppedLast(S))
  BY <1>10
<1> QED BY <1>8, <1>11, <1>12 DEF start

\* One source: the loop is worth what it has chosen and has passed over nothing it needs.
LEMMA LoopPasses ==
  ASSUME refs \in Nat, NEW s0, NEW C \in SUBSET UTxOs, Summed(s0)
  PROVE  Balanced(AddCollateralInput(s0, C)) /\ Passed(AddCollateralInput(s0, C), s0, C)
<1>1. PICK popped :
        /\ popped[{}] = WithReturn(s0.got, s0.coin, s0.tokens)
        /\ \A S \in SUBSET C : S # {} =>
             popped[S] = Consider(popped[S \ {PoppedLast(S)}], PoppedLast(S))
        /\ popped[C] = AddCollateralInput(s0, C)
  BY LoopExists
<1> DEFINE Right(S) == Balanced(popped[S]) /\ Passed(popped[S], s0, S)
           Wrong == {S \in SUBSET C : ~Right(S)}
           Sizes == {Cardinality(S) : S \in Wrong}
<1>2. Right({})
  <2> DEFINE t == [got |-> s0.got, coin |-> s0.coin, tokens |-> s0.tokens,
                   ret |-> [coin |-> s0.coin - CollateralAmount, tokens |-> s0.tokens]]
  <2>1. popped[{}] = t
    BY <1>1 DEF WithReturn
  <2>2. t.ret = ReturnOf(s0.got)
    BY DEF ReturnOf, Summed, Balanced
  <2>3. Balanced(t)
    BY <2>2 DEF Summed, Balanced, Returns
  <2>4. Passed(t, s0, {})
    BY DEF Passed, EligibleOf
  <2> QED BY <2>1, <2>3, <2>4
<1>3. ASSUME NEW S \in SUBSET C, NEW u \in S, Right(S \ {u}), popped[S] = Consider(popped[S \ {u}], u)
      PROVE  Right(S)
  <2> DEFINE R == S \ {u}
  <2>1. R \in SUBSET UTxOs /\ u \in UTxOs /\ R \cup {u} = S
    OBVIOUS
  <2> HIDE DEF R
  <2>2. Balanced(Consider(popped[R], u)) /\ Passed(Consider(popped[R], u), s0, R \cup {u})
    BY <1>3, <2>1, RoundPasses DEF R
  <2> QED BY <1>3, <2>1, <2>2 DEF R
<1> HIDE DEF Right
<1>4. \A S \in SUBSET C : IsFiniteSet(S) /\ Cardinality(S) \in Nat
  BY CollateralAssumption, FS_Subset, FS_CardinalityType
<1>5. SUFFICES ASSUME Wrong # {} PROVE FALSE
  BY <1>1 DEF Right
<1>6. PICK n \in Sizes : \A m \in Sizes : n <= m
  <2>1. Sizes \in SUBSET Nat /\ Sizes # {}
    BY <1>4, <1>5
  <2> QED BY <2>1, LeastMember
<1>7. PICK S \in Wrong : n = Cardinality(S)
  BY <1>6
<1>8. S # {}
  BY <1>2, <1>7
<1>9. PoppedLast(S) \in S
  BY <1>7, <1>8, PoppedLastIsIn
<1>10. Right(S \ {PoppedLast(S)})
  <2> DEFINE R == S \ {PoppedLast(S)}
  <2>1. R \in SUBSET C /\ Cardinality(R) = n - 1 /\ n \in Nat /\ Cardinality(R) \in Nat
    BY <1>4, <1>7, <1>9, FS_RemoveElement
  <2> HIDE DEF R
  <2>2. R \notin Wrong
    BY <1>6, <2>1
  <2> QED BY <2>1, <2>2 DEF R
<1> QED BY <1>1, <1>3, <1>7, <1>8, <1>9, <1>10

\* What has been chosen when the three sources have been asked: UTxOs that may be
\* collateral, all of them if they do not suffice, and all inputs if they need more.
LEMMA ChosenSound ==
  ASSUME refs \in Nat, NEW ins \in SUBSET UTxOs,
         potential \subseteq UTxOs, wallet \subseteq UTxOs
  PROVE  /\ Chosen(ins) \in SUBSET UTxOs
         /\ Coin(Chosen(ins)) < CollateralAmount =>
              Chosen(ins) = EligibleOf(ins \cup potential \cup wallet)
         /\ Coin(Chosen(ins)) < CollateralAmount \/ ReturnTooSmall(Chosen(ins)) =>
              EligibleOf(ins) \subseteq Chosen(ins)
<1> DEFINE a == AddCollateralInput(Nothing, ins)
           b == IF a.coin < CollateralAmount THEN AddCollateralInput(a, potential) ELSE a
           c == IF b.coin < CollateralAmount THEN AddCollateralInput(b, wallet) ELSE b
<1>1. Summed(Nothing)
  BY NoCoins DEF Summed, Nothing
<1>2. Balanced(a) /\ Passed(a, Nothing, ins)
  BY <1>1, LoopPasses
<1>3. Chosen(ins) = c.got
  BY DEF Chosen
<1> HIDE DEF a
<1>4. Balanced(b) /\ (a.coin < CollateralAmount => Passed(b, a, potential)) /\ a.got \subseteq b.got
  <2>1. Balanced(AddCollateralInput(a, potential)) /\ Passed(AddCollateralInput(a, potential), a, potential)
    BY <1>2, LoopPasses DEF Balanced
  <2> QED BY <1>2, <2>1 DEF Passed
<1>5. ~(a.coin < CollateralAmount) => b = a
  OBVIOUS
<1> HIDE DEF b
<1>6. Balanced(c) /\ (b.coin < CollateralAmount => Passed(c, b, wallet)) /\ b.got \subseteq c.got
  <2>1. Balanced(AddCollateralInput(b, wallet)) /\ Passed(AddCollateralInput(b, wallet), b, wallet)
    BY <1>4, LoopPasses DEF Balanced
  <2> QED BY <1>4, <2>1 DEF Passed
<1>7. ~(b.coin < CollateralAmount) => c = b
  OBVIOUS
<1> HIDE DEF c
<1>8. c.got \in SUBSET UTxOs /\ c.coin = Coin(c.got)
  BY <1>6 DEF Summed, Balanced, EligibleOf
<1>9. ASSUME c.coin < CollateralAmount
      PROVE  c.got = EligibleOf(ins \cup potential \cup wallet)
  <2>1. a.coin < CollateralAmount /\ b.coin < CollateralAmount
    BY <1>5, <1>7, <1>9
  <2>2. /\ EligibleOf(wallet) \subseteq c.got /\ c.got \subseteq b.got \cup EligibleOf(wallet)
        /\ b.got \subseteq c.got
    BY <1>6, <1>9, <2>1 DEF Passed, WantsMore
  <2>3. /\ EligibleOf(potential) \subseteq b.got /\ b.got \subseteq a.got \cup EligibleOf(potential)
        /\ a.got \subseteq b.got
    BY <1>4, <2>1 DEF Passed, WantsMore
  <2>4. EligibleOf(ins) \subseteq a.got /\ a.got \subseteq EligibleOf(ins)
    BY <1>2, <2>1 DEF Passed, WantsMore, Nothing
  <2> QED BY <2>2, <2>3, <2>4 DEF EligibleOf
<1>10. ASSUME a.coin < CollateralAmount
       PROVE  EligibleOf(ins) \subseteq c.got
  BY <1>2, <1>4, <1>6, <1>10 DEF Passed, WantsMore
<1>11. ASSUME ~(a.coin < CollateralAmount), ReturnTooSmall(c.got)
       PROVE  EligibleOf(ins) \subseteq c.got
  <2>1. b = a /\ c = a
    BY <1>5, <1>7, <1>11
  <2> SUFFICES ASSUME ~WantsMore(a)
               PROVE  FALSE
    BY <1>2, <2>1 DEF Passed
  <2> DEFINE r == ReturnOf(a.got)
  <2>2. r = [coin |-> a.coin - CollateralAmount, tokens |-> a.tokens]
    BY <1>2 DEF Summed, Balanced, ReturnOf
  <2>3. a.coin \in Nat /\ a.tokens \in Nat /\ CollateralAmount \in Nat
    <3>1. a.got \in SUBSET UTxOs
      BY <1>2 DEF Summed, Balanced, EligibleOf
    <3> QED BY <1>2, <3>1, CoinSums, AmountTyped DEF Summed, Balanced
  <2>4. r.coin \in Nat /\ r.tokens \in Nat
    BY <1>11, <2>2, <2>3
  <2>5. /\ ShouldAddCollateralReturn(r)
        /\ MinLovelaceOf(r) > Measured(r).coin
    BY <1>11, <2>1 DEF ReturnTooSmall
  <2>6. {OneAda, Threshold, MinPlain, MinTokens} \subseteq Nat
    BY CollateralAssumption
  <2>7. Measured(r) = IF r.coin = 0 THEN [coin |-> OneAda, tokens |-> r.tokens] ELSE r
    BY <2>2 DEF Measured
  <2>8. a.ret = r \/ a.ret = Measured(r)
    BY <1>2 DEF Summed, Balanced, Returns
  <2>9. ~(ShouldAddCollateralReturn(a.ret) /\ 0 <= a.ret.coin /\ a.ret.coin < MinLovelaceOf(a.ret))
    BY DEF WantsMore
  <2> HIDE DEF r
  <2>10. r.coin <= Measured(r).coin /\ Measured(r).coin \in Nat /\ Measured(r).tokens = r.tokens
    BY <2>4, <2>6, <2>7
  <2>11. MinLovelaceOf(Measured(r)) = MinLovelaceOf(r) /\ MinLovelaceOf(r) \in Nat
    BY <2>6, <2>10 DEF MinLovelaceOf
  <2>12. ShouldAddCollateralReturn(Measured(r))
    BY <2>4, <2>5, <2>6, <2>7, <2>10 DEF ShouldAddCollateralReturn
  <2>13. CASE a.ret = r
    BY <2>4, <2>5, <2>9, <2>10, <2>11, <2>13
  <2>14. CASE a.ret = Measured(r)
    BY <2>5, <2>9, <2>10, <2>11, <2>12, <2>14
  <2> QED BY <2>8, <2>13, <2>14
<1>12. ~(a.coin < CollateralAmount) => ~(c.coin < CollateralAmount)
  BY <1>5, <1>7
<1> QED BY <1>3, <1>8, <1>9, <1>10, <1>11, <1>12
-----------------------------------------------------------------------------
(* Keys *)

\* Induction on scripts: among scripts that are wrong, one has no wrong one below it.
LEMMA LeastNested ==
  ASSUME NEW Wrong \in SUBSET NativeScripts, Wrong # {}
  PROVE  \E s \in Wrong : s.subs \cap Wrong = {}
<1>1. PICK nesting \in [NativeScripts -> 0..MaxNesting] :
             \A s \in NativeScripts : \A t \in s.subs : nesting[t] < nesting[s]
  BY ScriptsAssumption
<1> DEFINE Depths == {nesting[s] : s \in Wrong}
<1>2. PICK n \in Depths : \A m \in Depths : n <= m
  <2>1. Depths \in SUBSET Nat /\ Depths # {}
    BY <1>1, ScriptsAssumption
  <2> QED BY <2>1, LeastMember
<1>3. PICK s \in Wrong : n = nesting[s]
  BY <1>2
<1>4. ASSUME NEW t \in s.subs, t \in Wrong
      PROVE  FALSE
  <2>1. nesting[t] < n /\ n <= nesting[t] /\ nesting[t] \in Int /\ n \in Int
    BY <1>1, <1>2, <1>3, <1>4
  <2> QED BY <2>1
<1> QED BY <1>4

\* _dfs collects keys.
LEMMA DfsKeys == \A s \in NativeScripts : Dfs[s] \subseteq Keys
<1> DEFINE Wrong == {s \in NativeScripts : ~(Dfs[s] \subseteq Keys)}
<1> SUFFICES ASSUME Wrong # {} PROVE FALSE
  OBVIOUS
<1>1. PICK s \in Wrong : s.subs \cap Wrong = {}
  BY LeastNested
<1>2. \A t \in s.subs : t \in NativeScripts /\ Dfs[t] \subseteq Keys
  BY <1>1, ScriptsAssumption
<1>3. UNION {Dfs[t] : t \in s.subs} \subseteq Keys
  BY <1>2
<1>4. s.op = "pubkey" => s.key \in Keys
  BY ScriptsAssumption
<1>5. Dfs[s] = IF s.op = "pubkey" THEN {s.key}
               ELSE IF s.op \in {"all", "any"} THEN UNION {Dfs[t] : t \in s.subs} ELSE {}
  BY DfsExists
<1> QED BY <1>3, <1>4, <1>5

\* The keys that a transaction is taken to need are keys.
LEMMA VkeysAreKeys ==
  ASSUME NEW ins \in SUBSET UTxOs, NEW coll \in SUBSET UTxOs,
         NEW req \in {None} \cup SUBSET Keys, items \subseteq Items, natives \subseteq NativeScripts
  PROVE  BuildRequiredVkeys(ins, coll, req) \subseteq Keys
<1>1. InputVkeyHashes(ins, coll) \subseteq Keys
  BY KeysAssumption DEF InputVkeyHashes
<1>2. RequiredSignerVkeyHashes(req) \subseteq Keys
  BY DEF RequiredSignerVkeyHashes
<1>3. NativeScriptsVkeyHashes \subseteq Keys
  BY DfsKeys DEF NativeScriptsVkeyHashes
<1>4. ASSUME NEW kinds
      PROVE  KeysOfKinds(kinds) \subseteq Keys
  BY KeysAssumption DEF KeysOfKinds
<1>5. CertificateVkeyHashes \cup WithdrawalVkeyHashes \cup VoteVkeyHashes \subseteq Keys
  BY <1>4 DEF CertificateVkeyHashes, WithdrawalVkeyHashes, VoteVkeyHashes
<1> QED BY <1>1, <1>2, <1>3, <1>5 DEF BuildRequiredVkeys

\* A script without an n-of-k script is still satisfied when only those who are
\* named in it sign.
LEMMA NamedKeysSatisfy ==
  ASSUME NEW W \in SUBSET Keys, NEW V \in SUBSET W
  PROVE  \A s \in NativeScripts :
           WithoutNofK(s) /\ W \in SatisfiedBy[s] /\ W \cap Dfs[s] \subseteq V => V \in SatisfiedBy[s]
<1> DEFINE Right(s) ==
      WithoutNofK(s) /\ W \in SatisfiedBy[s] /\ W \cap Dfs[s] \subseteq V => V \in SatisfiedBy[s]
           Wrong == {s \in NativeScripts : ~Right(s)}
<1> SUFFICES ASSUME Wrong # {} PROVE FALSE
  OBVIOUS
<1>1. PICK s \in Wrong : s.subs \cap Wrong = {}
  BY LeastNested
<1>2. s \in NativeScripts /\ WithoutNofK(s) /\ W \in SatisfiedBy[s] /\ W \cap Dfs[s] \subseteq V
      /\ V \notin SatisfiedBy[s]
  BY <1>1
<1>3. \A t \in s.subs : t \in NativeScripts /\ Right(t)
  BY <1>1, <1>2, ScriptsAssumption
<1>4. Within[s] = {s} \cup UNION {Within[t] : t \in s.subs}
  BY <1>2, WithinExists
<1>5. s.op # "nofk" /\ \A t \in s.subs : WithoutNofK(t)
  BY <1>2, <1>4 DEF WithoutNofK
<1> DEFINE Signs(X) ==
      /\ s.op = "pubkey" => s.key \in X
      /\ s.op = "all" => \A t \in s.subs : X \in SatisfiedBy[t]
      /\ s.op = "any" => \E t \in s.subs : X \in SatisfiedBy[t]
      /\ s.op = "nofk" => Cardinality({t \in s.subs : X \in SatisfiedBy[t]}) >= s.n
<1>6. SatisfiedBy[s] = {X \in SUBSET Keys : Signs(X)}
  BY <1>2, SatisfiedByExists
<1>7. Signs(W) /\ ~Signs(V)
  <2> HIDE DEF Signs
  <2> QED BY <1>2, <1>6
<1>8. /\ s.op = "pubkey" => s.key \in W
      /\ s.op = "all" => \A t \in s.subs : W \in SatisfiedBy[t]
      /\ s.op = "any" => \E t \in s.subs : W \in SatisfiedBy[t]
  BY <1>7
<1>9. ~ /\ s.op = "pubkey" => s.key \in V
        /\ s.op = "all" => \A t \in s.subs : V \in SatisfiedBy[t]
        /\ s.op = "any" => \E t \in s.subs : V \in SatisfiedBy[t]
  BY <1>5, <1>7
<1>10. Dfs[s] = IF s.op = "pubkey" THEN {s.key}
               ELSE IF s.op \in {"all", "any"} THEN UNION {Dfs[t] : t \in s.subs} ELSE {}
  BY <1>2, DfsExists
<1>11. CASE s.op = "pubkey"
  BY <1>2, <1>8, <1>9, <1>10, <1>11
<1>12. CASE s.op \in {"all", "any"}
  <2>1. \A t \in s.subs : Dfs[t] \subseteq Dfs[s]
    BY <1>10, <1>12
  <2>2. \A t \in s.subs : W \in SatisfiedBy[t] => V \in SatisfiedBy[t]
    BY <1>2, <1>3, <1>5, <2>1
  <2> QED BY <1>8, <1>9, <1>12, <2>2
<1> QED BY <1>9, <1>11, <1>12

\* The scripts within a script are native scripts.
LEMMA WithinAreScripts == \A s \in NativeScripts : Within[s] \subseteq NativeScripts
<1> DEFINE Wrong == {s \in NativeScripts : ~(Within[s] \subseteq NativeScripts)}
<1> SUFFICES ASSUME Wrong # {} PROVE FALSE
  OBVIOUS
<1>1. PICK s \in Wrong : s.subs \cap Wrong = {}
  BY LeastNested
<1>2. \A t \in s.subs : t \in NativeScripts /\ Within[t] \subseteq NativeScripts
  BY <1>1, ScriptsAssumption
<1>3. Within[s] = {s} \cup UNION {Within[t] : t \in s.subs}
  BY <1>1, WithinExists
<1> QED BY <1>1, <1>2, <1>3

\* _dfs collects every key that a script names, but for those in n-of-k scripts.
LEMMA NamedKeysCollected ==
  \A s \in NativeScripts : \A t \in Within[s] :
    t.op = "pubkey" =>
      \/ t.key \in Dfs[s]
      \/ \E n \in Within[s] : n.op = "nofk" /\ t \in Within[n]
<1> DEFINE Right(s) ==
      \A t \in Within[s] :
        t.op = "pubkey" =>
          \/ t.key \in Dfs[s]
          \/ \E n \in Within[s] : n.op = "nofk" /\ t \in Within[n]
           Wrong == {s \in NativeScripts : ~Right(s)}
<1> SUFFICES ASSUME Wrong # {} PROVE FALSE
  OBVIOUS
<1>1. PICK s \in Wrong : s.subs \cap Wrong = {}
  BY LeastNested
<1>2. s \in NativeScripts /\ ~Right(s)
  BY <1>1
<1>3. \A t \in s.subs : t \in NativeScripts /\ Right(t)
  BY <1>1, <1>2, ScriptsAssumption
<1> HIDE DEF Wrong
<1>4. Within[s] = {s} \cup UNION {Within[t] : t \in s.subs}
  BY <1>2, WithinExists
<1>5. Dfs[s] = IF s.op = "pubkey" THEN {s.key}
               ELSE IF s.op \in {"all", "any"} THEN UNION {Dfs[t] : t \in s.subs} ELSE {}
  BY <1>2, DfsExists
<1>6. CASE s.op \notin {"all", "any", "nofk"}
  <2>1. s.subs = {}
    BY <1>2, <1>6, ScriptsAssumption
  <2>2. Within[s] = {s}
    BY <1>4, <2>1
  <2> QED BY <1>2, <1>5, <2>2
<1>7. CASE s.op = "nofk"
  BY <1>2, <1>4, <1>7
<1>8. CASE s.op \in {"all", "any"}
  <2>1. PICK t \in Within[s] :
          t.op = "pubkey" /\ t.key \notin Dfs[s]
            /\ ~\E n \in Within[s] : n.op = "nofk" /\ t \in Within[n]
    BY <1>2
  <2>2. PICK x \in s.subs : t \in Within[x]
    BY <1>4, <1>8, <2>1
  <2>3. Dfs[x] \subseteq Dfs[s] /\ Within[x] \subseteq Within[s]
    BY <1>4, <1>5, <1>8
  <2> QED BY <1>3, <2>1, <2>2, <2>3
<1> QED BY <1>6, <1>7, <1>8

\* A byte is the sum of its bits.
LEMMA BitsOfByte ==
  ASSUME NEW i \in 0..255
  PROVE  /\ i = ((i \div 1) % 2) + 2 * ((i \div 2) % 2) + 4 * ((i \div 4) % 2)
                  + 8 * ((i \div 8) % 2) + 16 * ((i \div 16) % 2) + 32 * ((i \div 32) % 2)
                  + 64 * ((i \div 64) % 2) + 128 * ((i \div 128) % 2)
         /\ {(i \div 1) % 2, (i \div 2) % 2, (i \div 4) % 2, (i \div 8) % 2, (i \div 16) % 2,
              (i \div 32) % 2, (i \div 64) % 2, (i \div 128) % 2} \subseteq {0, 1}
OBVIOUS

\* The masks leave every bit of the number of a witness somewhere.
LEMMA FakeWitnessesDiffer ==
  ASSUME NEW i \in 0..255, NEW j \in 0..255, FakeWitness(i) = FakeWitness(j)
  PROVE  i = j
<1>1. /\ Bits(i) \cap {0, 3, 4, 5, 6, 7} = Bits(j) \cap {0, 3, 4, 5, 6, 7}
      /\ Bits(i) \cap {0, 2, 3, 4, 6} = Bits(j) \cap {0, 2, 3, 4, 6}
      /\ Bits(i) \cap {0, 1} = Bits(j) \cap {0, 1}
  BY DEF FakeWitness
<1>2. \A k \in 0..7 : k \in Bits(i) <=> k \in Bits(j)
  BY <1>1
<1>3. \A k \in 0..7 : ((i \div 2^k) % 2 = 1) <=> ((j \div 2^k) % 2 = 1)
  BY <1>2 DEF Bits
<1>4. 2^0 = 1 /\ 2^1 = 2 /\ 2^2 = 4 /\ 2^3 = 8 /\ 2^4 = 16 /\ 2^5 = 32 /\ 2^6 = 64 /\ 2^7 = 128
  OBVIOUS
<1>5. /\ ((i \div 1) % 2 = 1) <=> ((j \div 1) % 2 = 1)
      /\ ((i \div 2) % 2 = 1) <=> ((j \div 2) % 2 = 1)
      /\ ((i \div 4) % 2 = 1) <=> ((j \div 4) % 2 = 1)
      /\ ((i \div 8) % 2 = 1) <=> ((j \div 8) % 2 = 1)
      /\ ((i \div 16) % 2 = 1) <=> ((j \div 16) % 2 = 1)
      /\ ((i \div 32) % 2 = 1) <=> ((j \div 32) % 2 = 1)
      /\ ((i \div 64) % 2 = 1) <=> ((j \div 64) % 2 = 1)
      /\ ((i \div 128) % 2 = 1) <=> ((j \div 128) % 2 = 1)
  BY <1>3, <1>4
<1> DEFINE bi(d) == (i \div d) % 2
           bj(d) == (j \div d) % 2
<1>6. i = bi(1) + 2 * bi(2) + 4 * bi(4) + 8 * bi(8) + 16 * bi(16) + 32 * bi(32) + 64 * bi(64)
            + 128 * bi(128)
  BY BitsOfByte
<1>7. j = bj(1) + 2 * bj(2) + 4 * bj(4) + 8 * bj(8) + 16 * bj(16) + 32 * bj(32) + 64 * bj(64)
            + 128 * bj(128)
  BY BitsOfByte
<1>8. {bi(1), bi(2), bi(4), bi(8), bi(16), bi(32), bi(64), bi(128)} \subseteq {0, 1}
  BY BitsOfByte
<1>9. {bj(1), bj(2), bj(4), bj(8), bj(16), bj(32), bj(64), bj(128)} \subseteq {0, 1}
  BY BitsOfByte
<1>10. /\ (bi(1) = 1) <=> (bj(1) = 1)
       /\ (bi(2) = 1) <=> (bj(2) = 1)
       /\ (bi(4) = 1) <=> (bj(4) = 1)
       /\ (bi(8) = 1) <=> (bj(8) = 1)
       /\ (bi(16) = 1) <=> (bj(16) = 1)
       /\ (bi(32) = 1) <=> (bj(32) = 1)
       /\ (bi(64) = 1) <=> (bj(64) = 1)
       /\ (bi(128) = 1) <=> (bj(128) = 1)
  BY <1>5
<1> HIDE DEF bi, bj
<1>11. /\ bi(1) = bj(1) /\ bi(2) = bj(2) /\ bi(4) = bj(4) /\ bi(8) = bj(8)
       /\ bi(16) = bj(16) /\ bi(32) = bj(32) /\ bi(64) = bj(64) /\ bi(128) = bj(128)
  BY <1>8, <1>9, <1>10
<1> QED BY <1>8, <1>6, <1>7, <1>9, <1>11

\* As many fake witnesses as were counted.
LEMMA FakeWitnessesCounted ==
  ASSUME NEW n \in 0..256
  PROVE  Cardinality(FakeVkeyWitnesses(n)) = n
<1> DEFINE witness == [i \in 0..n - 1 |-> FakeWitness(i)]
           W == FakeVkeyWitnesses(n)
<1>1. IsFiniteSet(0..n - 1) /\ Cardinality(0..n - 1) = n
  BY FS_Interval
<1>2. W = {witness[i] : i \in 0..n - 1}
  BY DEF FakeVkeyWitnesses
<1>3. \A i, j \in 0..n - 1 : witness[i] = witness[j] => i = j
  <2> TAKE i, j \in 0..n - 1
  <2>1. i \in 0..255 /\ j \in 0..255 /\ witness[i] = FakeWitness(i) /\ witness[j] = FakeWitness(j)
    OBVIOUS
  <2> HIDE DEF witness
  <2> QED BY <2>1, FakeWitnessesDiffer
<1> HIDE DEF W
<1>4. witness \in Bijection(0..n - 1, W)
  <2>1. witness \in [0..n - 1 -> W]
    BY <1>2
  <2> HIDE DEF witness
  <2> QED BY <1>2, <1>3, <2>1 DEF Bijection, Injection, Surjection, IsInjective
<1> HIDE DEF witness
<1>5. Cardinality(0..n - 1) = Cardinality(W)
  BY <1>1, <1>4, FS_Bijection DEF ExistsBijection
<1> QED BY <1>1, <1>5 DEF W

-----------------------------------------------------------------------------
(* The invariant *)

SigningInv == TypeOK /\ SignedInv /\ CollateralAccounted

\* What an edit leaves.
LEMMA EditSafe ==
  ASSUME SigningInv, Edit
  PROVE  SigningInv'
<1>1. tx' = NoTx
  BY DEF Edit, Edited, AddInput, AddPotential, Fund, SetCollaterals, AddPlutusScript,
         AddReferenceScript, AddItem, ListNativeScript, AttachNativeScript,
         SetRequiredSigners, SetWitnessOverride
<1>2. SignedInv' /\ CollateralAccounted'
  BY <1>1 DEF NoTx, SignedInv, CollateralAccounted
<1>3. TypeOK'
  BY DEF SigningInv, TypeOK, Edit, AddInput, AddPotential, Fund, SetCollaterals, AddPlutusScript,
         AddReferenceScript, AddItem, ListNativeScript, AttachNativeScript,
         SetRequiredSigners, SetWitnessOverride, sourceVars, signerVars
<1> QED BY <1>2, <1>3 DEF SigningInv

\* The collaterals after a build, and what the builder's signers are set to.
LEMMA BuildTyped ==
  ASSUME TypeOK, NEW keys \in SUBSET Keys, NEW auto, NEW ins \in SUBSET UTxOs, NEW address
  PROVE  /\ CollateralsOf(address, ins) \in SUBSET UTxOs
         /\ SignersGiven(keys, auto) \in {None} \cup SUBSET Keys
         /\ SignersSet(keys, auto, ins) \in {None} \cup SUBSET Keys
<1>1. CollateralsOf(address, ins) \in SUBSET UTxOs
  BY ChosenSound DEF CollateralsOf, TypeOK
<1>2. SignersGiven(keys, auto) \in {None} \cup SUBSET Keys
  BY DEF SignersGiven, TypeOK
<1>3. InputVkeyHashes(ins, collaterals) \subseteq Keys
  BY KeysAssumption DEF InputVkeyHashes, TypeOK
<1> QED BY <1>1, <1>2, <1>3 DEF SignersSet
\* What a build leaves.
LEMMA BuildSafe ==
  ASSUME SigningInv, NEW keys \in SUBSET Keys, NEW force, NEW auto, NEW address,
         NEW chosen \in SUBSET potential, BuildAndSign(keys, force, auto, address, chosen)
  PROVE  SigningInv'
<1> DEFINE ins == inputs \cup chosen
           S == CollateralsOf(address, ins)
           vkeys == BuildRequiredVkeys(ins, collaterals', required')
<1>1. /\ inputs' = ins /\ required' = SignersSet(keys, auto, ins) /\ collaterals' = S
      /\ UNCHANGED <<potential, wallet, refs, plutus, items, natives, attached, override>>
  BY DEF BuildAndSign, SetCollateralReturn, signerVars
<1>2. ins \in SUBSET UTxOs /\ refs \in Nat /\ potential \subseteq UTxOs /\ wallet \subseteq UTxOs
  BY DEF SigningInv, TypeOK
<1>3. S \in SUBSET UTxOs /\ required' \in {None} \cup SUBSET Keys
  BY <1>1, <1>2, BuildTyped DEF SigningInv
<1>4. TypeOK'
  BY <1>1, <1>2, <1>3 DEF SigningInv, TypeOK
<1>5. SignedInv'
  <2> SUFFICES ASSUME tx'.status = "signed"
               PROVE  SignedInv'
    BY DEF SignedInv
  <2>1. /\ tx'.given = keys /\ tx'.forced = force
        /\ tx'.witnesses = KeysThatSign(keys, force, vkeys)
        /\ tx'.counted = Cardinality(FakeVkeyWitnesses(WitnessCount(vkeys)))
    BY DEF BuildAndSign, Raised
  <2>2. Vkeys' = vkeys
    BY <1>1 DEF Vkeys, BuildRequiredVkeys, InputVkeyHashes, RequiredSignerVkeyHashes,
                NativeScriptsVkeyHashes, CertificateVkeyHashes, WithdrawalVkeyHashes,
                VoteVkeyHashes, KeysOfKinds
  <2>3. FakeVkeyWitnesses(WitnessCount(Vkeys))' = FakeVkeyWitnesses(WitnessCount(vkeys))
    BY <1>1, <2>2 DEF WitnessCount
  <2> QED BY <2>1, <2>2, <2>3 DEF SignedInv, KeysThatSign
<1> HIDE DEF ins, vkeys
<1>6. CollateralAmount' = CollateralAmount /\ NeedsCollateral(address)' = NeedsCollateral(address)
  BY <1>1 DEF CollateralAmount, NeedsCollateral
<1>7. \A T : ReturnOf(T)' = ReturnOf(T) /\ Coin(T)' = Coin(T)
  BY <1>6 DEF ReturnOf, Coin
<1>8. Coin(S) \in Nat /\ NumberOfTokens(S) \in Nat /\ CollateralAmount \in Nat
  BY <1>2, <1>3, CoinSums, AmountTyped
<1> HIDE DEF S
<1>9. ASSUME tx'.status = "signed", NeedsCollateral(tx.address)'
      PROVE  /\ Coin(collaterals') >= CollateralAmount'
             /\ \/ StaleReturn'
                \/ /\ collateralReturn' # None
                   /\ collateralReturn'.coin + totalCollateral' = Coin(collaterals')
                   /\ collateralReturn'.tokens = NumberOfTokens(collaterals')
                   /\ \/ collateralReturn'.coin >= MinLovelaceOf(collateralReturn')
                      \/ collateralReturn'.coin = 0 /\ MinTokens <= OneAda
  <2>1. tx'.address = address /\ tx'.before[2] = collateralReturn
    BY <1>9 DEF BuildAndSign, Raised
  <2>2. ~CollateralRaises(address, S)
    BY <1>1, <1>9 DEF BuildAndSign, Raised
  <2>3. NeedsCollateral(address)
    BY <1>1, <1>9, <2>1 DEF NeedsCollateral
  <2>4. ~(Coin(S) < CollateralAmount) /\ ~ReturnTooSmall(S)
    BY <2>2, <2>3 DEF CollateralRaises
  <2>5. CASE ~ShouldAddCollateralReturn(ReturnOf(S))
    <3>1. collateralReturn' = collateralReturn
      BY <1>1, <2>5 DEF BuildAndSign, SetCollateralReturn, S, ins
    <3>2. ~ShouldAddCollateralReturn(ReturnOf(collaterals))'
      BY <1>1, <1>7, <2>5 DEF ShouldAddCollateralReturn, ReturnOf
    <3>3. StaleReturn'
      BY <2>1, <3>1, <3>2 DEF StaleReturn
    <3> QED BY <1>1, <1>6, <1>8, <2>4, <3>3
  <2>6. CASE ShouldAddCollateralReturn(ReturnOf(S))
    <3>1. collateralReturn' = ReturnOf(S) /\ totalCollateral' = CollateralAmount
      BY <1>1, <2>2, <2>3, <2>6 DEF BuildAndSign, SetCollateralReturn, S, ins
    <3>2. ReturnOf(S) = [coin |-> Coin(S) - CollateralAmount, tokens |-> NumberOfTokens(S)]
      BY DEF ReturnOf
    <3>3. ReturnOf(S) \in [coin : Nat, tokens : Nat]
      BY <1>8, <2>4, <3>2
    <3>4. collateralReturn' # None
      BY <3>1, <3>3, CollateralAssumption
    <3> DEFINE r == ReturnOf(S)
    <3>5. ~(MinLovelaceOf(r) > Measured(r).coin)
      BY <2>4, <2>6 DEF ReturnTooSmall
    <3>6. r.coin \in Nat /\ r.tokens \in Nat
      BY <3>3
    <3>7. Measured(r) = IF r.coin = 0 THEN [coin |-> OneAda, tokens |-> r.tokens] ELSE r
      BY <3>2 DEF Measured
    <3>8. r.coin + CollateralAmount = Coin(S) /\ r.tokens = NumberOfTokens(S)
      BY <1>8, <3>2
    <3> HIDE DEF r
    <3>9. {OneAda, Threshold, MinPlain, MinTokens} \subseteq Nat
      BY CollateralAssumption
    <3>10. r.coin >= MinLovelaceOf(r) \/ (r.coin = 0 /\ MinTokens <= OneAda)
      <4>1. CASE r.coin = 0
        <5>1. r.tokens > 0
          BY <2>6, <3>6, <3>9, <4>1 DEF ShouldAddCollateralReturn, r
        <5>2. MinLovelaceOf(r) = MinTokens /\ Measured(r).coin = OneAda
          BY <3>7, <4>1, <5>1 DEF MinLovelaceOf
        <5> QED BY <3>5, <3>9, <4>1, <5>2
      <4>2. CASE r.coin # 0
        <5>1. Measured(r).coin = r.coin /\ MinLovelaceOf(r) \in Nat
          BY <3>7, <3>9, <4>2 DEF MinLovelaceOf
        <5> QED BY <3>5, <3>6, <5>1
      <4> QED BY <4>1, <4>2
    <3>11. MinLovelaceOf(collateralReturn') = MinLovelaceOf(r)
      BY <3>1 DEF r
    <3> QED BY <1>1, <1>6, <1>8, <2>4, <3>1, <3>4, <3>8, <3>10, <3>11 DEF r
  <2> QED BY <2>5, <2>6
<1>10. ASSUME tx'.status = "raised", tx'.reason = "collateral", tx'.before = {}
       PROVE  /\ Coin(collaterals') < CollateralAmount' =>
                   Coin(EligibleOf(inputs' \cup potential' \cup wallet')) < CollateralAmount'
              /\ EligibleOf(inputs') \subseteq collaterals'
  <2>1. collaterals = {} /\ CollateralRaises(address, S)
    BY <1>1, <1>10 DEF BuildAndSign, Raised
  <2>2. NeedsCollateral(address) /\ (Coin(S) < CollateralAmount \/ ReturnTooSmall(S))
    BY <2>1 DEF CollateralRaises
  <2>3. S = Chosen(ins)
    BY <2>1, <2>2 DEF S, CollateralsOf
  <2>4. /\ Coin(S) < CollateralAmount => S = EligibleOf(ins \cup potential \cup wallet)
        /\ EligibleOf(ins) \subseteq S
    BY <1>2, <2>2, <2>3, ChosenSound DEF ins
  <2> QED BY <1>1, <1>6, <2>4
<1>11. CollateralAccounted'
  <2>1. CollateralAccounted' <=>
          /\ (tx'.status = "signed" /\ NeedsCollateral(tx.address)' =>
                /\ Coin(collaterals') >= CollateralAmount'
                /\ \/ StaleReturn'
                   \/ /\ collateralReturn' # None
                      /\ collateralReturn'.coin + totalCollateral' = Coin(collaterals')
                      /\ collateralReturn'.tokens = NumberOfTokens(collaterals')
                      /\ \/ collateralReturn'.coin >= MinLovelaceOf(collateralReturn')
                         \/ collateralReturn'.coin = 0 /\ MinTokens <= OneAda)
          /\ (tx'.status = "raised" /\ tx'.reason = "collateral" /\ tx'.before = {} =>
                /\ Coin(collaterals') < CollateralAmount' =>
                     Coin(EligibleOf(inputs' \cup potential' \cup wallet')) < CollateralAmount'
                /\ EligibleOf(inputs') \subseteq collaterals')
    BY DEF CollateralAccounted, EligibleOf
  <2> QED BY <1>9, <1>10, <2>1
<1> QED BY <1>4, <1>5, <1>11 DEF SigningInv
-----------------------------------------------------------------------------
(* The theorems *)

\* Before anything is given to the builder.
LEMMA InitSafe == SigningInit => SigningInv
<1> SUFFICES ASSUME SigningInit PROVE SigningInv
  OBVIOUS
<1>1. tx = NoTx
  BY DEF SigningInit
<1>2. SignedInv /\ CollateralAccounted
  BY <1>1 DEF NoTx, SignedInv, CollateralAccounted
<1>3. TypeOK
  BY DEF SigningInit, TypeOK
<1> QED BY <1>2, <1>3 DEF SigningInv

\* The builder is what its edits and its last build have made of it: the types, what
\* a signed transaction was made from, and the account of its collateral
\* (txbuilder.py:1285-1288, 1477-1612, 1669-1745).
THEOREM SigningInvariant == SigningSpec => []SigningInv
<1>1. ASSUME SigningInv, [Edit \/ Build]_vars
      PROVE  SigningInv'
  <2>1. CASE UNCHANGED vars
    <3>1. UNCHANGED <<inputs, potential, wallet, refs, plutus, collaterals, collateralReturn,
                      totalCollateral, items, natives, attached, override, required, tx>>
      BY <2>1 DEF vars, sourceVars, collateralVars, signerVars
    <3>2. TypeOK'
      BY <1>1, <3>1 DEF SigningInv, TypeOK
    <3>3. SignedInv'
      <4>1. Vkeys' = Vkeys /\ FakeVkeyWitnesses(WitnessCount(Vkeys))' = FakeVkeyWitnesses(WitnessCount(Vkeys))
        BY <3>1 DEF Vkeys, BuildRequiredVkeys, InputVkeyHashes, RequiredSignerVkeyHashes,
                    NativeScriptsVkeyHashes, CertificateVkeyHashes, WithdrawalVkeyHashes,
                    VoteVkeyHashes, KeysOfKinds, WitnessCount
      <4> QED BY <1>1, <3>1, <4>1 DEF SigningInv, SignedInv, KeysThatSign
    <3>4. CollateralAccounted'
      BY <1>1, <3>1 DEF SigningInv, CollateralAccounted, NeedsCollateral, CollateralAmount,
                        StaleReturn, ReturnOf, ShouldAddCollateralReturn
    <3> QED BY <3>2, <3>3, <3>4 DEF SigningInv
  <2>2. CASE Edit
    BY <1>1, <2>2, EditSafe
  <2>3. ASSUME NEW keys \in SUBSET Keys, NEW auto, SelectionRaises(keys, auto)
        PROVE  SigningInv'
    <3>1. /\ required' = SignersGiven(keys, auto) /\ tx' = Raised("selection", collaterals)
          /\ UNCHANGED <<inputs, potential, wallet, refs, plutus, collaterals, items, natives,
                         attached, override>>
      BY <2>3 DEF SelectionRaises, sourceVars, collateralVars, signerVars
    <3>2. TypeOK'
      BY <1>1, <2>3, <3>1, BuildTyped DEF SigningInv, TypeOK
    <3>3. tx'.status = "raised" /\ tx'.reason = "selection"
      BY <3>1 DEF Raised
    <3>4. SignedInv' /\ CollateralAccounted'
      BY <3>3 DEF SignedInv, CollateralAccounted
    <3> QED BY <3>2, <3>4 DEF SigningInv
  <2>4. CASE Build
    BY <1>1, <2>3, <2>4, BuildSafe DEF Build
  <2> QED BY <1>1, <2>1, <2>2, <2>4
<1> QED BY <1>1, InitSafe, PTL DEF SigningSpec

\* What a transaction needs collateral for is covered, what is beyond it is returned,
\* and a build gives up only when the candidates do not suffice
\* (txbuilder.py:1507-1612).
THEOREM CollateralIsAccounted == SigningSpec => []CollateralAccounted
<1>1. SigningInv => CollateralAccounted
  BY DEF SigningInv
<1> QED BY <1>1, SigningInvariant, PTL

\* The keys that the ledger asks for are among those that are collected.
LEMMA NeededAreCollected == Needed(Counted) \subseteq Vkeys
<1>1. KeysOfKinds(Counted) \subseteq CertificateVkeyHashes \cup WithdrawalVkeyHashes \cup VoteVkeyHashes
  BY DEF KeysOfKinds, Counted, CertificateVkeyHashes, WithdrawalVkeyHashes, VoteVkeyHashes
<1>2. {u.owner : u \in inputs \cup collaterals} \ {Script} \subseteq InputVkeyHashes(inputs, collaterals)
  BY DEF InputVkeyHashes
<1> QED BY <1>1, <1>2 DEF Needed, Vkeys, BuildRequiredVkeys

\* The keys that sign are those that have to: a given key that the ledger asks for
\* signs, and listed native scripts stay satisfied (txbuilder.py:880-1098, 1725-1745).
THEOREM SignaturesSuffice == SigningSpec => []WitnessesSuffice
<1>1. SigningInv => WitnessesSuffice
  <2> SUFFICES ASSUME SigningInv, tx.status = "signed"
               PROVE  WitnessesSuffice
    BY DEF WitnessesSuffice
  <2>1. tx.given \subseteq Keys /\ tx.witnesses = IF tx.forced THEN tx.given ELSE tx.given \cap Vkeys
    BY DEF SigningInv, SignedInv, KeysThatSign
  <2>2. tx.witnesses \subseteq tx.given /\ tx.given \cap Vkeys \subseteq tx.witnesses
    BY <2>1
  <2>3. Needed(Counted) \cap tx.given \subseteq tx.witnesses
    BY <2>2, NeededAreCollected
  <2>4. ASSUME NEW s \in natives, WithoutNofK(s), tx.given \in SatisfiedBy[s]
        PROVE  tx.witnesses \in SatisfiedBy[s]
    <3>1. s \in NativeScripts
      BY DEF SigningInv, TypeOK
    <3>2. Dfs[s] \subseteq Vkeys
      BY DEF Vkeys, BuildRequiredVkeys, NativeScriptsVkeyHashes
    <3>3. tx.given \cap Dfs[s] \subseteq tx.witnesses
      BY <2>2, <3>2
    <3> QED BY <2>1, <2>2, <2>4, <3>1, <3>3, NamedKeysSatisfy
  <2> QED BY <2>3, <2>4 DEF WitnessesSuffice
<1> QED BY <1>1, SigningInvariant, PTL

\* Every key that the ledger may ask for is collected, but for the uncollected ones.
LEMMA AskedAreCollected ==
  ASSUME TypeOK
  PROVE  Asked \subseteq Vkeys \cup Uncollected
<1>1. Needed(Counted) \subseteq Vkeys
  BY NeededAreCollected
<1>2. Needed(Counted \cup OtherCertificates) \subseteq Needed(Counted) \cup KeysOfKinds(OtherCertificates)
  BY DEF Needed, KeysOfKinds
<1>3. ASSUME NEW s \in natives
      PROVE  Dfs[s] \subseteq Vkeys
  BY DEF Vkeys, BuildRequiredVkeys, NativeScriptsVkeyHashes
<1>4. ASSUME NEW k \in Named(natives)
      PROVE  k \in Vkeys \/ k \in Named(NofKWithin(natives))
  <2>1. PICK s \in natives : \E t \in Within[s] : t.op = "pubkey" /\ k = t.key
    BY <1>4 DEF Named
  <2>2. PICK t \in Within[s] : t.op = "pubkey" /\ k = t.key
    BY <2>1
  <2>3. s \in NativeScripts
    BY DEF TypeOK
  <2>4. CASE t.key \in Dfs[s]
    BY <1>3, <2>2, <2>4
  <2>5. CASE \E n \in Within[s] : n.op = "nofk" /\ t \in Within[n]
    BY <2>2, <2>5 DEF Named, NofKWithin
  <2> QED BY <2>2, <2>3, <2>4, <2>5, NamedKeysCollected
<1>5. Named(natives \cup attached) \subseteq Named(natives) \cup Named(attached)
  BY DEF Named
<1> QED BY <1>1, <1>2, <1>4, <1>5 DEF Asked, Uncollected

\* Those who sign are finitely many, and so are the uncollected keys.
LEMMA SignersFinite ==
  ASSUME SigningInv, tx.status = "signed"
  PROVE  /\ IsFiniteSet(Vkeys) /\ IsFiniteSet(tx.witnesses)
         /\ IsFiniteSet(Uncollected) /\ Cardinality(Vkeys) \in 0..256
<1>1. Vkeys \subseteq Keys
  BY VkeysAreKeys DEF SigningInv, TypeOK, Vkeys
<1>2. tx.witnesses \subseteq Keys
  BY DEF SigningInv, SignedInv, KeysThatSign
<1>3. Uncollected \subseteq Keys
  <2>1. natives \subseteq NativeScripts /\ attached \subseteq NativeScripts
        /\ items \subseteq Items
    BY DEF SigningInv, TypeOK
  <2>2. KeysOfKinds(OtherCertificates) \subseteq Keys
    BY <2>1, KeysAssumption DEF KeysOfKinds
  <2>3. \A s \in NativeScripts : Within[s] \subseteq NativeScripts
    BY WithinAreScripts
  <2>4. ASSUME NEW S \in SUBSET NativeScripts
        PROVE  Named(S) \subseteq Keys
    BY <2>3, ScriptsAssumption DEF Named
  <2>5. NofKWithin(natives) \in SUBSET NativeScripts
    BY <2>1, <2>3 DEF NofKWithin
  <2> QED BY <2>1, <2>2, <2>4, <2>5 DEF Uncollected
<1>4. IsFiniteSet(Keys) /\ Cardinality(Keys) <= 256
  BY KeysAssumption
<1>5. Cardinality(Vkeys) <= Cardinality(Keys) /\ IsFiniteSet(Vkeys)
  BY <1>1, <1>4, FS_Subset
<1>6. Cardinality(Vkeys) \in Nat /\ Cardinality(Keys) \in Nat
  BY <1>4, <1>5, FS_CardinalityType
<1> QED BY <1>2, <1>3, <1>4, <1>5, <1>6, FS_Subset

\* Signatures among those collected and some others are no more than both.
LEMMA AtMostBoth ==
  ASSUME NEW S, NEW T, NEW E, IsFiniteSet(T), IsFiniteSet(E), S \subseteq T \cup E
  PROVE  Cardinality(S) <= Cardinality(T) + Cardinality(E)
<1>1. /\ IsFiniteSet(T \cup E) /\ IsFiniteSet(T \cap E)
      /\ Cardinality(T \cup E) = Cardinality(T) + Cardinality(E) - Cardinality(T \cap E)
  BY FS_Union, FS_Intersection
<1>2. Cardinality(S) <= Cardinality(T \cup E) /\ IsFiniteSet(S)
  BY <1>1, FS_Subset
<1>3. /\ Cardinality(T) \in Nat /\ Cardinality(E) \in Nat /\ Cardinality(T \cap E) \in Nat
      /\ Cardinality(S) \in Nat /\ Cardinality(T \cup E) \in Nat
  BY <1>1, <1>2, FS_CardinalityType
<1> QED BY <1>1, <1>2, <1>3

\* The fee is estimated with a different witness for every key that the ledger may ask
\* for, but for the uncollected ones and for forced keys that nobody asks for
\* (txbuilder.py:880-1137).
THEOREM FeeCoversSignatures == SigningSpec => []FeeCoversWitnesses
<1>1. SigningInv => FeeCoversWitnesses
  <2> SUFFICES ASSUME SigningInv, tx.status = "signed", override \in {None, 0}
               PROVE  FeeCoversWitnesses
    BY DEF FeeCoversWitnesses
  <2>1. /\ IsFiniteSet(Vkeys) /\ IsFiniteSet(tx.witnesses) /\ IsFiniteSet(Uncollected)
        /\ Cardinality(Vkeys) \in 0..256
    BY SignersFinite
  <2>2. Asked \subseteq Vkeys \cup Uncollected
    BY AskedAreCollected DEF SigningInv
  <2>3. tx.counted = Cardinality(Vkeys)
    <3>1. WitnessCount(Vkeys) = Cardinality(Vkeys)
      BY DEF WitnessCount
    <3>2. Cardinality(FakeVkeyWitnesses(Cardinality(Vkeys))) = Cardinality(Vkeys)
      BY <2>1, FakeWitnessesCounted
    <3> QED BY <3>1, <3>2 DEF SigningInv, SignedInv
  <2>4. Cardinality(Asked) <= Cardinality(Vkeys) + Cardinality(Uncollected)
    BY <2>1, <2>2, AtMostBoth
  <2>5. ASSUME ~tx.forced
        PROVE  Cardinality(tx.witnesses) <= Cardinality(Vkeys) + 0
    <3>1. tx.witnesses \subseteq Vkeys
      BY <2>5 DEF SigningInv, SignedInv, KeysThatSign
    <3>2. Cardinality(tx.witnesses) <= Cardinality(Vkeys)
      BY <2>1, <3>1, FS_Subset
    <3>3. Cardinality(Vkeys) \in Nat
      BY <2>1
    <3> QED BY <3>2, <3>3
  <2>6. Cardinality(tx.witnesses)
          <= Cardinality(Vkeys) + Cardinality(tx.witnesses \ (Asked \ Uncollected))
    <3>1. IsFiniteSet(tx.witnesses \ (Asked \ Uncollected))
      BY <2>1, FS_Subset
    <3>2. tx.witnesses \subseteq Vkeys \cup (tx.witnesses \ (Asked \ Uncollected))
      BY <2>2
    <3> QED BY <2>1, <3>1, <3>2, AtMostBoth
  <2> QED BY <2>3, <2>4, <2>5, <2>6 DEF FeeCoversWitnesses
<1> QED BY <1>1, SigningInvariant, PTL

-----------------------------------------------------------------------------
(* TokenPacking *)

\* Elements of a sequence that grows at its end or loses its head.
LEMMA ElementsAppend ==
  ASSUME NEW S, NEW s \in Seq(S), NEW x \in S
  PROVE  /\ Append(s, x) \in Seq(S) /\ Len(Append(s, x)) = Len(s) + 1
         /\ \A i \in 1..Len(s) : Append(s, x)[i] = s[i]
         /\ Append(s, x)[Len(s) + 1] = x
         /\ Len(s) \in Nat
  OBVIOUS

LEMMA ElementsTail ==
  ASSUME NEW S, NEW s \in Seq(S), s # <<>>,
         \A i, j \in 1..Len(s) : s[i] = s[j] => i = j
  PROVE  /\ Head(s) \in S /\ Tail(s) \in Seq(S)
         /\ Head(s) \in Elements(s)
         /\ Elements(s) = {Head(s)} \cup Elements(Tail(s))
         /\ Head(s) \notin Elements(Tail(s))
         /\ \A i, j \in 1..Len(Tail(s)) : Tail(s)[i] = Tail(s)[j] => i = j
<1>1. /\ Len(s) \in Nat /\ Len(s) > 0 /\ Head(s) = s[1] /\ Head(s) \in S /\ Tail(s) \in Seq(S)
      /\ Len(Tail(s)) = Len(s) - 1
  OBVIOUS
<1>2. \A i \in 1..Len(Tail(s)) : Tail(s)[i] = s[i + 1] /\ i + 1 \in 1..Len(s) /\ i + 1 # 1
  OBVIOUS
<1>3. \A i \in 1..Len(s) : i # 1 => i - 1 \in 1..Len(Tail(s)) /\ Tail(s)[i - 1] = s[i]
  OBVIOUS
<1>4. Elements(s) = {Head(s)} \cup Elements(Tail(s)) /\ Head(s) \in Elements(s)
  <2>1. 1 \in 1..Len(s)
    BY <1>1
  <2>2. \A x \in Elements(s) : x = s[1] \/ x \in Elements(Tail(s))
    BY <1>3 DEF Elements
  <2>3. \A x \in Elements(Tail(s)) : x \in Elements(s)
    BY <1>2 DEF Elements
  <2>4. s[1] \in Elements(s)
    BY <2>1 DEF Elements
  <2> QED
    BY <1>1, <2>2, <2>3, <2>4
<1>5. Head(s) \notin Elements(Tail(s))
  <2>1. 1 \in 1..Len(s)
    BY <1>1
  <2>2. \A i \in 1..Len(Tail(s)) : Tail(s)[i] # s[1]
    BY <1>2, <2>1
  <2> QED
    BY <1>1, <2>2 DEF Elements
<1>6. \A i, j \in 1..Len(Tail(s)) : Tail(s)[i] = Tail(s)[j] => i = j
  BY <1>1, <1>2
<1> QED
  BY <1>1, <1>4, <1>5, <1>6

LEMMA PackInitInv == PackInit => PackInv
<1> SUFFICES ASSUME PackInit PROVE PackInv
  OBVIOUS
<1>1. /\ order \in Seq(Token) /\ order # <<>> /\ maxValSize \in Nat /\ total \in Nat
      /\ \A i, j \in 1..Len(order) : order[i] = order[j] => i = j
  BY OrderAssumption, LimitAssumption DEF PackInit
<1>2. /\ left = order /\ buffer = {} /\ bundle = {} /\ old = {} /\ groups = <<>> /\ outputs = <<>>
      /\ coin = total /\ pc = "pack" /\ policy = PolicyOf[Head(order)] /\ respect \in BOOLEAN
  BY DEF PackInit
<1>3. Len(groups) = 0 /\ 1..Len(groups) = {} /\ Pending = {}
  BY <1>2 DEF Pending
<1>4. PackTypeOK
  BY <1>1, <1>2 DEF PackTypeOK
<1>5. TokensApart
  BY <1>1, <1>2, <1>3 DEF TokensApart
<1>6. PendingFits
  BY <1>1, <1>2, <1>3 DEF PendingFits, GroupsFit
<1>7. AllTokensThere
  BY <1>2 DEF AllTokensThere
<1>8. OutputsInStep
  BY <1>2 DEF OutputsInStep, AdaShared
<1> QED
  BY <1>4, <1>5, <1>6, <1>7, <1>8 DEF PackInv

\* What the loop over the assets knows of the next one.
LEMMA NextAsset ==
  ASSUME PackInv, pc = "pack", left # <<>>
  PROVE  /\ Head(left) \in Token /\ Tail(left) \in Seq(Token)
         /\ Elements(left) = {Head(left)} \cup Elements(Tail(left))
         /\ Head(left) \notin Elements(Tail(left))
         /\ \A i, j \in 1..Len(Tail(left)) : Tail(left)[i] = Tail(left)[j] => i = j
         /\ Head(left) \in Elements(order)
<1>1. left \in Seq(Token) /\ \A i, j \in 1..Len(left) : left[i] = left[j] => i = j
  BY DEF PackInv, PackTypeOK, TokensApart
<1>2. Elements(left) \subseteq Elements(order)
  BY DEF PackInv, TokensApart
<1> QED
  BY <1>1, <1>2, ElementsTail

LEMMA AddAssetInv == ASSUME PackInv, AddAsset PROVE PackInv'
<1> DEFINE t == Head(left)
<1>1. /\ pc = "pack" /\ left # <<>> /\ ~Overflows(t)
      /\ buffer' = buffer \cup {t} /\ left' = Tail(left)
      /\ UNCHANGED <<order, maxValSize, respect, total, policy, bundle, old, groups, coin, outputs, pc>>
  BY DEF AddAsset, setup
<1>2. /\ t \in Token /\ Tail(left) \in Seq(Token)
      /\ Elements(left) = {t} \cup Elements(Tail(left)) /\ t \notin Elements(Tail(left))
      /\ \A i, j \in 1..Len(Tail(left)) : Tail(left)[i] = Tail(left)[j] => i = j
  BY <1>1, NextAsset
<1>3. Pending' = Pending \cup {t} /\ Elements(left)' = Elements(Tail(left)) /\ Elements(order)' = Elements(order)
  BY <1>1 DEF Pending, Elements
<1> HIDE DEF t
<1>4. PackTypeOK'
  BY <1>1, <1>2 DEF PackInv, PackTypeOK
<1>5. TokensApart'
  <2>1. TokensApart
    BY DEF PackInv
  <2> QED
    BY <1>1, <1>2, <1>3, <2>1 DEF TokensApart
<1>6. PendingFits'
  <2>1. FitAlone' = FitAlone /\ GroupsFit' = GroupsFit
    BY <1>1 DEF FitAlone, GroupsFit, Elements
  <2>2. ValueSize(Pending') <= maxValSize'
    <3>1. Pending \cup {t} \subseteq Token
      BY <1>2 DEF PackInv, PackTypeOK, Pending
    <3>2. ValueSize(Pending \cup {t}) \in Nat /\ maxValSize \in Nat
      BY <3>1, SizeAssumption DEF PackInv, PackTypeOK
    <3>3. ~(ValueSize(Pending \cup {t}) > maxValSize)
      BY <1>1 DEF Overflows, Pending
    <3> QED
      BY <1>1, <1>3, <3>2, <3>3
  <2>3. Pending' # {}
    BY <1>3
  <2> QED
    BY <2>1, <2>2, <2>3 DEF PackInv, PendingFits
<1>7. AllTokensThere'
  <2>1. FitAlone' = FitAlone
    BY <1>1 DEF FitAlone, Elements
  <2> QED
    BY <1>1, <1>2, <1>3, <2>1 DEF PackInv, AllTokensThere
<1>8. OutputsInStep'
  BY <1>1 DEF PackInv, OutputsInStep, AdaShared
<1> QED
  BY <1>4, <1>5, <1>6, <1>7, <1>8 DEF PackInv

\* A set of tokens that joins the groups, apart from them.
LEMMA GroupAdded ==
  ASSUME PackInv, pc = "pack", groups' = Append(groups, Pending), UNCHANGED <<order, maxValSize>>
  PROVE  /\ groups' \in Seq(SUBSET Token) /\ Len(groups') = Len(groups) + 1 /\ Len(groups) \in Nat
         /\ \A i \in 1..Len(groups) : groups'[i] = groups[i]
         /\ groups'[Len(groups) + 1] = Pending
         /\ \A i, j \in 1..Len(groups') : i # j => groups'[i] \cap groups'[j] = {}
         /\ \A i \in 1..Len(groups') : groups'[i] \subseteq Elements(order)
<1>1. groups \in Seq(SUBSET Token) /\ Pending \in SUBSET Token
  BY DEF PackInv, PackTypeOK, Pending
<1>2. /\ groups' \in Seq(SUBSET Token) /\ Len(groups') = Len(groups) + 1 /\ Len(groups) \in Nat
      /\ \A i \in 1..Len(groups) : groups'[i] = groups[i]
      /\ groups'[Len(groups) + 1] = Pending
  BY <1>1, ElementsAppend
<1>3. /\ \A i, j \in 1..Len(groups) : i # j => groups[i] \cap groups[j] = {}
      /\ \A i \in 1..Len(groups) : groups[i] \cap Pending = {} /\ groups[i] \subseteq Elements(order)
      /\ Pending \subseteq Elements(order)
  BY DEF PackInv, TokensApart
<1>4. \A i \in 1..Len(groups') : i \in 1..Len(groups) \/ i = Len(groups) + 1
  BY <1>2
<1>5. \A i, j \in 1..Len(groups') : i # j => groups'[i] \cap groups'[j] = {}
  <2> TAKE i, j \in 1..Len(groups')
  <2>1. CASE i \in 1..Len(groups) /\ j \in 1..Len(groups)
    BY <1>2, <1>3, <2>1
  <2>2. CASE i \in 1..Len(groups) /\ j = Len(groups) + 1
    BY <1>2, <1>3, <2>2
  <2>3. CASE i = Len(groups) + 1 /\ j \in 1..Len(groups)
    BY <1>2, <1>3, <2>3
  <2> QED
    BY <1>4, <2>1, <2>2, <2>3
<1>6. \A i \in 1..Len(groups') : groups'[i] \subseteq Elements(order)
  BY <1>2, <1>3, <1>4
<1> QED
  BY <1>2, <1>5, <1>6

LEMMA SplitInv == ASSUME PackInv, Split PROVE PackInv'
<1> DEFINE t == Head(left)
<1>1. /\ pc = "pack" /\ left # <<>> /\ Overflows(t)
      /\ groups' = Append(groups, Pending) /\ bundle' = {} /\ old' = {}
      /\ buffer' = {t} /\ left' = Tail(left)
      /\ UNCHANGED <<order, maxValSize, respect, total, policy, coin, outputs, pc>>
  BY DEF Split, setup, Pending
<1>2. /\ t \in Token /\ Tail(left) \in Seq(Token)
      /\ Elements(left) = {t} \cup Elements(Tail(left)) /\ t \notin Elements(Tail(left))
      /\ \A i, j \in 1..Len(Tail(left)) : Tail(left)[i] = Tail(left)[j] => i = j
      /\ t \in Elements(order)
  BY <1>1, NextAsset
<1>3. Pending' = {t} /\ Elements(left)' = Elements(Tail(left)) /\ Elements(order)' = Elements(order)
  BY <1>1 DEF Pending, Elements
<1>4. /\ groups' \in Seq(SUBSET Token) /\ Len(groups') = Len(groups) + 1 /\ Len(groups) \in Nat
      /\ \A i \in 1..Len(groups) : groups'[i] = groups[i]
      /\ groups'[Len(groups) + 1] = Pending
      /\ \A i, j \in 1..Len(groups') : i # j => groups'[i] \cap groups'[j] = {}
      /\ \A i \in 1..Len(groups') : groups'[i] \subseteq Elements(order)
  BY <1>1, GroupAdded
<1>5. \A i \in 1..Len(groups') : i \in 1..Len(groups) \/ i = Len(groups) + 1
  BY <1>4
<1> HIDE DEF t
<1>6. PackTypeOK'
  BY <1>1, <1>2, <1>4 DEF PackInv, PackTypeOK
<1>7. TokensApart'
  <2>1. TokensApart
    BY DEF PackInv
  <2>2. \A i \in 1..Len(groups') : groups'[i] \cap ({t} \cup Elements(Tail(left))) = {}
    <3> TAKE i \in 1..Len(groups')
    <3>1. CASE i \in 1..Len(groups)
      BY <1>1, <1>2, <1>4, <2>1, <3>1 DEF TokensApart
    <3>2. CASE i = Len(groups) + 1
      BY <1>1, <1>2, <1>4, <2>1, <3>2 DEF TokensApart
    <3> QED
      BY <1>5, <3>1, <3>2
  <2>3. Elements(Tail(left)) \subseteq Elements(order)
    BY <1>1, <1>2, <2>1 DEF TokensApart
  <2> QED
    BY <1>1, <1>2, <1>3, <1>4, <2>2, <2>3 DEF TokensApart
<1>8. PendingFits'
  <2>1. FitAlone' = FitAlone
    BY <1>1 DEF FitAlone, Elements
  <2>2. SUFFICES ASSUME FitAlone PROVE GroupsFit' /\ ValueSize({t}) <= maxValSize
    BY <1>1, <1>3, <2>1 DEF PendingFits
  <2>3. ValueSize({t}) <= maxValSize /\ ValueSize({t}) \in Nat /\ maxValSize \in Nat
    BY <1>2, <2>2, SizeAssumption DEF FitAlone, PackInv, PackTypeOK
  <2>4. Pending # {}
    <3>1. SUFFICES ASSUME Pending = {} PROVE FALSE
      OBVIOUS
    <3>2. bundle \cup buffer \cup {t} = {t}
      BY <3>1 DEF Pending
    <3>3. ValueSize({t}) > maxValSize
      BY <1>1, <3>2 DEF Overflows
    <3> QED
      BY <2>3, <3>3
  <2>5. ValueSize(Pending) <= maxValSize
    BY <1>1, <2>2, <2>4 DEF PackInv, PendingFits
  <2>6. \A i \in 1..Len(groups) : ValueSize(groups[i]) <= maxValSize /\ groups[i] # {}
    BY <2>2 DEF PackInv, PendingFits, GroupsFit
  <2>7. GroupsFit'
    BY <1>1, <1>4, <1>5, <2>4, <2>5, <2>6 DEF GroupsFit
  <2> QED
    BY <2>3, <2>7
<1>9. AllTokensThere'
  <2>1. FitAlone' = FitAlone
    BY <1>1 DEF FitAlone, Elements
  <2>2. SUFFICES ASSUME FitAlone, NEW u \in Elements(order)
                 PROVE  \/ \E i \in 1..Len(groups') : u \in groups'[i]
                        \/ u \in {t} \cup Elements(Tail(left))
    BY <1>1, <1>3, <2>1 DEF AllTokensThere
  <2>3. \/ \E i \in 1..Len(groups) : u \in groups[i]
        \/ u \in Pending \/ u \in Elements(left)
    BY <1>1, <2>2 DEF PackInv, AllTokensThere
  <2>4. \A i \in 1..Len(groups) : i \in 1..Len(groups')
    BY <1>4
  <2>5. Len(groups) + 1 \in 1..Len(groups')
    BY <1>4
  <2> QED
    BY <1>2, <1>4, <2>3, <2>4, <2>5
<1>10. OutputsInStep'
  BY <1>1 DEF PackInv, OutputsInStep, AdaShared
<1> QED
  BY <1>6, <1>7, <1>8, <1>9, <1>10 DEF PackInv

LEMMA EndPolicyInv == ASSUME PackInv, EndPolicy PROVE PackInv'
<1>1. /\ pc = "pack" /\ PolicyDone /\ ValueSize(Pending) <= maxValSize
      /\ bundle' = Pending /\ old' = Pending /\ buffer' = {}
      /\ UNCHANGED <<order, maxValSize, respect, total, left, coin, outputs>>
  BY DEF EndPolicy, setup, Pending
<1>2. Pending' = Pending /\ Elements(left)' = Elements(left) /\ Elements(order)' = Elements(order)
  BY <1>1 DEF Pending, Elements
<1>3. FitAlone' = FitAlone
  BY <1>1 DEF FitAlone, Elements
<1>4. FitAlone => Pending # {}
  BY <1>1 DEF PolicyDone, PackInv, PendingFits
<1>5. CASE left # <<>>
  <2>1. pc' = pc /\ groups' = groups
    BY <1>5 DEF EndPolicy
  <2>2. PackTypeOK'
    BY <1>1, <2>1 DEF PackInv, PackTypeOK, Pending
  <2>3. TokensApart'
    BY <1>1, <1>2, <2>1 DEF PackInv, TokensApart
  <2>4. PendingFits'
    BY <1>1, <1>2, <1>3, <1>4, <2>1 DEF PackInv, PendingFits, GroupsFit
  <2>5. AllTokensThere'
    BY <1>1, <1>2, <1>3, <2>1 DEF PackInv, AllTokensThere
  <2>6. OutputsInStep'
    BY <1>1, <2>1 DEF PackInv, OutputsInStep, AdaShared
  <2> QED
    BY <2>2, <2>3, <2>4, <2>5, <2>6 DEF PackInv
<1>6. CASE left = <<>>
  <2>1. pc' = "coins" /\ groups' = Append(groups, Pending)
    BY <1>6 DEF EndPolicy, Pending
  <2>2. /\ groups' \in Seq(SUBSET Token) /\ Len(groups') = Len(groups) + 1 /\ Len(groups) \in Nat
        /\ \A i \in 1..Len(groups) : groups'[i] = groups[i]
        /\ groups'[Len(groups) + 1] = Pending
        /\ \A i, j \in 1..Len(groups') : i # j => groups'[i] \cap groups'[j] = {}
        /\ \A i \in 1..Len(groups') : groups'[i] \subseteq Elements(order)
    BY <1>1, <2>1, GroupAdded
  <2>3. \A i \in 1..Len(groups') : i \in 1..Len(groups) \/ i = Len(groups) + 1
    BY <2>2
  <2>4. PackTypeOK'
    BY <1>1, <2>1, <2>2 DEF PackInv, PackTypeOK, Pending
  <2>5. TokensApart'
    BY <1>2, <2>1, <2>2 DEF TokensApart
  <2>6. PendingFits'
    <3>1. SUFFICES ASSUME FitAlone PROVE GroupsFit'
      BY <1>3, <2>1 DEF PendingFits
    <3>2. \A i \in 1..Len(groups) : ValueSize(groups[i]) <= maxValSize /\ groups[i] # {}
      BY <3>1 DEF PackInv, PendingFits, GroupsFit
    <3> QED
      BY <1>1, <1>4, <2>2, <2>3, <3>1, <3>2 DEF GroupsFit
  <2>7. AllTokensThere'
    <3>1. SUFFICES ASSUME FitAlone, NEW u \in Elements(order)
                   PROVE  \E i \in 1..Len(groups') : u \in groups'[i]
      BY <1>2, <1>3, <2>1 DEF AllTokensThere
    <3>2. Elements(left) = {}
      BY <1>6 DEF Elements
    <3>3. (\E i \in 1..Len(groups) : u \in groups[i]) \/ u \in Pending
      BY <1>1, <3>1, <3>2 DEF PackInv, AllTokensThere
    <3>4. \A i \in 1..Len(groups) : i \in 1..Len(groups')
      BY <2>2
    <3>5. Len(groups) + 1 \in 1..Len(groups')
      BY <2>2
    <3> QED
      BY <2>2, <3>3, <3>4, <3>5
  <2>8. OutputsInStep'
    <3>1. outputs' = <<>> /\ Len(outputs') = 0
      BY <1>1 DEF PackInv, OutputsInStep
    <3> QED
      BY <2>1, <2>2, <3>1 DEF OutputsInStep, AdaShared
  <2> QED
    BY <2>4, <2>5, <2>6, <2>7, <2>8 DEF PackInv
<1> QED
  BY <1>5, <1>6

\* Where every token fits alone the loop over the policies is never broken off.
LEMMA GiveUpOnlyIfOversize == ASSUME PackInv, GiveUp PROVE ~FitAlone
<1>1. pc = "pack" /\ PolicyDone /\ ValueSize(Pending) > maxValSize
  BY DEF GiveUp, Pending
<1>2. ValueSize(Pending) \in Nat /\ maxValSize \in Nat
  BY SizeAssumption DEF PackInv, PackTypeOK, Pending
<1> QED
  BY <1>1, <1>2 DEF PackInv, PendingFits, PolicyDone

LEMMA GiveUpInv == ASSUME PackInv, GiveUp PROVE PackInv'
<1>1. /\ pc = "pack" /\ bundle' = old /\ groups' = Append(groups, old) /\ pc' = "coins"
      /\ UNCHANGED <<order, maxValSize, respect, total, left, policy, buffer, old, coin, outputs>>
  BY DEF GiveUp, setup
<1>2. ~FitAlone /\ FitAlone' = FitAlone /\ Elements(order)' = Elements(order)
  BY <1>1, GiveUpOnlyIfOversize DEF FitAlone, Elements
<1>3. /\ old = bundle /\ old \in SUBSET Token /\ groups \in Seq(SUBSET Token)
      /\ \A i, j \in 1..Len(groups) : i # j => groups[i] \cap groups[j] = {}
      /\ \A i \in 1..Len(groups) : groups[i] \cap old = {} /\ groups[i] \subseteq Elements(order)
      /\ old \subseteq Elements(order)
  BY <1>1 DEF PackInv, PackTypeOK, TokensApart, Pending
<1>4. /\ groups' \in Seq(SUBSET Token) /\ Len(groups') = Len(groups) + 1 /\ Len(groups) \in Nat
      /\ \A i \in 1..Len(groups) : groups'[i] = groups[i]
      /\ groups'[Len(groups) + 1] = old
  BY <1>1, <1>3, ElementsAppend
<1>5. \A i \in 1..Len(groups') : i \in 1..Len(groups) \/ i = Len(groups) + 1
  BY <1>4
<1>6. PackTypeOK'
  BY <1>1, <1>3, <1>4 DEF PackInv, PackTypeOK
<1>7. TokensApart'
  <2>1. \A i, j \in 1..Len(groups') : i # j => groups'[i] \cap groups'[j] = {}
    <3> TAKE i, j \in 1..Len(groups')
    <3>1. CASE i \in 1..Len(groups) /\ j \in 1..Len(groups)
      BY <1>3, <1>4, <3>1
    <3>2. CASE i \in 1..Len(groups) /\ j = Len(groups) + 1
      BY <1>3, <1>4, <3>2
    <3>3. CASE i = Len(groups) + 1 /\ j \in 1..Len(groups)
      BY <1>3, <1>4, <3>3
    <3> QED
      BY <1>5, <3>1, <3>2, <3>3
  <2>2. \A i \in 1..Len(groups') : groups'[i] \subseteq Elements(order)
    BY <1>3, <1>4, <1>5
  <2> QED
    BY <1>1, <1>2, <2>1, <2>2 DEF TokensApart
<1>8. PendingFits' /\ AllTokensThere'
  BY <1>2 DEF PendingFits, AllTokensThere
<1>9. OutputsInStep'
  <2>1. outputs' = <<>> /\ Len(outputs') = 0
    BY <1>1 DEF PackInv, OutputsInStep
  <2> QED
    BY <1>1, <1>4, <2>1 DEF OutputsInStep, AdaShared
<1> QED
  BY <1>6, <1>7, <1>8, <1>9 DEF PackInv

\* The making of outputs leaves the groups alone.
LEMMA GroupsKept ==
  ASSUME PackInv, pc = "coins", pc' # "pack", UNCHANGED <<order, maxValSize, groups>>
  PROVE  TokensApart' /\ PendingFits' /\ AllTokensThere'
<1>1. FitAlone' = FitAlone /\ Elements(order)' = Elements(order) /\ GroupsFit' = GroupsFit
  BY DEF FitAlone, GroupsFit, Elements
<1>2. TokensApart'
  BY <1>1 DEF PackInv, TokensApart
<1>3. PendingFits'
  BY <1>1 DEF PackInv, PendingFits
<1>4. AllTokensThere'
  BY <1>1 DEF PackInv, AllTokensThere
<1> QED
  BY <1>2, <1>3, <1>4

LEMMA NotEnoughAdaInv == ASSUME PackInv, NotEnoughAda PROVE PackInv'
<1>1. /\ pc = "coins" /\ pc' = "raised"
      /\ UNCHANGED <<order, maxValSize, respect, total, left, policy, buffer, bundle, old, groups, coin, outputs>>
  BY DEF NotEnoughAda, setup
<1>2. PackTypeOK'
  BY <1>1 DEF PackInv, PackTypeOK
<1>3. OutputsInStep'
  BY <1>1 DEF OutputsInStep, AdaShared
<1> QED
  BY <1>1, <1>2, <1>3, GroupsKept DEF PackInv

LEMMA AddOutputInv == ASSUME PackInv, AddOutput PROVE PackInv'
<1> DEFINE n == Len(outputs)
           last == n + 1 = Len(groups)
           c == IF last THEN coin ELSE MinCoin(Group)
           o == [coin |-> c, tokens |-> Group]
<1>1. /\ pc = "coins" /\ ~ShortOfCoin(Group)
      /\ outputs' = Append(outputs, o) /\ coin' = coin - c
      /\ pc' = IF last THEN "done" ELSE pc
      /\ UNCHANGED <<order, maxValSize, respect, total, left, policy, buffer, bundle, old, groups>>
  BY DEF AddOutput, setup
<1>2. /\ outputs \in Seq([coin : Int, tokens : SUBSET Token]) /\ groups \in Seq(SUBSET Token)
      /\ coin \in Int /\ n \in Nat /\ Len(groups) \in Nat /\ n < Len(groups)
      /\ \A i \in 1..n : outputs[i].tokens = groups[i] /\ outputs[i].coin = MinCoin(groups[i])
  BY <1>1 DEF PackInv, PackTypeOK, OutputsInStep
<1>3. Group = groups[n + 1] /\ n + 1 \in 1..Len(groups)
  BY <1>2 DEF Group
<1>4. Group \in SUBSET Token /\ MinCoin(Group) \in Nat /\ c \in Int
  BY <1>2, <1>3, SizeAssumption
<1>5. o \in [coin : Int, tokens : SUBSET Token] /\ o.coin = c /\ o.tokens = Group
  BY <1>4
<1>6. /\ outputs' \in Seq([coin : Int, tokens : SUBSET Token]) /\ Len(outputs') = n + 1
      /\ \A i \in 1..n : outputs'[i] = outputs[i]
      /\ outputs'[n + 1] = o
  BY <1>1, <1>2, <1>5, ElementsAppend
<1>7. \A i \in 1..Len(outputs') : i \in 1..n \/ i = n + 1
  BY <1>2, <1>6
<1>8. respect => coin >= MinCoin(Group)
  BY <1>1, <1>2, <1>4 DEF ShortOfCoin
<1> HIDE DEF o
<1>9. PackTypeOK'
  BY <1>1, <1>2, <1>4, <1>6 DEF PackInv, PackTypeOK
<1>10. OutputsInStep'
  <2>1. CASE last
    <3>1. pc' = "done" /\ c = coin /\ coin' = 0 /\ Len(outputs') = Len(groups')
      BY <1>1, <1>2, <1>6, <2>1
    <3>2. ASSUME NEW i \in 1..n
          PROVE  outputs'[i].tokens = groups'[i] /\ outputs'[i].coin >= MinCoin(groups'[i])
      <4>1. outputs'[i].tokens = groups[i] /\ outputs'[i].coin = MinCoin(groups[i])
        BY <1>2, <1>6
      <4>2. i \in 1..Len(groups) /\ groups[i] \in SUBSET Token
        BY <1>2
      <4>3. MinCoin(groups[i]) \in Nat
        BY <4>2, SizeAssumption
      <4> QED
        BY <1>1, <4>1, <4>3
    <3>3. /\ outputs'[n + 1].tokens = groups'[n + 1]
          /\ outputs'[n + 1].coin >= MinCoin(groups'[n + 1]) \/ ~respect'
      BY <1>1, <1>3, <1>5, <1>6, <1>8, <3>1
    <3>4. AdaShared'
      BY <1>6, <1>7, <3>1, <3>2, <3>3 DEF AdaShared
    <3> QED
      BY <3>1, <3>4 DEF OutputsInStep
  <2>2. CASE ~last
    <3>1. pc' = "coins" /\ c = MinCoin(Group) /\ Len(outputs') < Len(groups')
      BY <1>1, <1>2, <1>6, <2>2
    <3>2. \A i \in 1..Len(outputs') : outputs'[i].tokens = groups'[i] /\ outputs'[i].coin = MinCoin(groups'[i])
      <4> TAKE i \in 1..Len(outputs')
      <4>1. CASE i \in 1..n
        BY <1>1, <1>2, <1>6, <4>1
      <4>2. CASE i = n + 1
        BY <1>1, <1>3, <1>5, <1>6, <3>1, <4>2
      <4> QED
        BY <1>7, <4>1, <4>2
    <3> QED
      BY <3>1, <3>2 DEF OutputsInStep, AdaShared
  <2> QED
    BY <2>1, <2>2
<1>11. pc' # "pack"
  BY <1>1
<1> QED
  BY <1>1, <1>9, <1>10, <1>11, GroupsKept DEF PackInv

LEMMA PackStep == ASSUME PackInv, [PackNext]_packVars PROVE PackInv'
<1>1. CASE UNCHANGED packVars
  <2>1. UNCHANGED <<order, maxValSize, respect, total, left, policy, buffer, bundle, old, groups, coin,
                    outputs, pc>>
    BY <1>1 DEF packVars, setup
  <2>2. /\ Elements(order)' = Elements(order) /\ Elements(left)' = Elements(left) /\ Pending' = Pending
        /\ FitAlone' = FitAlone /\ GroupsFit' = GroupsFit
    BY <2>1 DEF Elements, Pending, FitAlone, GroupsFit
  <2>3. PackTypeOK' /\ OutputsInStep'
    BY <2>1 DEF PackInv, PackTypeOK, OutputsInStep, AdaShared
  <2>4. TokensApart'
    BY <2>1, <2>2 DEF PackInv, TokensApart
  <2>5. PendingFits' /\ AllTokensThere'
    BY <2>1, <2>2 DEF PackInv, PendingFits, AllTokensThere
  <2> QED
    BY <2>3, <2>4, <2>5 DEF PackInv
<1>2. CASE PackNext
  BY <1>2, AddAssetInv, SplitInv, EndPolicyInv, GiveUpInv, NotEnoughAdaInv, AddOutputInv DEF PackNext
<1> QED
  BY <1>1, <1>2

\* The strengthening holds in every state: no token is lost between two loops.
THEOREM PackSafe == PackSpec => []PackInv
  BY PackInitInv, PackStep, PTL DEF PackSpec

\* Every token is in exactly one group once the tokens are packed, for every
\* number of tokens and every limit that no single token exceeds.
THEOREM TokensArePacked == PackSpec => []NoTokenLost
<1>1. PackInv => NoTokenLost
  <2> SUFFICES ASSUME PackInv, Packed PROVE NoTokenLost
    BY DEF NoTokenLost
  <2>1. pc # "pack"
    BY DEF Packed
  <2>2. /\ \A i, j \in 1..Len(groups) : i # j => groups[i] \cap groups[j] = {}
        /\ \A i \in 1..Len(groups) : groups[i] \subseteq Elements(order)
    BY DEF PackInv, TokensApart
  <2>3. UNION Elements(groups) \subseteq Elements(order)
    BY <2>2 DEF Elements
  <2>4. ASSUME FitAlone PROVE Elements(order) \subseteq UNION Elements(groups)
    <3>1. \A t \in Elements(order) : \E i \in 1..Len(groups) : t \in groups[i]
      BY <2>1, <2>4 DEF PackInv, AllTokensThere
    <3>2. \A i \in 1..Len(groups) : groups[i] \in Elements(groups)
      BY DEF Elements
    <3> QED
      BY <3>1, <3>2
  <2> QED
    BY <2>2, <2>3, <2>4 DEF NoTokenLost
<1> QED
  BY <1>1, PackSafe, PTL

\* No group exceeds the limit or is empty.
THEOREM GroupsWithinLimit == PackSpec => []GroupsFit
<1>1. PackInv => GroupsFit
  BY DEF PackInv, PendingFits, GroupsFit
<1> QED
  BY <1>1, PackSafe, PTL

\* The outputs of the change share its ADA, each with its minimum.
THEOREM AdaIsShared == PackSpec => []AdaShared
<1>1. PackInv => AdaShared
  BY DEF PackInv, OutputsInStep
<1> QED
  BY <1>1, PackSafe, PTL

\* The change is packed soundly, for any tokens, sizes, order and amount of ADA.
THEOREM PackingIsSound == PackSpec => []PackingSound
<1>1. NoTokenLost /\ GroupsFit /\ AdaShared => PackingSound
  BY DEF PackingSound
<1> QED
  BY <1>1, TokensArePacked, GroupsWithinLimit, AdaIsShared, PTL

-----------------------------------------------------------------------------
(* HDWallet and MessageSigning *)

TwinPaired(w) == w.twin.pub = Point(w.twin.xprv.left)

\* A wallet that agrees with its twin, and its twin with itself.
Sane(w) == Agrees(w) /\ Paired(w) /\ TwinPaired(w)

\* A private child has the public key of its private key.
LEMMA PrivateChildPaired ==
  ASSUME NEW n, NEW i
  PROVE  PrivateChild(n, i).pub = Point(PrivateChild(n, i).xprv.left)
  BY DEF PrivateChild

\* What a private child is made of.
LEMMA PrivateChildOf ==
  ASSUME NEW m, NEW n, NEW i, m.pub = n.pub, m.chain = n.chain, m.xprv = n.xprv
  PROVE  PrivateChild(m, i) = PrivateChild(n, i)
  BY DEF PrivateChild

\* For an index that is not hardened, the public child of a node has the public key
\* and the chain code of the private child of a paired node with the same public
\* key and chain code.
LEMMA PublicChildMeetsPrivate ==
  ASSUME NEW w, NEW n, NEW i, i < Half,
         w.pub = n.pub, w.chain = n.chain, n.pub = Point(n.xprv.left)
  PROVE  /\ PublicChild(Node(w), i).pub = PrivateChild(n, i).pub
         /\ PublicChild(Node(w), i).chain = PrivateChild(n, i).chain
  <1> DEFINE z == Hash("ZL", n.pub, i, n.chain)
  <1>1. /\ PublicChild(Node(w), i).pub = AddPoints(n.pub, Point(<<z>>))
        /\ PublicChild(Node(w), i).chain = Hash("c", n.pub, i, n.chain)
    BY DEF PublicChild, Node
  <1>2. /\ PrivateChild(n, i).pub = Point(n.xprv.left \o <<z>>)
        /\ PrivateChild(n, i).chain = Hash("c", n.pub, i, n.chain)
    BY DEF PrivateChild
  <1>3. AddPoints(n.pub, Point(<<z>>)) = Point(n.xprv.left \o <<z>>)
    BY DEF AddPoints, Point
  <1> QED BY <1>1, <1>2, <1>3

\* One step of derivation, by either key.
LEMMA ChildSane ==
  ASSUME NEW w, NEW index, NEW private, NEW hardened,
         Derives(w, index, private, hardened), Sane(w)
  PROVE  Sane(Child(w, Number(index, hardened), private))
  <1> DEFINE i == Number(index, hardened)
             v == Child(w, i, private)
  <1>1. v.twin = PrivateChild(w.twin, i) /\ v.mode = Mode(w.mode, private)
    BY DEF Child
  <1>2. TwinPaired(v)
    BY <1>1, PrivateChildPaired DEF TwinPaired
  <1>3. CASE private
    <2>1. /\ v.pub = PrivateChild(Node(w), i).pub
          /\ v.chain = PrivateChild(Node(w), i).chain
          /\ v.xprv = PrivateChild(Node(w), i).xprv
      BY <1>3 DEF Child
    <2>2. v.pub = Point(v.xprv.left)
      BY <2>1, PrivateChildPaired
    <2>3. v.mode \in {"private", "stale"} /\ (v.mode = "private" => w.mode = "private")
      BY <1>1, <1>3 DEF Mode
    <2>4. ASSUME w.mode = "private"
          PROVE  PrivateChild(Node(w), i) = PrivateChild(w.twin, i)
      <3>1. w.pub = w.twin.pub /\ w.chain = w.twin.chain /\ w.xprv = w.twin.xprv
        BY <2>4, <1>3 DEF Sane, Agrees, Derives
      <3> QED BY <3>1, PrivateChildOf DEF Node
    <2>5. Agrees(v)
      BY <1>1, <2>1, <2>3, <2>4 DEF Agrees
    <2> QED BY <1>2, <2>2, <2>5 DEF Sane, Paired
  <1>4. CASE ~private
    <2>1. v.pub = PublicChild(Node(w), i).pub /\ v.chain = PublicChild(Node(w), i).chain
      BY <1>4 DEF Child
    <2>2. /\ v.mode \in {"public", "stale public"}
          /\ v.mode = "public" => w.mode \in {"private", "public"}
      BY <1>1, <1>4 DEF Mode
    <2>3. i < Half
      BY <1>4 DEF Derives
    <2>4. ASSUME w.mode \in {"private", "public"}
          PROVE  v.pub = v.twin.pub /\ v.chain = v.twin.chain
      <3>1. w.pub = w.twin.pub /\ w.chain = w.twin.chain /\ w.twin.pub = Point(w.twin.xprv.left)
        BY <2>4 DEF Sane, Agrees, TwinPaired
      <3> QED BY <1>1, <2>1, <2>3, <3>1, PublicChildMeetsPrivate
    <2>5. Agrees(v) /\ Paired(v)
      BY <2>2, <2>4 DEF Agrees, Paired
    <2> QED BY <1>2, <2>5 DEF Sane
  <1> QED BY <1>3, <1>4

\* A new wallet.
LEMMA RootSane ==
  ASSUME NEW seed
  PROVE  Sane(Root(seed))
  BY DEF Root, Sane, Agrees, Paired, TwinPaired

\* A wallet whose private key is left out.
LEMMA WatchOnlySane ==
  ASSUME NEW w, NEW v, Sane(w), v.xprv = NoKey, v.pub = w.pub, v.chain = w.chain,
         v.twin = w.twin, v.mode = w.mode
  PROVE  Sane(v)
  BY DEF Sane, Agrees, Paired, TwinPaired

\* HDInv in terms of the two wallets.
LEMMA InvIsSane == HDInv <=> Sane(hd) /\ Sane(work) /\ (Idle => work = hd)
  BY DEF HDInv, Sane, PublicMeetsPrivate, KeysPaired, TwinPaired

\* The same for the next state.
LEMMA InvIsSaneNext == HDInv' <=> Sane(hd') /\ Sane(work') /\ (Idle' => work' = hd')
  BY DEF HDInv, Sane, PublicMeetsPrivate, KeysPaired, TwinPaired, Agrees, Paired

\* HDInv holds of every wallet that derive, derive_from_path and the constructor
\* make, for any seeds, indexes and paths (bip32.py:113-504).
THEOREM HDSafe == HDSpec => []HDInv
<1>1. HDInit => HDInv
  <2> SUFFICES ASSUME HDInit PROVE HDInv
    OBVIOUS
  <2>1. Sane(hd) /\ work = hd
    BY RootSane DEF HDInit
  <2> QED BY <2>1, InvIsSane
<1>2. HDInv /\ [HDNext]_hdVars => HDInv'
  <2> SUFFICES ASSUME HDInv, [HDNext]_hdVars PROVE HDInv'
    OBVIOUS
  <2>1. Sane(hd) /\ Sane(work) /\ (Idle => work = hd)
    BY InvIsSane
  <2>2. ASSUME NEW index \in Indexes, NEW private \in BOOLEAN, NEW hardened \in BOOLEAN,
               Derive(index, private, hardened)
        PROVE  HDInv'
    <3>1. Sane(hd')
      BY <2>1, <2>2, ChildSane DEF Derive
    <3> QED BY <3>1, <2>2, InvIsSaneNext DEF Derive
  <2>3. ASSUME NEW path \in Paths, NEW private \in BOOLEAN, DeriveFromPath(path, private)
        PROVE  HDInv'
    BY <2>1, <2>3, InvIsSaneNext DEF DeriveFromPath, Idle
  <2>4. CASE PathStep
    <3> DEFINE e == Head(todo)
    <3>1. Sane(Child(work, Number(e.index, e.hardened), privately))
      BY <2>1, <2>4, ChildSane DEF PathStep
    <3>2. work' = Child(work, Number(e.index, e.hardened), privately)
      BY <2>4 DEF PathStep
    <3>3. hd' = IF todo' = <<>> THEN work' ELSE hd
      BY <2>4 DEF PathStep
    <3> QED BY <2>1, <3>1, <3>2, <3>3, InvIsSaneNext DEF Idle
  <2>5. CASE PathRaises
    BY <2>1, <2>5, InvIsSaneNext DEF PathRaises
  <2>6. CASE WatchOnly
    <3>1. /\ hd'.xprv = NoKey /\ hd'.pub = hd.pub /\ hd'.chain = hd.chain
          /\ hd'.twin = hd.twin /\ hd'.mode = hd.mode
      BY <2>6 DEF WatchOnly
    <3> QED BY <2>1, <2>6, <3>1, WatchOnlySane, InvIsSaneNext DEF WatchOnly
  <2>7. CASE UNCHANGED hdVars
    BY <2>1, <2>7, InvIsSaneNext DEF hdVars, Idle
  <2> QED BY <2>2, <2>3, <2>4, <2>5, <2>6, <2>7 DEF HDNext
<1> QED BY <1>1, <1>2, PTL DEF HDSpec

\* Public and private derivation meet, unless a private step follows a public one.
THEOREM DerivationsMeet == HDSpec => []PublicMeetsPrivate
<1>1. HDInv => PublicMeetsPrivate
  BY DEF HDInv
<1> QED BY <1>1, HDSafe, PTL

\* The keys of a wallet are a pair, unless its last step was public.
THEOREM WalletKeysPaired == HDSpec => []KeysPaired
<1>1. HDInv => KeysPaired
  BY DEF HDInv
<1> QED BY <1>1, HDSafe, PTL
-----------------------------------------------------------------------------
(* Messages *)

IsKey(k) == k = [of |-> k.of, extended |-> k.extended] /\ k.extended \in BOOLEAN

IsMessage(m) ==
  /\ m = [address |-> m.address, kid |-> m.kid, key |-> m.key, payload |-> m.payload,
          signature |-> m.signature]
  /\ m.kid # Nobody => IsKey(m.kid)
  /\ m.key # Nobody => IsKey(m.key)

\* A verdict is about the message there is, which no step changes after it.
MsgInv ==
  /\ verdict # Nobody => message # Nobody
  /\ message # Nobody => IsMessage(message)
  /\ VerifiedMeansSigned

\* What sign makes is a message.
LEMMA SignMakesMessage ==
  ASSUME NEW key, NEW payload, NEW attach \in BOOLEAN
  PROVE  IsMessage(Sign(key, payload, attach))
  <1> DEFINE vk == NonExtended(key)
             m == [address |-> IF key.stake THEN [payment |-> Nobody, staking |-> KeyHash(vk)]
                               ELSE [payment |-> KeyHash(vk), staking |-> Nobody],
                   kid |-> IF attach THEN Nobody ELSE vk,
                   key |-> IF attach THEN vk ELSE Nobody,
                   payload |-> payload, signature |-> Nobody]
  <1>1. IsKey(vk)
    BY DEF NonExtended, IsKey
  <1>2. Sign(key, payload, attach) = Complete(m, key.secret)
    BY DEF Sign
  <1> HIDE DEF vk
  <1>3. IsMessage(Complete(m, key.secret))
    BY <1>1 DEF Complete, IsMessage
  <1> QED BY <1>2, <1>3

\* verify accepts only what the holder of the key in the address has signed, in
\* whatever order wallets are derived and messages are signed, received, changed
\* and verified (cip8.py:122-226).
THEOREM AcceptedIsSigned == MsgSpec => []VerifiedMeansSigned
<1> DEFINE v == <<hdVars, msgVars>>
           Next == (HDNext /\ UNCHANGED msgVars) \/ MsgNext
<1>1. HDInit /\ MsgInit => MsgInv
  BY DEF MsgInit, MsgInv, VerifiedMeansSigned
<1>2. MsgInv /\ [Next]_v => MsgInv'
  <2> SUFFICES ASSUME MsgInv, [Next]_v PROVE MsgInv'
    OBVIOUS
  <2>1. CASE UNCHANGED msgVars
    BY <2>1 DEF MsgInv, msgVars, VerifiedMeansSigned, IsMessage, IsKey, SignedPart, KeyHash
  <2>2. ASSUME verdict' = Nobody, IsMessage(message') PROVE MsgInv'
    BY <2>2 DEF MsgInv, VerifiedMeansSigned, IsMessage, IsKey
  <2>3. CASE SignMessage
    <3>1. verdict' = Nobody
      BY <2>3 DEF SignMessage, MsgInv
    <3>2. IsMessage(message')
      BY <2>3, SignMakesMessage DEF SignMessage
    <3> QED BY <2>2, <3>1, <3>2
  <2>4. CASE Receive
    <3>1. verdict' = Nobody
      BY <2>4 DEF Receive, MsgInv
    <3>2. IsMessage(message')
      BY <2>4 DEF Receive, Complete, IsMessage, IsKey
    <3> QED BY <2>2, <3>1, <3>2
  <2>5. CASE Alter
    <3>1. verdict' = Nobody
      BY <2>5 DEF Alter
    <3>2. IsMessage(message')
      BY <2>5 DEF Alter, IsMessage, MsgInv
    <3> QED BY <2>2, <3>1, <3>2
  <2>6. ASSUME NEW arg \in {"None", "True", "False"}, Verify(arg) PROVE MsgInv'
    <3> DEFINE attach == IF arg = "None" THEN message.key # Nobody ELSE arg = "True"
               vk == IF attach THEN message.key ELSE message.kid
    <3>1. message' = message /\ message # Nobody /\ IsMessage(message)
      BY <2>6 DEF Verify, MsgInv
    <3>2. verdict'.verified =>
            vk # Nobody /\ SignatureValid(message, vk) /\ AddressMatches(message.address, vk)
      BY <2>6 DEF Verify
    <3>3. ASSUME verdict'.verified
          PROVE  /\ message.signature.over = SignedPart(message)
                 /\ \E e \in BOOLEAN :
                      LET signer == KeyHash([of |-> message.signature.by, extended |-> e])
                      IN  IF message.address.payment # Nobody THEN message.address.payment = signer
                          ELSE message.address.staking = signer
      <4>1. vk = [of |-> message.signature.by, extended |-> vk.extended] /\ vk.extended \in BOOLEAN
        BY <3>1, <3>2, <3>3 DEF IsMessage, IsKey, SignatureValid
      <4>2. IF message.address.payment # Nobody THEN message.address.payment = KeyHash(vk)
            ELSE message.address.staking = KeyHash(vk)
        BY <3>2, <3>3 DEF AddressMatches
      <4>3. message.signature.over = SignedPart(message)
        BY <3>2, <3>3 DEF SignatureValid
      <4> QED BY <4>1, <4>2, <4>3
    <3>4. VerifiedMeansSigned'
      BY <3>1, <3>3 DEF VerifiedMeansSigned, SignedPart, KeyHash
    <3>5. IsMessage(message')
      BY <3>1
    <3> QED BY <3>1, <3>4, <3>5 DEF MsgInv, IsMessage, IsKey
  <2> QED BY <2>1, <2>3, <2>4, <2>5, <2>6 DEF MsgNext, msgVars
<1>3. MsgInv => VerifiedMeansSigned
  BY DEF MsgInv
<1> QED BY <1>1, <1>2, <1>3, PTL DEF MsgSpec
-----------------------------------------------------------------------------
(* What sign makes, verify accepts *)

IsSequence(s) == Len(s) \in Nat /\ s = [i \in 1..Len(s) |-> s[i]]

Modes == {"private", "public", "stale", "stale public"}

IsPoint(p) == p = Point(p.point)

LEMMA PointIsPoint ==
  ASSUME NEW s
  PROVE  IsPoint(Point(s)) /\ Point(s).point = s
  BY DEF IsPoint, Point

\* The scalar of the public key has more summands than that of the private key.
Longer(pub, scalar) == Len(pub.point) > Len(scalar)

\* The public key of a wallet is that of its private key after a private step, and
\* has more summands than its private key after a public one.
KeysTold(w) ==
  /\ w.mode \in Modes
  /\ IsPoint(w.pub) /\ IsSequence(w.pub.point)
  /\ w.xprv # NoKey =>
       /\ IsSequence(w.xprv.left)
       /\ w.mode \in {"private", "stale"} => w.pub = Point(w.xprv.left)
       /\ w.mode \in {"public", "stale public"} => Longer(w.pub, w.xprv.left)

\* One more summand.
LEMMA OneMore ==
  ASSUME NEW s, IsSequence(s), NEW x
  PROVE  IsSequence(s \o <<x>>) /\ Len(s \o <<x>>) = Len(s) + 1
  <1> DEFINE S == {s[i] : i \in 1..Len(s)} \cup {x}
  <1>1. s \in Seq(S)
    <2>1. \A i \in 1..Len(s) : s[i] \in S
      OBVIOUS
    <2>2. s \in [1..Len(s) -> S]
      BY <2>1 DEF IsSequence
    <2> QED BY <2>2, SeqDef DEF IsSequence
  <1>2. <<x>> \in Seq(S)
    OBVIOUS
  <1> HIDE DEF S
  <1>3. s \o <<x>> \in Seq(S) /\ Len(s \o <<x>>) = Len(s) + 1
    BY <1>1, <1>2
  <1> QED BY <1>3, LenProperties DEF IsSequence

LEMMA RootKeysTold ==
  ASSUME NEW seed
  PROVE  KeysTold(Root(seed))
  <1>1. IsSequence(<<seed>>)
    BY DEF IsSequence
  <1>2. /\ Root(seed).mode = "private" /\ Root(seed).pub = Point(<<seed>>)
        /\ Root(seed).xprv.left = <<seed>>
    BY DEF Root
  <1> QED BY <1>1, <1>2, PointIsPoint DEF KeysTold, Modes

LEMMA ChildKeysTold ==
  ASSUME NEW w, NEW index, NEW private, NEW hardened,
         Derives(w, index, private, hardened), KeysTold(w)
  PROVE  KeysTold(Child(w, Number(index, hardened), private))
  <1> DEFINE i == Number(index, hardened)
             v == Child(w, i, private)
  <1>1. v.mode = Mode(w.mode, private)
    BY DEF Child
  <1>2. CASE private
    <2> DEFINE data == IF i < Half THEN w.pub ELSE w.xprv
               scalar == w.xprv.left \o <<Hash("ZL", data, i, w.chain)>>
    <2>1. v.xprv.left = scalar /\ v.pub = Point(scalar)
      BY <1>2 DEF Child, PrivateChild, Node
    <2>2. IsSequence(w.xprv.left)
      BY <1>2 DEF Derives, KeysTold
    <2>3. IsSequence(scalar)
      BY <2>2, OneMore
    <2>4. v.mode \in {"private", "stale"}
      BY <1>1, <1>2 DEF Mode
    <2> HIDE DEF scalar, v
    <2>5. KeysTold(v)
      BY <2>1, <2>3, <2>4, PointIsPoint DEF KeysTold, Modes
    <2> QED BY <2>5 DEF v
  <1>3. CASE ~private
    <2> DEFINE z == Hash("ZL", w.pub, i, w.chain)
               longer == w.pub.point \o <<z>>
    <2>1. v.xprv = w.xprv /\ v.pub = Point(longer)
      BY <1>3 DEF Child, PublicChild, Node, AddPoints, Point
    <2>2. IsSequence(longer) /\ Len(longer) = Len(w.pub.point) + 1
      BY OneMore DEF KeysTold
    <2>3. v.mode \in {"public", "stale public"}
      BY <1>1, <1>3 DEF Mode
    <2> HIDE DEF v, longer
    <2>4. IsPoint(v.pub) /\ v.pub.point = longer
      BY <2>1, PointIsPoint
    <2>5. ASSUME w.xprv # NoKey
          PROVE  IsSequence(w.xprv.left) /\ Longer(v.pub, w.xprv.left)
      <3>1. IsSequence(w.xprv.left)
        BY <2>5 DEF KeysTold
      <3>2. Len(w.pub.point) \in Nat /\ Len(w.xprv.left) \in Nat
        BY <3>1 DEF KeysTold, IsSequence
      <3>3. CASE w.mode \in {"private", "stale"}
        <4>1. w.pub = Point(w.xprv.left)
          BY <2>5, <3>3 DEF KeysTold
        <4>2. w.pub.point = w.xprv.left
          BY <4>1, PointIsPoint
        <4> QED BY <3>1, <3>2, <4>2, <2>2, <2>4 DEF Longer
      <3>4. CASE w.mode \in {"public", "stale public"}
        <4>1. Longer(w.pub, w.xprv.left)
          BY <2>5, <3>4 DEF KeysTold
        <4> QED BY <3>1, <3>2, <4>1, <2>2, <2>4 DEF Longer
      <3> QED BY <3>3, <3>4 DEF KeysTold, Modes
    <2>6. v.mode \in Modes /\ v.mode \notin {"private", "stale"}
      BY <2>3 DEF Modes
    <2>7. KeysTold(v)
      BY <2>1, <2>2, <2>4, <2>5, <2>6 DEF KeysTold
    <2> QED BY <2>7 DEF v
  <1> QED BY <1>2, <1>3

\* The key that verify takes from a message, whether it raises, and whether it
\* accepts the message.
Beside(m, arg) == IF arg = "None" THEN m.key # Nobody ELSE arg = "True"
KeyUsed(m, arg) == IF Beside(m, arg) THEN m.key ELSE m.kid

Raises(m, arg) ==
  \/ Beside(m, arg) # (m.key # Nobody)
  \/ KeyUsed(m, arg) = Nobody
  \/ KeyUsed(m, arg).extended /\ ~SignatureValid(m, KeyUsed(m, arg))

Accepts(m, arg) ==
  ~Raises(m, arg) /\ SignatureValid(m, KeyUsed(m, arg)) /\ AddressMatches(m.address, KeyUsed(m, arg))

Told(m, v) == m # Nobody /\ (v.raises <=> Raises(m, v.arg)) /\ v.verified = Accepts(m, v.arg)

\* The verdict is the one on the message there is.
SignInv == KeysTold(hd) /\ KeysTold(work) /\ (Idle => work = hd) /\ (verdict # Nobody => Told(message, verdict))

\* verify accepts what sign makes of a key, in the form it was made in, if the
\* public key is that of the secret, and else finds it not verified.
LEMMA SignedAccepted ==
  ASSUME \A p, e : [of |-> p, extended |-> e] # Nobody,
         NEW key, NEW payload, NEW attach \in BOOLEAN, NEW arg,
         NEW m, m = Sign(key, payload, attach),
         arg = "None" \/ (arg = "True") = (m.key # Nobody)
  PROVE  ~Raises(m, arg) /\ (Accepts(m, arg) <=> Point(key.secret) = key.pub)
  <1> DEFINE vk == NonExtended(key)
             u == KeyUsed(m, arg)
  <1>1. vk # Nobody /\ vk.of = key.pub /\ vk.extended = FALSE
    BY DEF NonExtended
  <1> HIDE DEF vk
  <1>2. /\ m.kid = IF attach THEN Nobody ELSE vk
        /\ m.key = IF attach THEN vk ELSE Nobody
        /\ m.address = IF key.stake THEN [payment |-> Nobody, staking |-> KeyHash(vk)]
                       ELSE [payment |-> KeyHash(vk), staking |-> Nobody]
        /\ m.signature = [by |-> Point(key.secret), over |-> <<m.address, m.kid, m.payload>>]
    BY DEF Sign, Complete, SignedPart, vk
  <1>3. Beside(m, arg) <=> m.key # Nobody
    BY DEF Beside
  <1>4. u = vk
    BY <1>1, <1>2, <1>3 DEF KeyUsed
  <1> HIDE DEF u
  <1>5. SignatureValid(m, u) <=> Point(key.secret) = key.pub
    BY <1>1, <1>2, <1>4 DEF SignatureValid, SignedPart
  <1>6. AddressMatches(m.address, u)
    BY <1>2, <1>4 DEF AddressMatches
  <1>7. u # Nobody /\ ~u.extended
    BY <1>1, <1>4
  <1>8. ~Raises(m, arg)
    <2>1. ~(Beside(m, arg) # (m.key # Nobody))
      BY <1>3 DEF Beside
    <2> QED BY <2>1, <1>7 DEF Raises, u
  <1>9. Accepts(m, arg) <=> Point(key.secret) = key.pub
    BY <1>5, <1>6, <1>8 DEF Accepts, u
  <1> QED BY <1>8, <1>9

\* The invariant comes to the property.
LEMMA SignInvSuffices ==
  ASSUME \A p, e : [of |-> p, extended |-> e] # Nobody, SignInv
  PROVE  SignedVerifies
  <1> SUFFICES ASSUME verdict # Nobody,
                      verdict.arg = "None" \/ (verdict.arg = "True") = (message.key # Nobody),
                      NEW key \in SigningKeys, NEW attach \in BOOLEAN,
                      message = Sign(key, message.payload, attach)
               PROVE  ~verdict.raises /\ verdict.verified = ~(key.extended /\ hd.mode \in {"public", "stale public"})
    BY DEF SignedVerifies, Own
  <1> DEFINE arg == verdict.arg
  <1>1. (verdict.raises <=> Raises(message, arg)) /\ verdict.verified = Accepts(message, arg)
    BY DEF SignInv, Told
  <1>2. ~Raises(message, arg) /\ (Accepts(message, arg) <=> Point(key.secret) = key.pub)
    BY SignedAccepted
  <1> DEFINE Right == (Point(key.secret) = key.pub) <=> ~(key.extended /\ hd.mode \in {"public", "stale public"})
  <1>3. Right
    <2>1. ASSUME NEW s \in Secrets, NEW stake \in BOOLEAN, key = PlainKey(s, stake)
          PROVE  Right
      BY <2>1 DEF PlainKey
    <2>2. ASSUME HasSigningKey(hd), NEW stake \in BOOLEAN, key = FromHDWallet(hd, stake)
          PROVE  Right
      <3>1. key.secret = hd.xprv.left /\ key.pub = hd.pub /\ key.extended = TRUE /\ hd.xprv # NoKey
        BY <2>2 DEF FromHDWallet, HasSigningKey
      <3>2. CASE hd.mode \in {"private", "stale"}
        BY <3>1, <3>2 DEF SignInv, KeysTold
      <3>3. CASE hd.mode \in {"public", "stale public"}
        <4>1. Longer(hd.pub, hd.xprv.left) /\ IsSequence(hd.xprv.left)
          BY <3>1, <3>3 DEF SignInv, KeysTold
        <4>2. hd.pub # Point(hd.xprv.left)
          BY <4>1, PointIsPoint DEF Longer, IsSequence
        <4> QED BY <3>1, <3>3, <4>2
      <3> QED BY <3>2, <3>3 DEF SignInv, KeysTold, Modes
    <2> HIDE DEF Right
    <2>3. CASE key \in {PlainKey(s, stake) : s \in Secrets, stake \in BOOLEAN}
      BY <2>1, <2>3
    <2>4. CASE key \in {FromHDWallet(w, stake) : w \in {v \in {hd} : HasSigningKey(v)}, stake \in BOOLEAN}
      BY <2>2, <2>4
    <2> QED BY <2>3, <2>4 DEF SigningKeys
  <1> HIDE DEF arg
  <1>4. Accepts(message, arg) \in BOOLEAN
    BY DEF Accepts
  <1> QED BY <1>1, <1>2, <1>3, <1>4

\* verify accepts what sign makes, with the key of a wallet or any other, however
\* the wallet was derived and goes on to be, unless its last derivation was public:
\* then it signs with a private key that is not the one of its public key, and
\* verify says so (cip8.py:21-226, bip32.py:490-503).  A verification key is not None.
THEOREM SignedIsAccepted ==
  ASSUME \A p, e : [of |-> p, extended |-> e] # Nobody
  PROVE  MsgSpec => []SignedVerifies
<1> DEFINE v == <<hdVars, msgVars>>
           Next == (HDNext /\ UNCHANGED msgVars) \/ MsgNext
<1>1. HDInit /\ MsgInit => SignInv
  BY RootKeysTold DEF HDInit, MsgInit, SignInv
<1>2. SignInv /\ [Next]_v => SignInv'
  <2> SUFFICES ASSUME SignInv, [Next]_v PROVE SignInv'
    OBVIOUS
  <2> DEFINE Wallets == KeysTold(hd') /\ KeysTold(work') /\ (Idle' => work' = hd')
             Verdicts == verdict' # Nobody => Told(message', verdict')
  <2>1. KeysTold(hd) /\ KeysTold(work) /\ (Idle => work = hd) /\ (verdict # Nobody => Told(message, verdict))
    BY DEF SignInv
  <2>2. ASSUME HDNext PROVE Wallets
    <3>1. ASSUME NEW index \in Indexes, NEW private \in BOOLEAN, NEW hardened \in BOOLEAN,
                 Derive(index, private, hardened)
          PROVE  Wallets
      BY <2>1, <3>1, ChildKeysTold DEF Derive
    <3>2. ASSUME NEW path \in Paths, NEW private \in BOOLEAN, DeriveFromPath(path, private)
          PROVE  Wallets
      BY <2>1, <3>2 DEF DeriveFromPath, Idle
    <3>3. CASE PathStep
      <4> DEFINE e == Head(todo)
      <4>1. KeysTold(Child(work, Number(e.index, e.hardened), privately))
        BY <2>1, <3>3, ChildKeysTold DEF PathStep
      <4>2. work' = Child(work, Number(e.index, e.hardened), privately)
        BY <3>3 DEF PathStep
      <4>3. hd' = IF todo' = <<>> THEN work' ELSE hd
        BY <3>3 DEF PathStep
      <4> QED BY <2>1, <4>1, <4>2, <4>3 DEF Idle
    <3>4. CASE PathRaises
      BY <2>1, <3>4 DEF PathRaises
    <3>5. CASE WatchOnly
      <4>1. hd'.xprv = NoKey /\ hd'.pub = hd.pub /\ hd'.mode = hd.mode /\ work' = hd'
        BY <3>5 DEF WatchOnly
      <4>2. KeysTold(hd')
        BY <2>1, <4>1 DEF KeysTold
      <4> QED BY <4>1, <4>2
    <3> QED BY <2>2, <3>1, <3>2, <3>3, <3>4, <3>5 DEF HDNext
  <2>3. ASSUME UNCHANGED hdVars PROVE Wallets
    BY <2>1, <2>3 DEF hdVars, Idle
  <2>4. ASSUME UNCHANGED msgVars PROVE Verdicts
    BY <2>1, <2>4 DEF msgVars
  <2>5. ASSUME SignMessage \/ Receive \/ Alter PROVE verdict' = Nobody
    BY <2>1, <2>5 DEF SignMessage, Receive, Alter, Told
  <2>6. ASSUME NEW arg \in {"None", "True", "False"}, Verify(arg) PROVE Verdicts
    <3>1. verdict' = [arg |-> arg, raises |-> Raises(message, arg), verified |-> Accepts(message, arg)]
      BY <2>6 DEF Verify, Raises, Accepts, Beside, KeyUsed
    <3>2. message' = message /\ message # Nobody
      BY <2>6 DEF Verify
    <3> QED BY <3>1, <3>2, Zenon DEF Told
  <2>7. ASSUME MsgNext PROVE UNCHANGED hdVars /\ Verdicts
    <3>1. UNCHANGED hdVars
      BY <2>7 DEF MsgNext, SignMessage, Receive, Alter, Verify
    <3>2. Verdicts
      BY <2>5, <2>6, <2>7 DEF MsgNext
    <3> QED BY <3>1, <3>2
  <2>8. Wallets /\ Verdicts
    BY <2>2, <2>3, <2>4, <2>7
  <2> QED BY <2>8 DEF SignInv, KeysTold, Told, Raises, Accepts, Beside, KeyUsed, Idle,
      IsPoint, IsSequence, Longer, SignatureValid, SignedPart, AddressMatches, KeyHash, Point
<1>3. SignInv => SignedVerifies
  BY SignInvSuffices
<1> QED BY <1>1, <1>2, <1>3, PTL DEF MsgSpec

=============================================================================

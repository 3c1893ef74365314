----------------------------- MODULE Collateral -----------------------------
(***************************************************************************)
(* _set_collateral_return of TransactionBuilder: the UTxOs that are lost   *)
(* when a script fails, and the output that returns what they hold beyond  *)
(* the percentage of the largest possible fee.                             *)
(*                                                                         *)
(* A UTxO is [id, owner, coin, tokens, size]: owner is the key of its      *)
(* address, or Script; tokens is a number of one token, which stands for   *)
(* any; size is the length of its serialization.  Coin is counted in a     *)
(* fraction of an ADA.                                                     *)
(***************************************************************************)
EXTENDS Integers, FiniteSets, Sums, Folds

CONSTANTS
  UTxOs,
  Script,         \* the owner of a UTxO at a script address
  None,           \* Python's None
  Base, PerRef,   \* the collateral a transaction needs, and what a reference script adds
  Threshold,      \* collateral_return_threshold
  OneAda,
  MinPlain, MinTokens  \* minimal coin of the return, without and with tokens

VARIABLES
  inputs, potential,  \* inputs and potential_inputs of the builder
  wallet,             \* UTxOs the context knows at the address of the return
  refs,               \* number of reference scripts
  plutus,             \* a Plutus script goes to the witness set
  collaterals,        \* sets of UTxOs
  collateralReturn, totalCollateral

collateralVars == <<collaterals, collateralReturn, totalCollateral>>
sourceVars == <<inputs, potential, wallet, refs, plutus>>

ASSUME CollateralAssumption ==
  /\ IsFiniteSet(UTxOs)
  /\ \A u \in UTxOs : u.coin \in Nat /\ u.tokens \in Nat /\ u.size \in Nat
  /\ {Base, PerRef, Threshold, OneAda, MinPlain, MinTokens} \subseteq Nat
  /\ None \notin [coin : Nat, tokens : Nat]

\* The order of candidates is that of their sizes and coins.
ASSUME SortKeysDiffer ==
  \A u, v \in UTxOs : u.size = v.size /\ u.coin = v.coin => u = v

Coin(S) == Total([u \in UTxOs |-> u.coin], S)
NumberOfTokens(S) == Total([u \in UTxOs |-> u.tokens], S)

-----------------------------------------------------------------------------

\* collateral_amount
CollateralAmount == Base + PerRef * refs

ShouldAddCollateralReturn(v) ==
  v.coin > (IF Threshold > OneAda THEN Threshold ELSE OneAda) \/ v.tokens > 0

\* min_lovelace_post_alonzo of the return ...
MinLovelaceOf(v) == IF v.tokens > 0 THEN MinTokens ELSE MinPlain

\* ... which sets a coin of 0 in the Value it measures.
Measured(v) == IF v.coin = 0 THEN [v EXCEPT !.coin = OneAda] ELSE v

\* sorted by length, then falling coin, and popped from the end.
PoppedBefore(u, v) == u.size > v.size \/ (u.size = v.size /\ u.coin < v.coin)
PoppedLast(S) == CHOOSE u \in S : \A v \in S : ~PoppedBefore(u, v)

\* A run of _add_collateral_input has chosen `got`, worth coin and tokens; ret is
\* cur_collateral_return.
Nothing == [got |-> {}, coin |-> 0, tokens |-> 0, ret |-> [coin |-> 0, tokens |-> 0]]

WithReturn(got, coin, tokens) ==
  [got |-> got, coin |-> coin, tokens |-> tokens,
   ret |-> [coin |-> coin - CollateralAmount, tokens |-> tokens]]

\* Mutant: a return that is too small is left to the test at the end.
WantsMoreUntilCovered(s) == s.coin < CollateralAmount

WantsMore(s) ==
  \/ s.coin < CollateralAmount
  \/ /\ ShouldAddCollateralReturn(s.ret)
     /\ 0 <= s.ret.coin
     /\ s.ret.coin < MinLovelaceOf(s.ret)

Eligible(u) == u.owner # Script /\ u.coin > 2 * OneAda

\* One round of the loop; a condition that held measured the return.
Consider(s, u) ==
  IF ~WantsMore(s) THEN s
  ELSE IF Eligible(u) /\ u \notin s.got
       THEN WithReturn(s.got \cup {u}, s.coin + u.coin, s.tokens + u.tokens)
       ELSE IF s.coin < CollateralAmount THEN s ELSE [s EXCEPT !.ret = Measured(@)]

AddCollateralInput(s, candidates) ==
  MapThenFoldSet(LAMBDA u, t : Consider(t, u), WithReturn(s.got, s.coin, s.tokens),
                 LAMBDA u : u, PoppedLast, candidates)

\* Inputs, then potential inputs, then the address; the next source is asked
\* when the coin of the ones before does not suffice.
Chosen(ins) ==
  LET a == AddCollateralInput(Nothing, ins)
      b == IF a.coin < CollateralAmount THEN AddCollateralInput(a, potential) ELSE a
      c == IF b.coin < CollateralAmount THEN AddCollateralInput(b, wallet) ELSE b
  IN  c.got

NeedsCollateral(address) == (plutus \/ refs > 0) /\ address

\* The collaterals after the call, whether it raises or not.
CollateralsOf(address, ins) ==
  IF NeedsCollateral(address) /\ collaterals = {} THEN Chosen(ins) ELSE collaterals

\* return_amount
ReturnOf(S) == [coin |-> Coin(S) - CollateralAmount, tokens |-> NumberOfTokens(S)]

ReturnTooSmall(S) ==
  /\ ShouldAddCollateralReturn(ReturnOf(S))
  /\ MinLovelaceOf(ReturnOf(S)) > Measured(ReturnOf(S)).coin

\* Whether the call raises ValueError.
CollateralRaises(address, S) ==
  NeedsCollateral(address) /\ (Coin(S) < CollateralAmount \/ ReturnTooSmall(S))

SetCollateralReturn(address, ins) ==
  LET S == CollateralsOf(address, ins) IN
  /\ collaterals' = S
  /\ IF /\ NeedsCollateral(address) /\ ~CollateralRaises(address, S)
        /\ ShouldAddCollateralReturn(ReturnOf(S))
     THEN /\ collateralReturn' = ReturnOf(S)
          /\ totalCollateral' = CollateralAmount
     ELSE UNCHANGED <<collateralReturn, totalCollateral>>

=============================================================================

------------------------------ MODULE MCTxBuilder ------------------------------
(***************************************************************************)
(* Instances of TxBuilder for TLC.  A fee is about half of the coin of a   *)
(* UTxO, so that it decides what is covered and whether change is left.    *)
(*                                                                         *)
(* A program makes payments, in two builds, or states deposits, withdraws  *)
(* and donates, adds inputs twice, and builds once.                        *)
(***************************************************************************)
EXTENDS TxBuilder, TLC

CONSTANTS u1, u2, u3, tok, gold, alice, bob

VARIABLE program

mcVars == <<program, allVars>>

V(c, t, g) ==
  [k \in Kinds |-> CASE k = ADA -> c [] k = tok -> t [] OTHER -> g]

MCAssets == {tok, gold}
MCAmount ==
  [u \in UTxOs |-> CASE u = u1 -> V(20, 0, 1)
                     [] u = u2 -> V(14, 2, 0)
                     [] OTHER  -> V(9, 1, 0)]
\* u3 is not at the address of the wallet, or every UTxO is.
MCOwner == [u \in UTxOs |-> IF u = u3 THEN bob ELSE alice]
To(a, v) == [address |-> a, amount |-> v]
NoOutputs == {}
OnePayment == {To(bob, V(6, 0, 0))}
TokenPayment == {To(bob, V(4, 2, 0))}
\* Two payments, and an output to the change address that change merges into.
MCOutputs == OnePayment \cup TokenPayment \cup {To(alice, V(0, 0, 0))}
NoMints == {}
MCMints == {V(0, 1, 0), V(0, -1, 0)}

NoCertificates == {}
Cert(t, c, n) == [type |-> t, credential |-> c, coin |-> n]
\* Two of the deposits that are stated are equal.
MCCertificates ==
  {Cert("registration", alice, 0), Cert("pool", bob, 0), Cert("explicit", alice, 3),
   Cert("explicit", bob, 3), Cert("deregistration", alice, 0)}
NoProposals == {}
MCProposals == {[deposit |-> 4]}

NoScripts == [u \in UTxOs |-> 0]
MCScriptSize == [u \in UTxOs |-> IF u = u2 THEN 2 ELSE 0]
\* The second range is twice as expensive.
MCBytePrice == [j \in 1..MaxScriptSize |-> IF j <= 1 THEN 1 ELSE 2]

MCChain == <<"LargestFirst", "RandomImprove">>
MCJobs ==
  {[chain |-> MCChain, draws |-> FALSE, pool |-> {}, request |-> Zero,
    existing |-> Zero, limit |-> NoLimit, respect |-> TRUE]}

-----------------------------------------------------------------------------

PaymentEdit ==
  \/ \E u \in UTxOs : (inputs[u] = 0 /\ AddInput(u)) \/ ExcludeInput(u)
  \/ \E u \in Offered : AddPotentialInput(u)
  \/ AddInputAddress
  \/ \E o \in Outputs : AddOutput(o)
  \/ \E m \in Mints : SetMint(m)

DepositEdit ==
  \/ \E u \in UTxOs : AddInput(u)
  \/ \E o \in OnePayment : AddOutput(o)
  \/ \E n \in Withdrawals : SetWithdrawals(n)
  \/ \E c \in Certificates : AddCertificate(c)
  \/ \E p \in Proposals : AddProposal(p)
  \/ \E n \in Donations : AddTreasuryDonation(n)

MCMaxBuilds == IF program = "payments" THEN MaxBuilds ELSE 1

MCInit == BuilderInit /\ program \in {"payments", "deposits"}

MCNext ==
  /\ UNCHANGED program
  /\ \/ program = "payments" /\ PaymentEdit
     \/ program = "deposits" /\ DepositEdit
     \/ builds < MCMaxBuilds /\ \E a \in Args : BuildStart(a)
     \/ BuildStep
     \/ Idling /\ builds = MCMaxBuilds /\ UNCHANGED allVars

\* One program that makes every edit.
PlainSpec ==
  /\ BuilderInit /\ program = "any"
  /\ [][BuilderNext /\ UNCHANGED program]_mcVars

MCSpec == MCInit /\ [][MCNext]_mcVars /\ WF_mcVars(BuildStep /\ UNCHANGED program)

=============================================================================

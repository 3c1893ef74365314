--------------------------- MODULE MCCoinSelection ---------------------------
(***************************************************************************)
(* Instances of CoinSelection for TLC.  Lovelace is counted in units of    *)
(* half the minimum ADA of an output, so the boundaries of the minimum and *)
(* of the coin's width lie within reach of a few small UTxOs.              *)
(***************************************************************************)
EXTENDS CoinSelection, TLC

CONSTANTS u1, u2, u3, u4, tok, gold, Pools

V(c, t, g) ==
  [k \in Kinds |-> CASE k = ADA -> c [] k = tok -> t [] OTHER -> g]

MCAssets == {tok, gold}

\* A large ADA-only output, two small ones with tokens, a dust-sized one.
MCAmount ==
  [u \in UTxOs |-> CASE u = u1 -> V(4, 0, 0)
                     [] u = u2 -> V(2, 3, 1)
                     [] u = u3 -> V(2, 1, 0)
                     [] OTHER  -> V(1, 0, 1)]

MCRequests == {V(c, t, 0) : c \in {0, 2, 5}, t \in {0, 2, 4}}
MCExisting == {V(0, 0, 0), V(1, 1, 0)}

MCPools == {{u1, u2, u3, u4}, {u2, u3}}

LargestFirstOnly == <<"LargestFirst">>
RandomImproveOnly == <<"RandomImprove">>
DefaultChain == <<"LargestFirst", "RandomImprove">>

JobsOf(chains, draws, limits) ==
  [chain : chains, draws : {draws}, pool : Pools, request : MCRequests,
   existing : MCExisting, limit : limits, respect : BOOLEAN]

\* Every selector with every limit, the default chain, and a generator that the
\* user gave.
AllJobs ==
  JobsOf({LargestFirstOnly}, FALSE, {NoLimit, 0, 1, 2, 3})
    \cup JobsOf({RandomImproveOnly}, FALSE, {NoLimit, 0, 2})
    \cup JobsOf({DefaultChain}, FALSE, {NoLimit, 0})
    \cup JobsOf({DefaultChain}, TRUE, {NoLimit, 1})
ChainJobs == JobsOf({DefaultChain}, FALSE, {NoLimit})

=============================================================================

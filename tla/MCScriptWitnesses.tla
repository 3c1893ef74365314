-------------------------- MODULE MCScriptWitnesses --------------------------
(***************************************************************************)
(* Instance of ScriptWitnesses for TLC.  The key input sorts before the    *)
(* locked ones, so that its selection moves their indexes; policy 7 sorts  *)
(* before policy 8, whose redeemer moves when both are minted.             *)
(***************************************************************************)
EXTENDS ScriptWitnesses, TLC

CONSTANTS r1, r2

\* Two UTxOs of one script; the second carries the script.
MCLock == [u \in Locked |-> 9]
MCCarried == [u \in Locked |-> IF u = 3 THEN {9} ELSE {}]
MCMints == {{8}, {7, 8}}
MCWithdrawn == {{8}}
MCSymmetry == Permutations({r1, r2})

=============================================================================

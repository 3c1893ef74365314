------------------------------ MODULE CliSubmit ------------------------------
(***************************************************************************)
(* submit_tx_cbor of CardanoCliChainContext: the era is asked for, the     *)
(* transaction is submitted, with the command of old versions when that of *)
(* new ones fails, and its id is computed, again with two commands.  The   *)
(* node is external: it accepts a transaction once, and its answer may be  *)
(* lost after it has accepted.                                             *)
(***************************************************************************)
EXTENDS Integers

VARIABLES
  at,        \* place in the call: the command that is run next, or how it ended
  accepted,  \* the node has the transaction in its mempool
  lost,      \* history: an answer was lost after the node had accepted
  file       \* the temporary file exists

submitVars == <<at, accepted, lost, file>>

Ends == {"returned", "CardanoCliError", "TransactionFailed", "PyCardanoException"}
Commands == {"era", "submit", "legacy_submit", "txid", "legacy_txid"}

\* `with NamedTemporaryFile`: the file goes however the block is left.
GoTo(next) == at' = next /\ file' = (next \notin Ends)

-----------------------------------------------------------------------------

\* tmp_tx_file is created, then the era is queried; an error there is not caught.
QueryEra ==
  /\ at = "era"
  /\ GoTo("submit") \/ GoTo("CardanoCliError")
  /\ UNCHANGED <<accepted, lost>>

\* What happens when a submit command fails.
AfterFailure == IF at = "submit" THEN "legacy_submit" ELSE "TransactionFailed"

\* The node takes a transaction it does not have: its inputs are unspent.
SubmitAccepted ==
  /\ at \in {"submit", "legacy_submit"}
  /\ ~accepted
  /\ accepted' = TRUE
  /\ \/ GoTo("txid") /\ UNCHANGED lost
     \/ GoTo(AfterFailure) /\ lost' = TRUE

\* Mutant: a failed second command is taken for success.
SubmitRefusedIgnored ==
  /\ at \in {"submit", "legacy_submit"}
  /\ GoTo(IF at = "submit" THEN "legacy_submit" ELSE "txid")
  /\ UNCHANGED <<accepted, lost>>

\* The command is unknown, the node refuses, or it has the transaction already.
SubmitRefused ==
  /\ at \in {"submit", "legacy_submit"}
  /\ GoTo(AfterFailure)
  /\ UNCHANGED <<accepted, lost>>

GetTxId ==
  /\ at \in {"txid", "legacy_txid"}
  /\ \/ GoTo("returned")
     \/ GoTo(IF at = "txid" THEN "legacy_txid" ELSE "PyCardanoException")
  /\ UNCHANGED <<accepted, lost>>

SubmitInit ==
  /\ at = "era"
  /\ accepted = FALSE
  /\ lost = FALSE
  /\ file = TRUE

SubmitNext == QueryEra \/ SubmitAccepted \/ SubmitRefused \/ GetTxId

SubmitSpec == SubmitInit /\ [][SubmitNext]_submitVars

-----------------------------------------------------------------------------
(* Properties *)

\* What the caller learns is true of the node (cardano_cli.py:500-556): an id, or
\* an exception about the id, only when the node has the transaction; an error
\* of the era only when it has not; and TransactionFailedException only when it has
\* not or when its answer was lost, since the second command is then refused.
OutcomeIsTrue ==
  /\ at \in {"returned", "PyCardanoException"} => accepted
  /\ at = "CardanoCliError" => ~accepted
  /\ at = "TransactionFailed" => ~accepted \/ lost

=============================================================================

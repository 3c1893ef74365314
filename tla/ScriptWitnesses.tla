--------------------------- MODULE ScriptWitnesses ---------------------------
(***************************************************************************)
(* The redeemers of TransactionBuilder (txbuilder.py): how they get into   *)
(* the builder, how build gives them indexes, how their execution units    *)
(* are estimated on a copy of the builder, and which scripts the witness   *)
(* set carries.  Amounts are left to TxBuilder: which UTxOs are selected   *)
(* and whether collateral, change and fee work out is any choice here.     *)
(*                                                                         *)
(* A Redeemer is an object.  The builder writes tag, index and units into  *)
(* it, and the user may hand in the same object twice.                     *)
(*                                                                         *)
(* Inputs are numbers in the order in which build sorts them; a script is  *)
(* its hash, a number too, and is its own minting policy and credential.   *)
(***************************************************************************)
EXTENDS Integers, Sequences, FiniteSetsExt

CONSTANTS
  KeyInputs,    \* UTxOs locked by keys
  Locked,       \* UTxOs locked by scripts
  Lock,         \* Lock[u]: the script that locks u
  Carried,      \* Carried[u]: the scripts (one or none) that u itself carries
  WithDatum,    \* the locked UTxOs that are added with a datum
  Mints,        \* the sets of policies the user may mint
  Withdrawn,    \* the sets of script credentials the user may withdraw for
  Scripts,      \* the scripts of minting, withdrawals and certificates
  Redeemers,    \* the redeemer objects of the user
  NoRedeemer,   \* redeemer is None
  MaxCertificates, \* bound: certificates
  MaxEdits,     \* bound: edits of the user
  MaxBuilds     \* bound: calls of build

ASSUME WitnessAssumption ==
  /\ KeyInputs \cup Locked \subseteq Nat
  /\ Scripts \subseteq Nat
  /\ KeyInputs \cap Locked = {}
  /\ NoRedeemer \notin Redeemers
  /\ MaxCertificates \in Nat
  /\ IsFiniteSet(KeyInputs \cup Locked)
  /\ \A S \in Mints \cup Withdrawn : S \subseteq Nat /\ IsFiniteSet(S)

Inputs == KeyInputs \cup Locked
Lists == {"mint", "withdrawal", "certificate"}
Tags == Lists \cup {"spend"}

VARIABLES
  listed,      \* listed[u]: how often u is in _inputs
  minted,      \* the policies of the mint field
  withdrawn,   \* the script credentials of the withdrawals field
  certs,       \* the number of certificates
  spend,       \* _inputs_to_redeemers
  lists,       \* _minting_, _withdrawal_ and _certificate_script_to_redeemers
  datums,      \* datums, by the UTxO they were given for
  references,  \* _reference_scripts
  estimate,    \* _should_estimate_execution_units
  heap,        \* the fields of the redeemer objects
  stage,       \* "idle", or how far the running build has come
  tx,          \* what build and build_witness_set have just returned
  refused,     \* history: the inputs that add_script_input recorded, then refused
  fresh,       \* history: the running build has estimated execution units
  strayed,     \* history: the copy selected UTxOs that the builder did not
  lost,        \* history: an estimation failed after it had been ticked off
  edits, builds \* counters of the bounds

fields == <<listed, minted, withdrawn, certs, spend, lists, datums, references>>
history == <<refused, fresh, strayed, lost>>
vars == <<fields, estimate, heap, stage, tx, history, edits, builds>>

-----------------------------------------------------------------------------
(* Redeemer objects *)

Purpose(t, x) == [tag |-> t, target |-> x]
NoPurpose == Purpose("none", 0)

\* What a transaction body holds of the fields.
Body(bag) == [inputs |-> {u \in Inputs : bag[u] > 0}, mint |-> minted,
              withdrawal |-> withdrawn, certificates |-> certs]
NoBody == [inputs |-> {}, mint |-> {}, withdrawal |-> {}, certificates |-> 0]

\* Execution units: none, (0, 0), what the user gave, or an estimate for the
\* purpose for in a transaction with that body.
Units(kind) == [kind |-> kind, for |-> NoPurpose, body |-> NoBody]
Estimated(p, b) == [kind |-> "estimated", for |-> p, body |-> b]

\* `if redeemer.ex_units`: units of (0, 0) are falsy.
HasUnits(r) == heap[r].units.kind \in {"given", "estimated"}

\* Mutant: redeemers without units are let in at any time.
ConsolidatesAll(r) == estimate = "yes" => ~HasUnits(r)

\* _consolidate_redeemer accepts r: all redeemers bring units or none does.
Consolidates(r) ==
  /\ estimate = "no" => HasUnits(r)
  /\ estimate = "yes" => ~HasUnits(r)

Decision(r) == IF estimate # "undecided" THEN estimate
               ELSE IF HasUnits(r) THEN "no" ELSE "yes"

FitsTag(r, t) == heap[r].tag \in {"none", t}

Object(t, i, u) == [tag |-> t, index |-> i, units |-> u]
Consolidated(r, t, i) ==
  Object(t, i, IF Decision(r) = "yes" THEN Units("zero") ELSE heap[r].units)

NoTx == [body |-> NoBody, repeated |-> FALSE, entries |-> {},
         fresh |-> FALSE, strayed |-> FALSE]

-----------------------------------------------------------------------------
(* The user edits the builder *)

Edit ==
  /\ stage = "idle"
  /\ edits < MaxEdits
  /\ edits' = edits + 1
  /\ tx' = NoTx
  /\ UNCHANGED <<stage, fresh, strayed, lost, builds>>

AddInput(u) ==
  /\ Edit
  /\ listed[u] = 0
  /\ listed' = [listed EXCEPT ![u] = 1]
  /\ UNCHANGED <<minted, withdrawn, certs, spend, lists, datums, references,
                 estimate, heap, refused>>

SetMint(S) ==
  /\ Edit
  /\ minted' = S
  /\ UNCHANGED <<listed, withdrawn, certs, spend, lists, datums, references,
                 estimate, heap, refused>>

SetWithdrawals(S) ==
  /\ Edit
  /\ withdrawn' = S
  /\ UNCHANGED <<listed, minted, certs, spend, lists, datums, references,
                 estimate, heap, refused>>

AddCertificate ==
  /\ Edit
  /\ certs < MaxCertificates
  /\ certs' = certs + 1
  /\ UNCHANGED <<listed, minted, withdrawn, spend, lists, datums, references,
                 estimate, heap, refused>>

\* The candidate scripts of add_script_input: the one the UTxO carries, whether
\* it locks the UTxO or not; only else the one the caller gives or one found at
\* the address, where "missing" is that none of them matches.
Unlocks(u, way) == IF Carried[u] # {} THEN Lock[u] \in Carried[u] ELSE way # "missing"

\* self.inputs.append(utxo)
ListedWith(u, way) == [listed EXCEPT ![u] = @ + 1]

\* The datum is recorded before the redeemer is looked at, and both before the
\* script is; an exception takes nothing back.
AddScriptInput(u, r, way) ==
  LET accepted == r = NoRedeemer \/ (FitsTag(r, "spend") /\ Consolidates(r))
      complete == accepted /\ Unlocks(u, way)
  IN  /\ Edit
      /\ listed[u] < 2
      /\ datums' = datums \cup ({u} \cap WithDatum)
      /\ IF r # NoRedeemer /\ accepted
         THEN /\ heap' = [heap EXCEPT ![r] = Consolidated(r, "spend", @.index)]
              /\ estimate' = Decision(r)
              /\ spend' = [spend EXCEPT ![u] = r]
         ELSE /\ heap' = IF r # NoRedeemer /\ FitsTag(r, "spend")
                         THEN [heap EXCEPT ![r] = Object("spend", @.index, @.units)]
                         ELSE heap
              /\ UNCHANGED <<estimate, spend>>
      /\ listed' = IF complete THEN ListedWith(u, way) ELSE listed
      /\ references' = references \cup
           (IF complete /\ way = "reference" /\ Carried[u] = {} THEN {Lock[u]} ELSE {})
      /\ refused' = IF complete THEN refused ELSE refused \cup {u}
      /\ UNCHANGED <<minted, withdrawn, certs, lists>>

\* add_minting_script, add_withdrawal_script and add_certificate_script.  For a
\* certificate the index is set at once, to the last certificate added.
AddListedScript(t, s, r, way) ==
  LET target == IF t = "certificate" THEN certs - 1 ELSE s
      index  == IF t = "certificate" THEN certs - 1 ELSE heap[r].index
  IN  /\ Edit
      /\ r # NoRedeemer => FitsTag(r, t)
      /\ t = "certificate" => certs > 0
      /\ IF r # NoRedeemer /\ ~Consolidates(r)
         THEN /\ heap' = [heap EXCEPT ![r] = Object(t, index, @.units)]
              /\ UNCHANGED <<estimate, lists, references>>
         ELSE /\ IF r = NoRedeemer
                 THEN UNCHANGED <<heap, estimate>>
                 ELSE /\ heap' = [heap EXCEPT ![r] = Consolidated(r, t, index)]
                      /\ estimate' = Decision(r)
              /\ lists' = [lists EXCEPT ![t] =
                             Append(@, [script |-> s, target |-> target, redeemer |-> r])]
              /\ references' = references \cup (IF way = "reference" THEN {s} ELSE {})
      /\ UNCHANGED <<listed, minted, withdrawn, certs, spend, datums, refused>>

Ways == {"given", "reference", "missing"}

UserEdit ==
  \/ \E u \in KeyInputs : AddInput(u)
  \/ \E S \in Mints : SetMint(S)
  \/ \E S \in Withdrawn : SetWithdrawals(S)
  \/ AddCertificate
  \/ \E u \in Locked, r \in Redeemers \cup {NoRedeemer}, way \in Ways :
       AddScriptInput(u, r, way)
  \/ \E t \in Lists, s \in Scripts, r \in Redeemers \cup {NoRedeemer},
        way \in Ways \ {"missing"} : AddListedScript(t, s, r, way)

-----------------------------------------------------------------------------
(* Indexes *)

\* The position of x among the elements of S in ascending order.
PositionIn(S, x) == Cardinality({y \in S : y < x})
Spent == {u \in Inputs : listed[u] > 0}

\* The members of S with their repetitions.
Copies(bag, S) == UNION {{w} \X (1..bag[w]) : w \in S}

\* Mutant: only the inputs with a script are counted.
LastPositionAmongLocked(bag, u) == Cardinality(Copies(bag, {w \in Locked : w <= u})) - 1

\* enumerate(self.inputs): the last position of u in the sorted list.
LastPosition(bag, u) == Cardinality(Copies(bag, {w \in Inputs : w <= u})) - 1

Field(t) == IF t = "mint" THEN minted ELSE withdrawn
UsesOf(t, r) == {i \in DOMAIN lists[t] : lists[t][i].redeemer = r}

\* The index that _set_redeemer_index leaves in r when the inputs are bag: where
\* r serves several purposes the last one decides; certificates keep theirs.
IndexOf(r, bag) ==
  LET us == {u \in Locked : spend[u] = r /\ bag[u] > 0}
      t  == heap[r].tag
  IN  IF t = "spend" /\ us # {} THEN LastPosition(bag, Max(us))
      ELSE IF t \in {"mint", "withdrawal"} /\ UsesOf(t, r) # {}
           THEN PositionIn(Field(t), lists[t][Max(UsesOf(t, r))].script)
           ELSE heap[r].index

\* Mutant: only the policies are looked at.
NotMinted ==
  \E i \in DOMAIN lists["mint"] :
    /\ lists["mint"][i].redeemer # NoRedeemer
    /\ lists["mint"][i].script \notin minted

\* sorted_mint_policies.index raises when the policy is not minted.
NotInField ==
  \E t \in {"mint", "withdrawal"} : \E i \in DOMAIN lists[t] :
    lists[t][i].redeemer # NoRedeemer /\ lists[t][i].script \notin Field(t)

-----------------------------------------------------------------------------
(* build *)

End == stage' = "idle" /\ fresh' = FALSE /\ strayed' = FALSE

\* Selection adds UTxOs, the inputs are sorted and the redeemers indexed; or one
\* of the two raises.  (Indexes that are set before the exception are set again
\* before anything reads them.)
Prepare(S) ==
  /\ stage = "idle"
  /\ builds < MaxBuilds
  /\ builds' = builds + 1
  /\ tx' = NoTx
  /\ listed' = [u \in Inputs |-> IF u \in S THEN listed[u] + 1 ELSE listed[u]]
  /\ IF NotInField
     THEN End /\ UNCHANGED heap
     ELSE /\ stage' = "indexed"
          /\ heap' = [r \in Redeemers |->
                       Object(heap[r].tag, IndexOf(r, listed'), heap[r].units)]
          /\ UNCHANGED <<fresh, strayed>>
  /\ UNCHANGED <<minted, withdrawn, certs, spend, lists, datums, references,
                 estimate, refused, lost, edits>>

Selectable == {u \in KeyInputs : listed[u] = 0}

\* Selection, collateral, or change and fee raise.
BuildRaises ==
  /\ stage # "idle"
  /\ End
  /\ lost' = (lost \/ stage = "copied")
  /\ UNCHANGED <<fields, estimate, heap, tx, refused, edits, builds>>

\* The redeemers in the builder, with what each is for: _redeemer_list.
Entries ==
  {[purpose |-> Purpose("spend", u), redeemer |-> spend[u]] :
     u \in {w \in Locked : spend[w] # NoRedeemer}}
  \cup UNION {{[purpose |-> Purpose(t, lists[t][i].target),
                redeemer |-> lists[t][i].redeemer] :
                 i \in {j \in DOMAIN lists[t] : lists[t][j].redeemer # NoRedeemer}} :
                t \in Lists}
Attached ==
  {r \in Redeemers : \/ \E u \in Locked : spend[u] = r
                     \/ \E t \in Lists : UsesOf(t, r) # {}}

\* _update_execution_units without estimation.
SkipEstimate ==
  /\ stage = "indexed"
  /\ estimate # "yes"
  /\ stage' = "ready"
  /\ UNCHANGED <<fields, estimate, heap, tx, history, edits, builds>>

\* _estimate_execution_units: the copy is taken, and the estimation is ticked
\* off in the builder itself before the copy is built.
CopyBuilder ==
  /\ stage = "indexed"
  /\ estimate = "yes"
  /\ estimate' = "no"
  /\ stage' = "copied"
  /\ UNCHANGED <<fields, heap, tx, history, edits, builds>>

\* What the ledger takes the pointer (t, i) of a redeemer for, in body b.
Named(t, i, b) ==
  IF t = "spend"
  THEN {Purpose(t, u) : u \in {w \in b.inputs \cap Locked : PositionIn(b.inputs, w) = i}}
  ELSE IF t = "certificate"
       THEN (IF i < b.certificates THEN {Purpose(t, i)} ELSE {})
       ELSE {Purpose(t, x) : x \in {y \in b[t] : PositionIn(b[t], y) = i}}

\* Mutant: the answers are looked up by index alone.
AnswersByIndex(r, bag) ==
  IF \E q \in Attached : IndexOf(q, bag) = heap[r].index
  THEN UNION {Named(t, heap[r].index, Body(bag)) : t \in Tags} ELSE {}

\* What evaluate_tx says of the pointer of r, when the copy spends bag: something
\* if the copy's redeemers have that pointer and it names a purpose.
Answers(r, bag) ==
  IF \E q \in Attached : heap[q].tag = heap[r].tag /\ IndexOf(q, bag) = heap[r].index
  THEN Named(heap[r].tag, heap[r].index, Body(bag)) ELSE {}

\* The copy selects by itself, perhaps more; its answers are looked up with the
\* indexes of the builder.
EstimateUnits(S) ==
  LET bag == [u \in Inputs |-> IF u \in S THEN listed[u] + 1 ELSE listed[u]]
      answered == {r \in Attached : Answers(r, bag) # {}}
      Answer(r) == Estimated(CHOOSE p \in Answers(r, bag) : TRUE, Body(bag))
      Written(T) == [r \in Redeemers |->
                       IF r \in T THEN Object(heap[r].tag, heap[r].index, Answer(r))
                       ELSE heap[r]]
  IN  /\ stage = "copied"
      /\ IF answered = Attached
         THEN /\ heap' = Written(Attached)
              /\ stage' = "ready"
              /\ fresh' = TRUE
              /\ strayed' = (S # {})
              /\ UNCHANGED lost
         ELSE /\ \E T \in SUBSET answered : heap' = Written(T)
              /\ End
              /\ lost' = TRUE
      /\ UNCHANGED <<fields, estimate, tx, refused, edits, builds>>

\* all_scripts
AllScripts ==
  {Lock[u] : u \in Spent \cap Locked}
    \cup UNION {{lists[t][i].script : i \in DOMAIN lists[t]} : t \in Lists}
Supplied == references \cup UNION {Carried[u] : u \in Spent \cap Locked}

\* build_witness_set(remove_dup_script=True)
WitnessScripts == AllScripts \ Supplied

\* The scripts that the ledger runs.
Needed ==
  {Lock[u] : u \in Spent \cap Locked} \cup minted \cup withdrawn
    \cup {lists["certificate"][i].script : i \in DOMAIN lists["certificate"]}
Bare ==
  UNION {{lists[t][i].script : i \in {j \in DOMAIN lists[t] :
                                        lists[t][j].redeemer = NoRedeemer}} : t \in Lists}

\* Change and fee succeed; build and build_witness_set return.
Finish ==
  /\ stage = "ready"
  /\ tx' = [body |-> Body(listed),
            repeated |-> \E u \in Inputs : listed[u] > 1,
            entries |-> {[purpose |-> e.purpose, redeemer |-> e.redeemer,
                          object |-> heap[e.redeemer]] : e \in Entries},
            fresh |-> fresh, strayed |-> strayed]
  /\ End
  /\ UNCHANGED <<fields, estimate, heap, refused, lost, edits, builds>>

-----------------------------------------------------------------------------

Init ==
  /\ listed = [u \in Inputs |-> 0]
  /\ minted = {}
  /\ withdrawn = {}
  /\ certs = 0
  /\ spend = [u \in Locked |-> NoRedeemer]
  /\ lists = [t \in Lists |-> <<>>]
  /\ datums = {}
  /\ references = {}
  /\ estimate = "undecided"
  /\ heap \in [Redeemers -> {[tag |-> "none", index |-> 0, units |-> Units(k)] :
                               k \in {"none", "given"}}]
  /\ stage = "idle"
  /\ tx = NoTx
  /\ refused = {}
  /\ fresh = FALSE
  /\ strayed = FALSE
  /\ lost = FALSE
  /\ edits = 0
  /\ builds = 0

\* The user is done.
Finished == stage = "idle" /\ builds = MaxBuilds /\ UNCHANGED vars

Next ==
  \/ UserEdit
  \/ \E S \in SUBSET Selectable : Prepare(S)
  \/ SkipEstimate \/ CopyBuilder
  \/ \E S \in SUBSET Selectable : EstimateUnits(S)
  \/ BuildRaises
  \/ Finish
  \/ Finished

Spec == Init /\ [][Next]_vars

-----------------------------------------------------------------------------
(* Properties *)

PurposeType == [tag : Tags \cup {"none"}, target : Nat]
BodyType == [inputs : SUBSET Inputs, mint : SUBSET Nat, withdrawal : SUBSET Nat,
             certificates : Nat]
UnitsType == [kind : {"none", "zero", "given", "estimated"}, for : PurposeType,
              body : BodyType]
EntryType == [script : Scripts, target : Nat, redeemer : Redeemers \cup {NoRedeemer}]

\* Every variable of the builder keeps its type.
TypeOK ==
  /\ listed \in [Inputs -> Nat]
  /\ certs \in 0..MaxCertificates
  /\ spend \in [Locked -> Redeemers \cup {NoRedeemer}]
  /\ lists \in [Lists -> Seq(EntryType)]
  /\ datums \in SUBSET Locked
  /\ refused \in SUBSET Locked
  /\ estimate \in {"undecided", "yes", "no"}
  /\ heap \in [Redeemers -> [tag : Tags \cup {"none"}, index : Nat, units : UnitsType]]
  /\ stage \in {"idle", "indexed", "copied", "ready"}
  /\ {fresh, strayed, lost} \subseteq BOOLEAN

\* All redeemers of the builder bring units or none does (txbuilder.py:225-249):
\* before anything was estimated, either every one is to be estimated or every
\* one has units.  A redeemer without units outlives that only where an
\* estimation got lost.
AllOrNone ==
  /\ estimate = "undecided" => Attached = {}
  /\ estimate = "yes" => \A r \in Attached : heap[r].units = Units("zero")
  /\ estimate = "no" /\ stage # "copied" /\ ~lost => \A r \in Attached : HasUnits(r)

\* A transaction is returned with a redeemer of no units only after a build
\* whose estimation failed, which no later build repeats (txbuilder.py:1660).
ZeroOnlyAfterLoss ==
  (\E e \in tx.entries : e.object.units.kind \in {"none", "zero"}) => lost

\* The inductive invariant behind the two.
UnitsInv ==
  /\ heap = [r \in Redeemers |-> heap[r]]
  /\ spend \in [Locked -> Redeemers \cup {NoRedeemer}]
  /\ lists \in [Lists -> Seq(EntryType)]
  /\ certs \in Nat
  /\ estimate \in {"undecided", "yes", "no"}
  /\ lost \in BOOLEAN
  /\ stage = "copied" => estimate = "no"
  /\ stage = "ready" => estimate # "yes"
  /\ AllOrNone
  /\ ZeroOnlyAfterLoss

\* A redeemer object that serves two purposes.
Shared(e) == \E f \in tx.entries : f.redeemer = e.redeemer /\ f.purpose # e.purpose

\* A redeemer for an input that the transaction does not spend.
Orphan(e) == e.purpose.tag = "spend" /\ e.purpose.target \notin tx.body.inputs

\* Every redeemer of a returned transaction points at what it was given for,
\* though selection and later edits move the indexes (txbuilder.py:1004-1039);
\* except where its object serves two purposes, or an input is listed twice,
\* which counts twice here and once in the body.  A certificate's redeemer that
\* is handed in again moves its index before it is refused, which needs an
\* estimation that got lost (txbuilder.py:445-447).  A redeemer without its input
\* stems from a call of add_script_input that raised after it had recorded it
\* (txbuilder.py:296-347).
RedeemersPointHome ==
  \A e \in tx.entries :
    /\ Orphan(e) => e.purpose.target \in refused
    /\ /\ ~Shared(e) /\ ~Orphan(e) /\ ~tx.repeated
       /\ e.purpose.tag = "certificate" => ~lost
       =>
         Named(e.object.tag, e.object.index, tx.body) = {e.purpose}

\* The units that a build estimates are those of its own redeemers in its own
\* body, although they were computed for a copy that is built anew
\* (txbuilder.py:1614-1667); unless the copy selected more than the builder.
EstimatesFit ==
  tx.fresh /\ ~tx.strayed /\ ~tx.repeated =>
    \A e \in tx.entries :
      ~Shared(e) /\ ~Orphan(e) => e.object.units = Estimated(e.purpose, tx.body)

\* The witness set holds no script that the ledger does not run, except where
\* one was given without a redeemer, and none that an input or a reference input
\* carries (txbuilder.py:534-567, 1177-1199).
NoScriptInVain ==
  stage = "ready" => WitnessScripts \subseteq (Needed \cup Bare) \ Supplied

=============================================================================

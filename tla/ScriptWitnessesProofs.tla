------------------------ MODULE ScriptWitnessesProofs ------------------------
(***************************************************************************)
(* The redeemers of a builder all bring execution units or none does,      *)
(* whatever is added, refused, built and rebuilt; and what build returns   *)
(* points at what it was given for, with units estimated for that.         *)
(***************************************************************************)
EXTENDS ScriptWitnesses, SequenceTheorems, FiniteSetTheorems, TLAPS

\* The invariant holds in a new builder.
LEMMA UnitsInit == Init => UnitsInv
<1> SUFFICES ASSUME Init PROVE UnitsInv OBVIOUS
<1>1. Attached = {}
  BY WitnessAssumption DEF Init, Attached, UsesOf, Lists
<1>2. heap = [r \in Redeemers |-> heap[r]]
  BY DEF Init
<1>3. lists \in [Lists -> Seq(EntryType)]
  BY DEF Init
<1>4. QED
  BY <1>1, <1>2, <1>3 DEF Init, UnitsInv, AllOrNone, ZeroOnlyAfterLoss, NoTx

\* What was returned stays as it is or is forgotten.
LEMMA ReturnedKept ==
  ASSUME ZeroOnlyAfterLoss, tx' \in {tx, NoTx}, lost => lost'
  PROVE  ZeroOnlyAfterLoss'
BY DEF ZeroOnlyAfterLoss, NoTx

\* Steps that change no redeemer, keep every attachment and the decision.
LEMMA SameUnits ==
  ASSUME UnitsInv,
         heap' = [r \in Redeemers |-> heap'[r]],
         \A r \in Redeemers : heap'[r].units = heap[r].units,
         spend' = spend, lists' = lists, certs' \in Nat, estimate' = estimate,
         lost' \in BOOLEAN, lost => lost', stage # "copied", stage' # "copied",
         stage' = "ready" => estimate # "yes", ZeroOnlyAfterLoss'
  PROVE  UnitsInv'
<1>1. Attached' = Attached
  BY DEF Attached, UsesOf
<1>2. \A r \in Attached : r \in Redeemers
  BY DEF Attached
<1>3. AllOrNone'
  BY <1>1, <1>2 DEF UnitsInv, AllOrNone, HasUnits, Units, NoPurpose, Purpose, NoBody
<1>4. QED
  BY <1>3 DEF UnitsInv, EntryType

\* A redeemer that _consolidate_redeemer accepts fits those that are there.
LEMMA Accepted ==
  ASSUME UnitsInv, NEW r \in Redeemers, NEW t, NEW i, Consolidates(r),
         heap' = [heap EXCEPT ![r] = Consolidated(r, t, i)],
         estimate' = Decision(r), Attached' \subseteq Attached \cup {r},
         lost' = lost, stage = "idle"
  PROVE  AllOrNone' /\ heap' = [q \in Redeemers |-> heap'[q]]
                    /\ estimate' \in {"yes", "no"}
<1>1. /\ heap'[r].units = IF Decision(r) = "yes" THEN Units("zero") ELSE heap[r].units
      /\ \A q \in Redeemers : q # r => heap'[q] = heap[q]
      /\ heap' = [q \in Redeemers |-> heap'[q]]
  BY DEF UnitsInv, Consolidated, Object
<1>2. \A q \in Attached' : q = r \/ (q \in Attached /\ q \in Redeemers)
  BY DEF Attached
<1>3. estimate' \in {"yes", "no"}
  BY DEF Decision, UnitsInv
<1>4. CASE estimate' = "yes"
  <2>1. estimate = "undecided" => Attached = {}
    BY DEF UnitsInv, AllOrNone
  <2>2. estimate \in {"undecided", "yes"}
    BY <1>4 DEF Decision, UnitsInv
  <2>3. \A q \in Attached : heap[q].units = Units("zero")
    BY <2>1, <2>2 DEF UnitsInv, AllOrNone
  <2>4. \A q \in Attached' : heap'[q].units = Units("zero")
    BY <1>1, <1>2, <1>4, <2>3
  <2>5. QED
    BY <1>1, <1>4, <2>4 DEF AllOrNone, Units, NoPurpose, Purpose, NoBody
<1>5. CASE estimate' = "no"
  <2>1. HasUnits(r)
    BY <1>5 DEF Decision, Consolidates
  <2>2. estimate = "undecided" \/ estimate = "no"
    BY <1>5 DEF Decision, UnitsInv
  <2>3. estimate = "undecided" => Attached = {}
    BY DEF UnitsInv, AllOrNone
  <2>4. ~lost => \A q \in Attached : HasUnits(q)
    BY <2>2, <2>3 DEF UnitsInv, AllOrNone
  <2>5. heap'[r].units = heap[r].units
    BY <1>1, <1>5
  <2>6. ~lost' => \A q \in Attached' : HasUnits(q)'
    BY <1>1, <1>2, <2>1, <2>4, <2>5 DEF HasUnits
  <2>7. QED
    BY <1>1, <1>5, <2>6 DEF AllOrNone
<1>6. QED
  BY <1>3, <1>4, <1>5

\* add_script_input, accepted or refused.
LEMMA ScriptInputKeeps ==
  ASSUME UnitsInv, NEW u \in Locked, NEW r \in Redeemers \cup {NoRedeemer},
         NEW way \in Ways, AddScriptInput(u, r, way)
  PROVE  UnitsInv'
<1> DEFINE taken == r # NoRedeemer /\ FitsTag(r, "spend") /\ Consolidates(r)
<1>1. /\ stage = "idle" /\ stage' = "idle" /\ lost' = lost
      /\ lists' = lists /\ certs' = certs /\ ZeroOnlyAfterLoss'
  BY ReturnedKept DEF AddScriptInput, Edit, UnitsInv
<1>2. CASE taken
  <2>1. /\ r \in Redeemers
        /\ heap' = [heap EXCEPT ![r] = Consolidated(r, "spend", heap[r].index)]
        /\ estimate' = Decision(r)
        /\ spend' = [spend EXCEPT ![u] = r]
    BY <1>2 DEF AddScriptInput
  <2>2. Attached' \subseteq Attached \cup {r}
    BY <1>1, <2>1 DEF Attached, UsesOf, UnitsInv
  <2>3. /\ AllOrNone'
        /\ heap' = [q \in Redeemers |-> heap'[q]]
        /\ estimate' \in {"yes", "no"}
    <3> DEFINE ix == heap[r].index
    <3>1. heap' = [heap EXCEPT ![r] = Consolidated(r, "spend", ix)]
      BY <2>1
    <3> HIDE DEF ix
    <3>2. QED
      BY <1>1, <1>2, <2>1, <2>2, <3>1, Accepted
  <2>4. spend' \in [Locked -> Redeemers \cup {NoRedeemer}]
    BY <2>1 DEF UnitsInv
  <2>5. QED
    BY <1>1, <2>3, <2>4 DEF UnitsInv, EntryType
<1>3. CASE ~taken
  <2>1. /\ estimate' = estimate
        /\ spend' = spend
        /\ \/ heap' = heap
           \/ /\ r \in Redeemers
              /\ heap' = [heap EXCEPT ![r] = Object("spend", heap[r].index, heap[r].units)]
    BY <1>3 DEF AddScriptInput
  <2>2. /\ heap' = [q \in Redeemers |-> heap'[q]]
        /\ \A q \in Redeemers : heap'[q].units = heap[q].units
    BY <2>1 DEF UnitsInv, Object
  <2>3. QED
    BY <1>1, <2>1, <2>2, SameUnits DEF UnitsInv
<1>4. QED
  BY <1>2, <1>3

\* The three other ways to add a script.
LEMMA ListedScriptKeeps ==
  ASSUME UnitsInv, NEW t \in Lists, NEW s \in Scripts,
         NEW r \in Redeemers \cup {NoRedeemer}, NEW way, AddListedScript(t, s, r, way)
  PROVE  UnitsInv'
<1> DEFINE target == IF t = "certificate" THEN certs - 1 ELSE s
           index == IF t = "certificate" THEN certs - 1 ELSE heap[r].index
           entry == [script |-> s, target |-> target, redeemer |-> r]
<1>1. /\ stage = "idle" /\ stage' = "idle" /\ lost' = lost
      /\ spend' = spend /\ certs' = certs /\ certs \in Nat /\ ZeroOnlyAfterLoss'
  BY ReturnedKept DEF AddListedScript, Edit, UnitsInv
<1>2. CASE r # NoRedeemer /\ ~Consolidates(r)
  <2>1. /\ estimate' = estimate
        /\ lists' = lists
        /\ r \in Redeemers
        /\ heap' = [heap EXCEPT ![r] = Object(t, index, heap[r].units)]
    BY <1>2 DEF AddListedScript
  <2> HIDE DEF index
  <2>2. /\ heap' = [q \in Redeemers |-> heap'[q]]
        /\ \A q \in Redeemers : heap'[q].units = heap[q].units
    BY <2>1 DEF UnitsInv, Object
  <2>3. QED
    BY <1>1, <2>1, <2>2, SameUnits DEF UnitsInv
<1>3. CASE r = NoRedeemer \/ Consolidates(r)
  <2>1. lists' = [lists EXCEPT ![t] = Append(lists[t], entry)]
    BY <1>3 DEF AddListedScript
  <2>2. entry \in EntryType /\ entry.redeemer = r
    <3>1. target \in Nat
      BY <1>1, WitnessAssumption DEF AddListedScript
    <3>2. QED
      BY <3>1 DEF EntryType
  <2> HIDE DEF entry
  <2>3. lists \in [Lists -> Seq(EntryType)]
    BY DEF UnitsInv
  <2>4. lists' \in [Lists -> Seq(EntryType)]
    <3>1. Append(lists[t], entry) \in Seq(EntryType)
      BY <2>2, <2>3, AppendProperties
    <3>2. QED
      BY <2>1, <2>3, <3>1
  <2>5. ASSUME NEW q \in Redeemers, q # r, NEW l \in Lists, UsesOf(l, q)' # {}
        PROVE  UsesOf(l, q) # {}
    <3>1. CASE l # t
      BY <2>1, <2>3, <2>5, <3>1 DEF UsesOf
    <3>2. CASE l = t
      <4> DEFINE L == lists[t]
      <4>1. L \in Seq(EntryType) /\ lists'[t] = Append(L, entry)
        BY <2>1, <2>3
      <4>2. PICK i \in DOMAIN lists'[t] : lists'[t][i].redeemer = q
        BY <2>5, <3>2 DEF UsesOf
      <4> HIDE DEF L
      <4>3. /\ i \in 1..(Len(L) + 1)
            /\ DOMAIN L = 1..Len(L)
            /\ i # Len(L) + 1 => lists'[t][i] = L[i]
            /\ lists'[t][Len(L) + 1] = entry
        BY <4>1, <4>2, AppendProperties, LenProperties
      <4>4. i # Len(L) + 1
        BY <2>2, <2>5, <4>2, <4>3
      <4>5. i \in DOMAIN L /\ L[i].redeemer = q
        BY <4>1, <4>2, <4>3, <4>4, LenProperties
      <4>6. QED
        BY <3>2, <4>5 DEF UsesOf, L
    <3>3. QED
      BY <3>1, <3>2
  <2>6. Attached' \subseteq Attached \cup {r}
    BY <1>1, <2>5 DEF Attached
  <2>7. CASE r = NoRedeemer
    <3>1. heap' = heap /\ estimate' = estimate
      BY <1>3, <2>7 DEF AddListedScript
    <3>2. \A q \in Attached' : q \in Attached
      BY <2>6, <2>7, WitnessAssumption DEF Attached
    <3>3. AllOrNone'
      BY <1>1, <3>1, <3>2 DEF UnitsInv, AllOrNone, HasUnits
    <3>4. QED
      BY <1>1, <2>4, <3>1, <3>3 DEF UnitsInv, EntryType
  <2>8. CASE r # NoRedeemer
    <3>1. /\ r \in Redeemers
          /\ Consolidates(r)
          /\ heap' = [heap EXCEPT ![r] = Consolidated(r, t, index)]
          /\ estimate' = Decision(r)
      BY <1>3, <2>8 DEF AddListedScript
    <3> HIDE DEF index
    <3>2. /\ AllOrNone'
          /\ heap' = [q \in Redeemers |-> heap'[q]]
          /\ estimate' \in {"yes", "no"}
      BY <1>1, <2>6, <3>1, Accepted
    <3>3. QED
      BY <1>1, <2>4, <3>2 DEF UnitsInv, EntryType
  <2>9. QED
    BY <2>7, <2>8
<1>4. QED
  BY <1>2, <1>3

\* The answers for the copy reach every redeemer, or the estimation is lost.
LEMMA EstimateKeeps ==
  ASSUME UnitsInv, NEW S, EstimateUnits(S)
  PROVE  UnitsInv'
<1> DEFINE bag == [u \in Inputs |-> IF u \in S THEN listed[u] + 1 ELSE listed[u]]
           answered == {r \in Attached : Answers(r, bag) # {}}
           Answer(r) == Estimated(CHOOSE p \in Answers(r, bag) : TRUE, Body(bag))
           Written(T) == [r \in Redeemers |->
                            IF r \in T THEN Object(heap[r].tag, heap[r].index, Answer(r))
                            ELSE heap[r]]
<1>1. /\ stage = "copied" /\ spend' = spend /\ lists' = lists /\ certs' = certs
      /\ estimate' = estimate /\ lost \in BOOLEAN /\ tx' = tx
  BY DEF EstimateUnits, fields, UnitsInv
<1>2. estimate = "no"
  BY <1>1 DEF UnitsInv
<1>3. Attached' = Attached
  BY <1>1 DEF Attached, UsesOf
<1>4. CASE answered = Attached
  <2>1. heap' = Written(Attached) /\ stage' = "ready" /\ lost' = lost
    BY <1>4 DEF EstimateUnits
  <2> HIDE DEF bag, answered
  <2>2. \A r \in Attached : r \in Redeemers
    BY DEF Attached
  <2>3. \A r \in Attached : heap'[r].units.kind = "estimated"
    BY <2>1, <2>2 DEF Object, Estimated
  <2>4. heap' = [r \in Redeemers |-> heap'[r]]
    BY <2>1
  <2>5. AllOrNone'
    BY <1>1, <1>2, <1>3, <2>3 DEF AllOrNone, HasUnits
  <2>6. ZeroOnlyAfterLoss'
    BY <1>1, <2>1, ReturnedKept DEF UnitsInv
  <2>7. QED
    BY <1>1, <1>2, <2>1, <2>4, <2>5, <2>6 DEF UnitsInv, EntryType
<1>5. CASE answered # Attached
  <2>1. \E T \in SUBSET answered : heap' = Written(T)
    BY <1>5 DEF EstimateUnits
  <2>2. stage' = "idle" /\ lost' = TRUE
    BY <1>5 DEF EstimateUnits, End
  <2> HIDE DEF bag, answered
  <2>3. heap' = [r \in Redeemers |-> heap'[r]]
    BY <2>1
  <2>4. AllOrNone'
    BY <1>1, <1>2, <2>2 DEF AllOrNone
  <2>5. ZeroOnlyAfterLoss'
    BY <2>2 DEF ZeroOnlyAfterLoss
  <2>6. QED
    BY <1>1, <1>2, <2>2, <2>3, <2>4, <2>5 DEF UnitsInv, EntryType
<1>6. QED
  BY <1>4, <1>5

\* _redeemer_list holds the redeemers of the dictionary and of the three lists.
LEMMA EntriesAttached ==
  ASSUME UnitsInv, NEW f \in Entries
  PROVE  f.redeemer \in Attached
<1> DEFINE Bearing(t) == {j \in DOMAIN lists[t] : lists[t][j].redeemer # NoRedeemer}
           Of(t, i) == [purpose |-> Purpose(t, lists[t][i].target),
                        redeemer |-> lists[t][i].redeemer]
<1>1. \/ \E u \in Locked : spend[u] # NoRedeemer /\ f.redeemer = spend[u]
      \/ \E t \in Lists : \E i \in Bearing(t) : f = Of(t, i)
  BY DEF Entries
<1>2. CASE \E u \in Locked : spend[u] # NoRedeemer /\ f.redeemer = spend[u]
  BY <1>2 DEF Attached, UnitsInv
<1>3. CASE \E t \in Lists : \E i \in Bearing(t) : f = Of(t, i)
  <2>0. PICK t \in Lists : \E i \in Bearing(t) : f = Of(t, i)
    BY <1>3
  <2>1. PICK i \in Bearing(t) : f.redeemer = lists[t][i].redeemer
    BY <2>0
  <2>2. lists[t] \in Seq(EntryType) /\ i \in DOMAIN lists[t]
    BY <2>1 DEF UnitsInv
  <2>3. lists[t][i] \in EntryType
    BY <2>2, ElementOfSeq, LenProperties
  <2>4. f.redeemer \in Redeemers
    BY <2>1, <2>3 DEF EntryType
  <2>5. i \in UsesOf(t, f.redeemer)
    BY <2>1, <2>2 DEF UsesOf
  <2>6. QED
    BY <2>4, <2>5 DEF Attached
<1>4. QED
  BY <1>1, <1>2, <1>3

\* Every step of the builder keeps the invariant.
LEMMA UnitsNext == UnitsInv /\ [Next]_vars => UnitsInv'
<1> SUFFICES ASSUME UnitsInv, [Next]_vars PROVE UnitsInv'
  OBVIOUS
<1> USE DEF UnitsInv
<1>1. ASSUME NEW u \in KeyInputs, AddInput(u) PROVE UnitsInv'
  BY <1>1, SameUnits, ReturnedKept DEF AddInput, Edit
<1>2. ASSUME NEW S \in Mints, SetMint(S) PROVE UnitsInv'
  BY <1>2, SameUnits, ReturnedKept DEF SetMint, Edit
<1>3. ASSUME NEW S \in Withdrawn, SetWithdrawals(S) PROVE UnitsInv'
  BY <1>3, SameUnits, ReturnedKept DEF SetWithdrawals, Edit
<1>4. CASE AddCertificate
  BY <1>4, SameUnits, ReturnedKept DEF AddCertificate, Edit
<1>5. ASSUME NEW S, Prepare(S) PROVE UnitsInv'
  <2>1. CASE heap' = heap
    BY <1>5, <2>1, SameUnits, ReturnedKept DEF Prepare, End
  <2>2. CASE heap' # heap
    <3>1. heap' = [r \in Redeemers |->
                     Object(heap[r].tag, IndexOf(r, listed'), heap[r].units)]
      BY <1>5, <2>2 DEF Prepare
    <3>2. /\ heap' = [r \in Redeemers |-> heap'[r]]
          /\ \A r \in Redeemers : heap'[r].units = heap[r].units
      BY <3>1 DEF Object
    <3>3. QED
      BY <1>5, <3>2, SameUnits, ReturnedKept DEF Prepare, End
  <2>3. QED
    BY <2>1, <2>2
<1>6. CASE SkipEstimate
  BY <1>6, SameUnits, ReturnedKept DEF SkipEstimate, fields, history
<1>7. CASE CopyBuilder
  <2>1. Attached' = Attached
    BY <1>7 DEF CopyBuilder, fields, Attached, UsesOf
  <2>2. AllOrNone'
    BY <1>7 DEF CopyBuilder, AllOrNone
  <2>3. QED
    BY <1>7, <2>2, ReturnedKept DEF CopyBuilder, fields, history, EntryType
<1>8. CASE BuildRaises
  <2>1. Attached' = Attached
    BY <1>8 DEF BuildRaises, fields, Attached, UsesOf
  <2>2. AllOrNone'
    BY <1>8, <2>1 DEF BuildRaises, End, fields, AllOrNone, HasUnits, Units, NoPurpose,
      Purpose, NoBody
  <2>3. QED
    BY <1>8, <2>2, ReturnedKept DEF BuildRaises, End, fields, EntryType
<1>9. CASE Finish
  <2>1. ASSUME NEW e \in tx'.entries, ~lost
        PROVE  e.object.units.kind \notin {"none", "zero"}
    <3> DEFINE Shown(f) == [purpose |-> f.purpose, redeemer |-> f.redeemer,
                            object |-> heap[f.redeemer]]
    <3>0. tx'.entries = {Shown(f) : f \in Entries}
      BY <1>9 DEF Finish
    <3>1. PICK f \in Entries : e.object = heap[f.redeemer]
      <4>1. PICK f \in Entries : e = Shown(f)
        BY <2>1, <3>0
      <4>2. e.object = heap[f.redeemer]
        BY <4>1
      <4>3. QED
        BY <4>2
    <3>2. f.redeemer \in Attached
      BY EntriesAttached
    <3>3. estimate = "no" /\ stage = "ready"
      BY <1>9, <3>2 DEF Finish, AllOrNone
    <3>4. HasUnits(f.redeemer)
      BY <2>1, <3>2, <3>3 DEF AllOrNone
    <3>5. QED
      BY <3>1, <3>4 DEF HasUnits
  <2>2. ZeroOnlyAfterLoss'
    BY <1>9, <2>1 DEF Finish, ZeroOnlyAfterLoss
  <2>3. QED
    BY <1>9, <2>2, SameUnits DEF Finish, End, fields
<1>10. CASE UNCHANGED vars
  <2>1. Attached' = Attached
    BY <1>10 DEF vars, fields, Attached, UsesOf
  <2>2. AllOrNone'
    BY <1>10, <2>1 DEF vars, fields, history, AllOrNone, HasUnits, Units, NoPurpose,
      Purpose, NoBody
  <2>3. QED
    BY <1>10, <2>2, ReturnedKept DEF vars, fields, history, EntryType
<1>11. QED
  BY <1>1, <1>2, <1>3, <1>4, <1>5, <1>6, <1>7, <1>8, <1>9, <1>10,
    ScriptInputKeeps, ListedScriptKeeps, EstimateKeeps
    DEF Next, UserEdit, Finished

\* The redeemers of a builder all bring execution units or none does, and those
\* that bring none have them estimated unless an estimation got lost
\* (_consolidate_redeemer, _update_execution_units).
THEOREM AllOrNoneTheorem == Spec => []AllOrNone
<1>1. UnitsInv => AllOrNone
  BY DEF UnitsInv
<1>2. QED
  BY <1>1, UnitsInit, UnitsNext, PTL DEF Spec

\* build returns no redeemer without execution units unless an earlier build has
\* lost its estimation (_estimate_execution_units).
THEOREM ZeroUnitsTheorem == Spec => []ZeroOnlyAfterLoss
<1>1. UnitsInv => ZeroOnlyAfterLoss
  BY DEF UnitsInv
<1>2. QED
  BY <1>1, UnitsInit, UnitsNext, PTL DEF Spec

-----------------------------------------------------------------------------
(* Where the redeemers point *)

\* The sets and counts the indexes are computed from.
CountsInv ==
  /\ listed \in [Inputs -> Nat]
  /\ minted \subseteq Nat /\ IsFiniteSet(minted)
  /\ withdrawn \subseteq Nat /\ IsFiniteSet(withdrawn)

\* A redeemer has the tag of what it was given for, and serves nothing else.
TagsInv ==
  /\ \A u \in Locked : spend[u] # NoRedeemer => heap[spend[u]].tag = "spend"
  /\ \A t \in Lists : \A i \in DOMAIN lists[t] :
       lists[t][i].redeemer # NoRedeemer => heap[lists[t][i].redeemer].tag = t

\* What the entries of the lists are for is there.
TargetsInv ==
  \A t \in Lists : \A i \in DOMAIN lists[t] :
    IF t = "certificate" THEN lists[t][i].target \in 0..(certs - 1)
    ELSE lists[t][i].target = lists[t][i].script

\* An input that has a redeemer is listed, or was refused after it had got one.
RefusedInv == \A u \in Locked : spend[u] # NoRedeemer => listed[u] > 0 \/ u \in refused

\* The index of a certificate's redeemer is that of one of its certificates.
CertificatesInv ==
  ~lost =>
    \A r \in Redeemers : UsesOf("certificate", r) # {} =>
      \E i \in UsesOf("certificate", r) : heap[r].index = lists["certificate"][i].target

\* During a build the indexes are those of the sorted inputs, policies and
\* credentials, and every policy and credential with a redeemer is there.
IndexesInv ==
  stage # "idle" =>
    /\ ~NotInField
    /\ \A r \in Redeemers : heap[r].index = IndexOf(r, listed)

\* A lost estimation is never made up for.
LostInv ==
  /\ lost => estimate = "no" /\ stage # "copied" /\ ~fresh
  /\ fresh => stage = "ready"

\* Fresh units are what the evaluation says of the pointer in this very body.
FreshInv ==
  stage = "ready" /\ fresh /\ ~strayed =>
    \A r \in Attached :
      heap[r].units = Estimated(CHOOSE p \in Named(heap[r].tag, heap[r].index, Body(listed)) : TRUE,
                                Body(listed))

PointersInv ==
  /\ CountsInv /\ TagsInv /\ TargetsInv /\ RefusedInv /\ CertificatesInv
  /\ IndexesInv /\ LostInv /\ FreshInv
  /\ RedeemersPointHome /\ EstimatesFit

-----------------------------------------------------------------------------
(* Positions in sorted lists *)

\* A bounded set of numbers has its greatest member.
LEMMA GreatestMember ==
  ASSUME NEW n \in Nat, NEW S \in SUBSET (1..n), S # {}
  PROVE  Max(S) \in S /\ \A i \in S : Max(S) >= i
<1> DEFINE D == {d \in Nat : n - d \in S}
<1>1. D # {} /\ D \subseteq Nat
  <2>1. PICK i \in S : TRUE
    OBVIOUS
  <2>2. n - i \in Nat /\ n - (n - i) = i
    OBVIOUS
  <2> QED BY <2>1, <2>2
<1>2. PICK d \in D : \A e \in D : ~(<<e, d>> \in OpToRel(<, Nat))
  BY <1>1, NatLessThanWellFounded, WFMin
<1>3. \A e \in D : ~(e < d)
  BY <1>2 DEF OpToRel
<1>4. \A i \in S : n - d >= i
  <2> TAKE i \in S
  <2>1. n - i \in D /\ i \in Int
    OBVIOUS
  <2> QED BY <1>3, <2>1
<1>5. \E m \in S : \A i \in S : m >= i
  BY <1>4
<1> QED BY <1>5 DEF Max

\* Two members of a set have different positions.
LEMMA PositionsDiffer ==
  ASSUME NEW S \in SUBSET Nat, IsFiniteSet(S), NEW x \in S, NEW y \in S, x < y
  PROVE  PositionIn(S, x) < PositionIn(S, y)
<1> DEFINE A == {z \in S : z < x}
           B == {z \in S : z < y}
<1>1. IsFiniteSet(A) /\ IsFiniteSet(B)
  BY FS_Subset
<1>2. A \cup {x} \subseteq B /\ x \notin A
  <2>1. ASSUME NEW z \in S, z < x
        PROVE  z < y
    BY <2>1
  <2>2. ~(x < x)
    OBVIOUS
  <2> QED BY <2>1, <2>2
<1> HIDE DEF A, B
<1>3. Cardinality(A) \in Nat /\ Cardinality(A \cup {x}) = Cardinality(A) + 1
  BY <1>1, <1>2, FS_AddElement, FS_CardinalityType
<1>4. Cardinality(A \cup {x}) <= Cardinality(B) /\ Cardinality(B) \in Nat
  BY <1>1, <1>2, FS_Subset, FS_CardinalityType
<1> QED BY <1>3, <1>4 DEF PositionIn, A, B

\* So a position names one member.
LEMMA PositionNames ==
  ASSUME NEW S \in SUBSET Nat, IsFiniteSet(S), NEW x \in S
  PROVE  {y \in S : PositionIn(S, y) = PositionIn(S, x)} = {x}
<1>1. ASSUME NEW y \in S, PositionIn(S, y) = PositionIn(S, x)
      PROVE  y = x
  <2>1. ~(x < y) /\ ~(y < x)
    <3>1. PositionIn(S, y) \in Nat /\ PositionIn(S, x) \in Nat
      BY FS_Subset, FS_CardinalityType DEF PositionIn
    <3> QED BY <1>1, <3>1, PositionsDiffer
  <2> QED BY <2>1
<1> QED BY <1>1

\* In a list without repetitions the last position of an input is its position
\* in the set of inputs (enumerate(self.inputs), txbuilder.py:1013).
LEMMA LastIsPosition ==
  ASSUME NEW bag \in [Inputs -> Nat], \A w \in Inputs : bag[w] <= 1,
         NEW u \in Inputs, bag[u] > 0
  PROVE  LastPosition(bag, u) = PositionIn({w \in Inputs : bag[w] > 0}, u)
<1> DEFINE L == {w \in Inputs : w <= u}
           once == {w \in L : bag[w] > 0}
           before == {w \in {v \in Inputs : bag[v] > 0} : w < u}
           pair == [w \in once |-> <<w, 1>>]
<1>1. IsFiniteSet(once) /\ IsFiniteSet(before)
  BY WitnessAssumption, FS_Subset DEF Inputs
<1>2. Inputs \subseteq Nat
  BY WitnessAssumption DEF Inputs
<1>3. \A w \in Inputs : bag[w] = 0 \/ bag[w] = 1
  OBVIOUS
<1>4. Copies(bag, L) = {<<w, 1>> : w \in once}
  <2>1. ASSUME NEW q \in Copies(bag, L)
        PROVE  q \in {<<w, 1>> : w \in once}
    <3>1. PICK w \in L : q \in {w} \X (1..bag[w])
      BY <2>1 DEF Copies
    <3>2. bag[w] = 1 /\ q = <<w, 1>>
      BY <1>3, <3>1
    <3> QED BY <3>2
  <2>2. ASSUME NEW w \in once
        PROVE  <<w, 1>> \in Copies(bag, L)
    <3>1. bag[w] = 1
      BY <1>3
    <3>2. <<w, 1>> \in {w} \X (1..bag[w]) /\ w \in L
      BY <3>1
    <3> QED BY <3>2 DEF Copies
  <2> QED BY <2>1, <2>2
<1>5. pair \in Bijection(once, Copies(bag, L))
  BY <1>4 DEF Bijection, Injection, Surjection, IsInjective
<1>6. Cardinality(Copies(bag, L)) = Cardinality(once)
  BY <1>1, <1>5, FS_Bijection DEF ExistsBijection
<1>7. once = before \cup {u} /\ u \notin before
  <2>1. ASSUME NEW w \in Inputs, w <= u
        PROVE  w < u \/ w = u
    BY <1>2, <2>1
  <2>2. u \in once /\ u \notin before
    BY <1>2
  <2>3. ASSUME NEW w \in Inputs, w < u
        PROVE  w <= u
    BY <1>2, <2>3
  <2>4. before \subseteq once
    BY <2>3
  <2>5. once \subseteq before \cup {u}
    BY <2>1
  <2> QED BY <2>2, <2>4, <2>5
<1>8. Cardinality(once) = Cardinality(before) + 1 /\ Cardinality(before) \in Nat
  BY <1>1, <1>7, FS_AddElement, FS_CardinalityType
<1> QED BY <1>6, <1>8 DEF LastPosition, PositionIn

-----------------------------------------------------------------------------
(* The redeemers of a body *)

\* What _redeemer_list holds, by where it comes from.
SpendEntry(u) == [purpose |-> Purpose("spend", u), redeemer |-> spend[u]]
ListEntry(t, i) == [purpose |-> Purpose(t, lists[t][i].target), redeemer |-> lists[t][i].redeemer]

LEMMA EntriesAre ==
  /\ \A u \in Locked : spend[u] # NoRedeemer => SpendEntry(u) \in Entries
  /\ \A t \in Lists : \A i \in DOMAIN lists[t] :
       lists[t][i].redeemer # NoRedeemer => ListEntry(t, i) \in Entries
  /\ \A e \in Entries :
       \/ \E u \in Locked : spend[u] # NoRedeemer /\ e = SpendEntry(u)
       \/ \E t \in Lists : \E i \in DOMAIN lists[t] :
            lists[t][i].redeemer # NoRedeemer /\ e = ListEntry(t, i)
<1>1. \A u \in Locked : spend[u] # NoRedeemer => SpendEntry(u) \in Entries
  BY DEF Entries, SpendEntry
<1>2. ASSUME NEW t \in Lists, NEW i \in DOMAIN lists[t], lists[t][i].redeemer # NoRedeemer
      PROVE  ListEntry(t, i) \in Entries
  BY <1>2 DEF Entries, ListEntry
<1>3. ASSUME NEW e \in Entries
      PROVE  \/ \E u \in Locked : spend[u] # NoRedeemer /\ e = SpendEntry(u)
             \/ \E t \in Lists : \E i \in DOMAIN lists[t] :
                  lists[t][i].redeemer # NoRedeemer /\ e = ListEntry(t, i)
  BY DEF Entries, SpendEntry, ListEntry
<1> QED BY <1>1, <1>2, <1>3

\* The fields of the entries of the lists.
LEMMA ListTyped ==
  ASSUME UnitsInv, NEW t \in Lists, NEW i \in DOMAIN lists[t]
  PROVE  lists[t][i] \in EntryType /\ DOMAIN lists[t] = 1..Len(lists[t]) /\ Len(lists[t]) \in Nat
<1>1. lists[t] \in Seq(EntryType)
  BY DEF UnitsInv
<1> QED BY <1>1, ElementOfSeq, LenProperties

\* What an entry's redeemer is for, seen from its tag.
LEMMA EntryTags ==
  ASSUME UnitsInv, TagsInv, NEW e \in Entries
  PROVE  heap[e.redeemer].tag = e.purpose.tag /\ e.redeemer \in Redeemers
<1>1. CASE \E u \in Locked : spend[u] # NoRedeemer /\ e = SpendEntry(u)
  <2>1. PICK u \in Locked : spend[u] # NoRedeemer /\ e = SpendEntry(u)
    BY <1>1
  <2>2. spend[u] \in Redeemers
    BY <2>1 DEF UnitsInv
  <2> QED BY <2>1, <2>2 DEF TagsInv, SpendEntry, Purpose
<1>2. CASE \E t \in Lists : \E i \in DOMAIN lists[t] :
             lists[t][i].redeemer # NoRedeemer /\ e = ListEntry(t, i)
  <2>0. PICK t \in Lists : \E i \in DOMAIN lists[t] :
             lists[t][i].redeemer # NoRedeemer /\ e = ListEntry(t, i)
    BY <1>2
  <2>1. PICK i \in DOMAIN lists[t] : lists[t][i].redeemer # NoRedeemer /\ e = ListEntry(t, i)
    BY <2>0
  <2>2. lists[t][i].redeemer \in Redeemers
    BY <2>1, ListTyped DEF EntryType
  <2> QED BY <2>1, <2>2 DEF TagsInv, ListEntry, Purpose
<1> QED BY <1>1, <1>2, EntriesAre

\* The redeemer of an input, indexed in the sorted inputs, names the input.
LEMMA SpendHome ==
  ASSUME UnitsInv, CountsInv, IndexesInv, stage # "idle",
         NEW u \in Locked, spend[u] # NoRedeemer, heap[spend[u]].tag = "spend",
         \A f \in Entries : f.redeemer = spend[u] => f.purpose = Purpose("spend", u),
         listed[u] > 0, \A w \in Inputs : ~(listed[w] > 1)
  PROVE  Named("spend", heap[spend[u]].index, Body(listed)) = {Purpose("spend", u)}
<1> DEFINE r == spend[u]
           us == {w \in Locked : spend[w] = r /\ listed[w] > 0}
           ins == {w \in Inputs : listed[w] > 0}
<1>1. r \in Redeemers /\ u \in Inputs
  BY DEF UnitsInv, Inputs
<1>2. us = {u}
  <2>1. ASSUME NEW w \in us
        PROVE  w = u
    <3>1. SpendEntry(w) \in Entries
      BY EntriesAre
    <3>2. SpendEntry(w).redeemer = r /\ SpendEntry(w).purpose = Purpose("spend", w)
      BY DEF SpendEntry
    <3>3. Purpose("spend", w) = Purpose("spend", u)
      BY <3>1, <3>2
    <3> QED BY <3>3 DEF Purpose
  <2> QED BY <2>1
<1>3. Max(us) = u
  <2>1. u \in Nat
    BY <1>1, WitnessAssumption DEF Inputs
  <2> QED BY <1>2, <2>1 DEF Max
<1>4. heap[r].index = LastPosition(listed, u)
  <2>1. heap[r].index = IndexOf(r, listed)
    BY <1>1 DEF IndexesInv
  <2> QED BY <1>2, <1>3, <2>1 DEF IndexOf
<1>5. heap[r].index = PositionIn(ins, u)
  <2>1. \A w \in Inputs : listed[w] <= 1
    BY DEF CountsInv
  <2> QED BY <1>1, <1>4, <2>1, LastIsPosition DEF CountsInv
<1>6. ins \in SUBSET Nat /\ IsFiniteSet(ins) /\ u \in ins
  BY <1>1, WitnessAssumption, FS_Subset DEF Inputs
<1>7. {w \in ins : PositionIn(ins, w) = heap[r].index} = {u}
  BY <1>5, <1>6, PositionNames
<1>8. Body(listed).inputs = ins
  BY DEF Body
<1> HIDE DEF ins
<1>9. Named("spend", heap[r].index, Body(listed)) =
        {Purpose("spend", x) : x \in {w \in ins \cap Locked : PositionIn(ins, w) = heap[r].index}}
  BY <1>8 DEF Named
<1>10. {w \in ins \cap Locked : PositionIn(ins, w) = heap[r].index} = {u}
  BY <1>7
<1> QED BY <1>9, <1>10

\* The redeemer of a policy or credential names it.
LEMMA FieldHome ==
  ASSUME UnitsInv, CountsInv, TargetsInv, IndexesInv, stage # "idle",
         NEW t \in {"mint", "withdrawal"}, NEW i \in DOMAIN lists[t],
         lists[t][i].redeemer # NoRedeemer, heap[lists[t][i].redeemer].tag = t,
         \A f \in Entries : f.redeemer = lists[t][i].redeemer => f.purpose = ListEntry(t, i).purpose
  PROVE  Named(t, heap[lists[t][i].redeemer].index, Body(listed)) = {ListEntry(t, i).purpose}
<1> DEFINE r == lists[t][i].redeemer
           x == lists[t][i].script
<1>1. t \in Lists /\ t # "certificate" /\ t # "spend"
  BY DEF Lists
<1>2. r \in Redeemers /\ DOMAIN lists[t] = 1..Len(lists[t]) /\ Len(lists[t]) \in Nat
  BY <1>1, ListTyped DEF EntryType
<1>3. ListEntry(t, i).purpose = Purpose(t, x)
  BY <1>1 DEF TargetsInv, ListEntry
<1>4. UsesOf(t, r) # {} /\ UsesOf(t, r) \subseteq 1..Len(lists[t])
  BY <1>2 DEF UsesOf
<1> DEFINE m == Max(UsesOf(t, r))
<1>5. m \in UsesOf(t, r)
  BY <1>2, <1>4, GreatestMember
<1>6. lists[t][m].script = x
  <2>1. m \in DOMAIN lists[t] /\ lists[t][m].redeemer = r
    BY <1>5 DEF UsesOf
  <2>2. ListEntry(t, m) \in Entries
    BY <1>1, <2>1, EntriesAre
  <2>3. ListEntry(t, m).redeemer = r /\ ListEntry(t, m).purpose = Purpose(t, lists[t][m].script)
    BY <1>1, <2>1 DEF ListEntry, TargetsInv
  <2>4. Purpose(t, lists[t][m].script) = Purpose(t, x)
    BY <1>3, <2>2, <2>3
  <2> QED BY <2>4 DEF Purpose
<1>7. heap[r].index = PositionIn(Field(t), x)
  <2>1. heap[r].index = IndexOf(r, listed)
    BY <1>2 DEF IndexesInv
  <2>2. IndexOf(r, listed) = PositionIn(Field(t), lists[t][m].script)
    BY <1>1, <1>4 DEF IndexOf
  <2> QED BY <1>6, <2>1, <2>2
<1>8. x \in Field(t) /\ Field(t) \in SUBSET Nat /\ IsFiniteSet(Field(t))
  BY <1>1 DEF IndexesInv, NotInField, CountsInv, Field
<1>9. {y \in Field(t) : PositionIn(Field(t), y) = heap[r].index} = {x}
  BY <1>7, <1>8, PositionNames
<1>10. Body(listed)[t] = Field(t)
  BY DEF Body, Field
<1> HIDE DEF r
<1>11. Named(t, heap[r].index, Body(listed)) =
         {Purpose(t, y) : y \in {z \in Field(t) : PositionIn(Field(t), z) = heap[r].index}}
  BY <1>1, <1>10 DEF Named
<1> QED BY <1>3, <1>9, <1>11 DEF r

\* The redeemer of a certificate names the certificate it was added for.
LEMMA CertificateHome ==
  ASSUME UnitsInv, TargetsInv, CertificatesInv, ~lost,
         NEW i \in DOMAIN lists["certificate"],
         lists["certificate"][i].redeemer # NoRedeemer,
         \A f \in Entries : f.redeemer = lists["certificate"][i].redeemer
                               => f.purpose = ListEntry("certificate", i).purpose
  PROVE  Named("certificate", heap[lists["certificate"][i].redeemer].index, Body(listed)) =
           {ListEntry("certificate", i).purpose}
<1> DEFINE r == lists["certificate"][i].redeemer
<1>1. "certificate" \in Lists
  BY DEF Lists
<1>2. r \in Redeemers /\ i \in UsesOf("certificate", r)
  BY <1>1, ListTyped DEF EntryType, UsesOf
<1>3. PICK j \in UsesOf("certificate", r) : heap[r].index = lists["certificate"][j].target
  BY <1>2 DEF CertificatesInv
<1>4. j \in DOMAIN lists["certificate"] /\ lists["certificate"][j].redeemer = r
  BY <1>3 DEF UsesOf
<1>5. ListEntry("certificate", j).purpose = ListEntry("certificate", i).purpose
  <2>1. ListEntry("certificate", j) \in Entries /\ ListEntry("certificate", j).redeemer = r
    BY <1>1, <1>4, EntriesAre DEF ListEntry
  <2> QED BY <2>1
<1>6. lists["certificate"][j].target = lists["certificate"][i].target
  BY <1>5 DEF ListEntry, Purpose
<1>7. lists["certificate"][j].target \in 0..(certs - 1) /\ certs \in Nat
  BY <1>1, <1>4 DEF TargetsInv, UnitsInv
<1>8. heap[r].index < Body(listed).certificates
  BY <1>3, <1>7 DEF Body
<1>9. ListEntry("certificate", i).purpose = Purpose("certificate", heap[r].index)
  BY <1>3, <1>6 DEF ListEntry
<1> HIDE DEF r
<1>10. Named("certificate", heap[r].index, Body(listed)) = {Purpose("certificate", heap[r].index)}
  BY <1>8 DEF Named
<1> QED BY <1>9, <1>10 DEF r

\* During a build every redeemer that serves one purpose points at it.
LEMMA EntryHome ==
  ASSUME UnitsInv, CountsInv, TagsInv, TargetsInv, CertificatesInv, IndexesInv, stage # "idle",
         NEW e \in Entries,
         \A f \in Entries : f.redeemer = e.redeemer => f.purpose = e.purpose,
         e.purpose.tag = "spend" => e.purpose.target \in Body(listed).inputs,
         \A w \in Inputs : ~(listed[w] > 1),
         e.purpose.tag = "certificate" => ~lost
  PROVE  Named(heap[e.redeemer].tag, heap[e.redeemer].index, Body(listed)) = {e.purpose}
<1>1. ASSUME NEW u \in Locked, spend[u] # NoRedeemer, e = SpendEntry(u)
      PROVE  Named(heap[e.redeemer].tag, heap[e.redeemer].index, Body(listed)) = {e.purpose}
  <2>1. e.redeemer = spend[u] /\ e.purpose = Purpose("spend", u) /\ e.purpose.tag = "spend"
        /\ e.purpose.target = u
    BY <1>1 DEF SpendEntry, Purpose
  <2>2. heap[spend[u]].tag = "spend" /\ listed[u] > 0
    BY <1>1, <2>1 DEF TagsInv, Body
  <2> QED BY <1>1, <2>1, <2>2, SpendHome
<1>2. ASSUME NEW t \in Lists, NEW i \in DOMAIN lists[t], lists[t][i].redeemer # NoRedeemer,
             e = ListEntry(t, i)
      PROVE  Named(heap[e.redeemer].tag, heap[e.redeemer].index, Body(listed)) = {e.purpose}
  <2>1. e.redeemer = lists[t][i].redeemer /\ e.purpose.tag = t
    BY <1>2 DEF ListEntry, Purpose
  <2>2. heap[e.redeemer].tag = t
    BY <1>2, <2>1 DEF TagsInv
  <2>3. CASE t = "certificate"
    BY <1>2, <2>1, <2>2, <2>3, CertificateHome
  <2>4. CASE t \in {"mint", "withdrawal"}
    BY <1>2, <2>1, <2>2, <2>4, FieldHome
  <2> QED BY <2>3, <2>4 DEF Lists
<1> QED BY <1>1, <1>2, EntriesAre

-----------------------------------------------------------------------------
(* Steps *)

\* The five ways in which a step treats what the redeemers point at: the user
\* edits something else, adds a script in one of two ways, a build prepares or
\* estimates, or nothing of it changes.
Elsewhere ==
  /\ tx' = NoTx /\ stage = "idle" /\ stage' = "idle"
  /\ UNCHANGED <<spend, lists, estimate, heap, refused, lost, fresh>>
  /\ listed' \in [Inputs -> Nat] /\ \A u \in Inputs : listed[u] <= listed'[u]
  /\ minted' \subseteq Nat /\ IsFiniteSet(minted')
  /\ withdrawn' \subseteq Nat /\ IsFiniteSet(withdrawn')
  /\ certs' \in Nat /\ certs <= certs'

LEMMA EditsElsewhere ==
  ASSUME UnitsInv, CountsInv,
         \/ \E u \in KeyInputs : AddInput(u)
         \/ \E S \in Mints : SetMint(S)
         \/ \E S \in Withdrawn : SetWithdrawals(S)
         \/ AddCertificate
  PROVE  Elsewhere
<1>1. \A u \in Inputs : listed[u] \in Nat
  BY DEF CountsInv
<1>2. ASSUME NEW u \in KeyInputs, AddInput(u)
      PROVE  Elsewhere
  <2>1. listed' = [listed EXCEPT ![u] = 1] /\ listed[u] = 0
    BY <1>2 DEF AddInput
  <2>2. listed \in [Inputs -> Nat] /\ u \in Inputs
    BY DEF CountsInv, Inputs
  <2>3. listed' \in [Inputs -> Nat]
    BY <2>1, <2>2
  <2>4. \A w \in Inputs : listed[w] <= listed'[w]
    <3> TAKE w \in Inputs
    <3>1. listed'[w] = IF w = u THEN 1 ELSE listed[w]
      BY <2>1, <2>2
    <3> QED BY <1>1, <2>1, <3>1
  <2> QED BY <1>2, <2>3, <2>4 DEF AddInput, Edit, Elsewhere, CountsInv, UnitsInv
<1>3. ASSUME NEW S \in Mints, SetMint(S)
      PROVE  Elsewhere
  BY <1>1, <1>3, WitnessAssumption DEF SetMint, Edit, Elsewhere, CountsInv, UnitsInv
<1>4. ASSUME NEW S \in Withdrawn, SetWithdrawals(S)
      PROVE  Elsewhere
  BY <1>1, <1>4, WitnessAssumption DEF SetWithdrawals, Edit, Elsewhere, CountsInv, UnitsInv
<1>5. CASE AddCertificate
  BY <1>1, <1>5 DEF AddCertificate, Edit, Elsewhere, CountsInv, UnitsInv
<1> QED BY <1>2, <1>3, <1>4, <1>5

\* Appending to one of the lists leaves what was there where it was.
LEMMA Appended ==
  ASSUME UnitsInv, NEW t \in Lists, NEW entry \in EntryType,
         lists' = [lists EXCEPT ![t] = Append(lists[t], entry)]
  PROVE  /\ \A l \in Lists : \A i \in DOMAIN lists'[l] :
              \/ i \in DOMAIN lists[l] /\ lists'[l][i] = lists[l][i]
              \/ l = t /\ i = Len(lists[t]) + 1 /\ lists'[l][i] = entry
         /\ \A l \in Lists : \A i \in DOMAIN lists[l] :
              i \in DOMAIN lists'[l] /\ lists'[l][i] = lists[l][i]
         /\ Len(lists[t]) + 1 \in DOMAIN lists'[t]
         /\ lists'[t][Len(lists[t]) + 1] = entry
<1> DEFINE L == lists[t]
<1>1. L \in Seq(EntryType) /\ lists \in [Lists -> Seq(EntryType)]
  BY DEF UnitsInv
<1>2. lists'[t] = Append(L, entry) /\ \A l \in Lists : l # t => lists'[l] = lists[l]
  BY <1>1
<1> HIDE DEF L
<1>3. /\ DOMAIN L = 1..Len(L) /\ Len(L) \in Nat
      /\ DOMAIN lists'[t] = 1..(Len(L) + 1)
      /\ \A i \in 1..Len(L) : lists'[t][i] = L[i]
      /\ lists'[t][Len(L) + 1] = entry
  BY <1>1, <1>2, AppendProperties, LenProperties
<1> QED BY <1>2, <1>3 DEF L

\* add_script_input: what it does to redeemers and inputs.
LEMMA ScriptInputDoes ==
  ASSUME UnitsInv, CountsInv, NEW u \in Locked, NEW r \in Redeemers \cup {NoRedeemer}, NEW way,
         AddScriptInput(u, r, way)
  PROVE  /\ tx' = NoTx /\ stage = "idle" /\ stage' = "idle"
         /\ UNCHANGED <<lists, lost, fresh, minted, withdrawn, certs>>
         /\ \A q \in Redeemers :
              /\ heap'[q].index = heap[q].index
              /\ heap'[q].tag = heap[q].tag \/ (heap[q].tag = "none" /\ heap'[q].tag = "spend")
         /\ \/ UNCHANGED spend
            \/ /\ r \in Redeemers /\ spend' = [spend EXCEPT ![u] = r]
               /\ heap'[r].tag = "spend"
               /\ listed'[u] > 0 \/ u \in refused'
         /\ listed' \in [Inputs -> Nat] /\ \A w \in Inputs : listed[w] <= listed'[w]
         /\ refused \subseteq refused'
         /\ estimate # "undecided" => estimate' = estimate
<1> DEFINE accepted == r = NoRedeemer \/ (FitsTag(r, "spend") /\ Consolidates(r))
           complete == accepted /\ Unlocks(u, way)
<1>1. \A w \in Inputs : listed[w] \in Nat
  BY DEF CountsInv
<1>2. u \in Inputs
  BY DEF Inputs
<1>3. listed' = IF complete THEN [listed EXCEPT ![u] = listed[u] + 1] ELSE listed
  BY DEF AddScriptInput, ListedWith
<1>4. /\ listed' \in [Inputs -> Nat] /\ \A w \in Inputs : listed[w] <= listed'[w]
      /\ listed'[u] > 0 \/ u \in refused'
      /\ refused \subseteq refused'
  <2>1. refused' = IF complete THEN refused ELSE refused \cup {u}
    BY DEF AddScriptInput
  <2>2. CASE complete
    BY <1>1, <1>2, <1>3, <2>1, <2>2 DEF CountsInv
  <2>3. CASE ~complete
    BY <1>1, <1>3, <2>1, <2>3 DEF CountsInv
  <2> QED BY <2>2, <2>3
<1>5. /\ tx' = NoTx /\ stage = "idle" /\ stage' = "idle"
      /\ UNCHANGED <<lists, lost, fresh, minted, withdrawn, certs>>
  BY DEF AddScriptInput, Edit
<1>6. CASE r # NoRedeemer /\ accepted
  <2> DEFINE ix == heap[r].index
             new == Consolidated(r, "spend", ix)
  <2>1. /\ r \in Redeemers /\ heap' = [heap EXCEPT ![r] = new]
        /\ estimate' = Decision(r) /\ spend' = [spend EXCEPT ![u] = r]
        /\ FitsTag(r, "spend")
    BY <1>6 DEF AddScriptInput
  <2>2. new.tag = "spend" /\ new.index = ix
    BY DEF Consolidated, Object
  <2> HIDE DEF new
  <2>3. /\ heap'[r].tag = "spend" /\ heap'[r].index = heap[r].index
        /\ \A q \in Redeemers : q # r => heap'[q] = heap[q]
    BY <2>1, <2>2 DEF UnitsInv
  <2>4. estimate # "undecided" => estimate' = estimate
    BY <2>1 DEF Decision
  <2> QED BY <1>4, <1>5, <2>1, <2>3, <2>4 DEF FitsTag
<1>7. CASE ~(r # NoRedeemer /\ accepted)
  <2>1. /\ UNCHANGED <<spend, estimate>>
        /\ \/ heap' = heap
           \/ /\ r \in Redeemers /\ FitsTag(r, "spend")
              /\ heap' = [heap EXCEPT ![r] = Object("spend", heap[r].index, heap[r].units)]
    BY <1>7 DEF AddScriptInput
  <2>2. CASE heap' = heap
    BY <1>4, <1>5, <2>1, <2>2
  <2>3. CASE heap' # heap
    <3> DEFINE new == Object("spend", heap[r].index, heap[r].units)
    <3>1. new.tag = "spend" /\ new.index = heap[r].index
      BY DEF Object
    <3>2. r \in Redeemers /\ FitsTag(r, "spend") /\ heap' = [heap EXCEPT ![r] = new]
      BY <2>1, <2>3
    <3> HIDE DEF new
    <3>3. /\ heap'[r].tag = "spend" /\ heap'[r].index = heap[r].index
          /\ \A q \in Redeemers : q # r => heap'[q] = heap[q]
      BY <3>1, <3>2 DEF UnitsInv
    <3> QED BY <1>4, <1>5, <2>1, <3>2, <3>3 DEF FitsTag
  <2> QED BY <2>2, <2>3
<1> QED BY <1>6, <1>7

\* The three other ways to add a script.
LEMMA ListedScriptDoes ==
  ASSUME UnitsInv, NEW t \in Lists, NEW s \in Scripts,
         NEW r \in Redeemers \cup {NoRedeemer}, NEW way, AddListedScript(t, s, r, way)
  PROVE  /\ tx' = NoTx /\ stage = "idle" /\ stage' = "idle"
         /\ UNCHANGED <<spend, lost, fresh, listed, minted, withdrawn, certs, refused>>
         /\ \A q \in Redeemers :
              /\ q # r => heap'[q] = heap[q]
              /\ heap'[q].tag = heap[q].tag \/ (heap[q].tag = "none" /\ heap'[q].tag = t)
         /\ r \in Redeemers => heap'[r].tag = t
         /\ t = "certificate" => certs > 0 /\ (r \in Redeemers => heap'[r].index = certs - 1)
         /\ \/ UNCHANGED lists /\ r \in Redeemers /\ ~Consolidates(r)
            \/ \E entry \in EntryType :
                 /\ entry.redeemer = r /\ entry.script = s
                 /\ entry.target = IF t = "certificate" THEN certs - 1 ELSE s
                 /\ lists' = [lists EXCEPT ![t] = Append(lists[t], entry)]
         /\ estimate # "undecided" => estimate' = estimate
<1> DEFINE target == IF t = "certificate" THEN certs - 1 ELSE s
           index == IF t = "certificate" THEN certs - 1 ELSE heap[r].index
           entry == [script |-> s, target |-> target, redeemer |-> r]
<1>1. /\ tx' = NoTx /\ stage = "idle" /\ stage' = "idle"
      /\ UNCHANGED <<spend, lost, fresh, listed, minted, withdrawn, certs, refused>>
      /\ t = "certificate" => certs > 0
      /\ r # NoRedeemer => FitsTag(r, t)
  BY DEF AddListedScript, Edit
<1>2. heap = [q \in Redeemers |-> heap[q]]
  BY DEF UnitsInv
<1>3. ASSUME NEW new, new.tag = t, new.index = index,
             r \in Redeemers, heap' = [heap EXCEPT ![r] = new]
      PROVE  /\ \A q \in Redeemers :
                  /\ q # r => heap'[q] = heap[q]
                  /\ heap'[q].tag = heap[q].tag \/ (heap[q].tag = "none" /\ heap'[q].tag = t)
             /\ heap'[r].tag = t /\ heap'[r].index = index
  <2>1. heap'[r] = new /\ \A q \in Redeemers : q # r => heap'[q] = heap[q]
    BY <1>2, <1>3
  <2>2. heap[r].tag \in {"none", t}
    BY <1>1, <1>3, WitnessAssumption DEF FitsTag
  <2> QED BY <1>3, <2>1, <2>2
<1>4. CASE r # NoRedeemer /\ ~Consolidates(r)
  <2> DEFINE new == Object(t, index, heap[r].units)
  <2>1. /\ UNCHANGED <<estimate, lists>> /\ r \in Redeemers
        /\ heap' = [heap EXCEPT ![r] = new]
    BY <1>4 DEF AddListedScript
  <2>2. new.tag = t /\ new.index = index
    BY DEF Object
  <2> HIDE DEF new
  <2>3. /\ \A q \in Redeemers :
             /\ q # r => heap'[q] = heap[q]
             /\ heap'[q].tag = heap[q].tag \/ (heap[q].tag = "none" /\ heap'[q].tag = t)
        /\ heap'[r].tag = t /\ heap'[r].index = index
    BY <1>3, <2>1, <2>2
  <2> QED BY <1>1, <1>4, <2>1, <2>3
<1>5. CASE r = NoRedeemer \/ Consolidates(r)
  <2>1. lists' = [lists EXCEPT ![t] = Append(lists[t], entry)]
    BY <1>5 DEF AddListedScript
  <2>2. entry \in EntryType /\ entry.redeemer = r /\ entry.script = s /\ entry.target = target
    <3>1. target \in Nat
      BY <1>1, WitnessAssumption DEF UnitsInv
    <3> QED BY <3>1 DEF EntryType
  <2>3. CASE r = NoRedeemer
    <3>1. UNCHANGED <<heap, estimate>> /\ r \notin Redeemers
      BY <1>5, <2>3, WitnessAssumption DEF AddListedScript
    <3> HIDE DEF entry
    <3> QED BY <1>1, <2>1, <2>2, <3>1
  <2>4. CASE r # NoRedeemer
    <3> DEFINE new == Consolidated(r, t, index)
    <3>1. r \in Redeemers /\ heap' = [heap EXCEPT ![r] = new] /\ estimate' = Decision(r)
      BY <1>5, <2>4 DEF AddListedScript
    <3>2. new.tag = t /\ new.index = index
      BY DEF Consolidated, Object
    <3>3. estimate # "undecided" => estimate' = estimate
      BY <3>1 DEF Decision
    <3> HIDE DEF new
    <3>4. /\ \A q \in Redeemers :
               /\ q # r => heap'[q] = heap[q]
               /\ heap'[q].tag = heap[q].tag \/ (heap[q].tag = "none" /\ heap'[q].tag = t)
          /\ heap'[r].tag = t /\ heap'[r].index = index
      BY <1>3, <3>1, <3>2
    <3> HIDE DEF entry
    <3> QED BY <1>1, <2>1, <2>2, <3>1, <3>3, <3>4
  <2> QED BY <2>3, <2>4
<1> QED BY <1>4, <1>5

\* What a build does before it returns, and what it leaves.
LEMMA BuildDoes ==
  ASSUME UnitsInv, CountsInv,
         \/ SkipEstimate \/ CopyBuilder \/ BuildRaises \/ Finish \/ UNCHANGED vars
         \/ \E S \in SUBSET Selectable : EstimateUnits(S)
  PROVE  /\ UNCHANGED <<listed, minted, withdrawn, certs, spend, lists, refused>>
         /\ \A q \in Redeemers : heap'[q].tag = heap[q].tag /\ heap'[q].index = heap[q].index
         /\ stage = "idle" => stage' = "idle"
         /\ lost \in BOOLEAN
         /\ lost => lost'
<1>1. lost \in BOOLEAN
  BY DEF UnitsInv
<1>2. CASE \/ SkipEstimate \/ CopyBuilder \/ BuildRaises \/ Finish \/ UNCHANGED vars
  BY <1>1, <1>2 DEF SkipEstimate, CopyBuilder, BuildRaises, Finish, vars, fields, history, End
<1>3. ASSUME NEW S \in SUBSET Selectable, EstimateUnits(S)
      PROVE  /\ UNCHANGED <<listed, minted, withdrawn, certs, spend, lists, refused>>
             /\ \A q \in Redeemers : heap'[q].tag = heap[q].tag /\ heap'[q].index = heap[q].index
             /\ stage # "idle"
             /\ lost => lost'
  <2> DEFINE bag == [u \in Inputs |-> IF u \in S THEN listed[u] + 1 ELSE listed[u]]
             answered == {r \in Attached : Answers(r, bag) # {}}
             Answer(r) == Estimated(CHOOSE p \in Answers(r, bag) : TRUE, Body(bag))
             Written(T) == [r \in Redeemers |->
                              IF r \in T THEN Object(heap[r].tag, heap[r].index, Answer(r))
                              ELSE heap[r]]
  <2>1. /\ UNCHANGED <<listed, minted, withdrawn, certs, spend, lists, refused>>
        /\ stage = "copied"
    BY <1>3 DEF EstimateUnits, fields
  <2>3. ASSUME NEW T, heap' = Written(T), NEW q \in Redeemers
        PROVE  heap'[q].tag = heap[q].tag /\ heap'[q].index = heap[q].index
    <3>1. heap'[q] = IF q \in T THEN Object(heap[q].tag, heap[q].index, Answer(q)) ELSE heap[q]
      BY <2>3
    <3> HIDE DEF Answer
    <3> QED BY <3>1 DEF Object
  <2>4. CASE answered = Attached
    <3>1. heap' = Written(Attached) /\ lost' = lost
      BY <1>3, <2>4 DEF EstimateUnits
    <3> HIDE DEF Written, answered
    <3> QED BY <2>1, <2>3, <3>1
  <2>5. CASE answered # Attached
    <3>1. \E T \in SUBSET answered : heap' = Written(T)
      BY <1>3, <2>5 DEF EstimateUnits
    <3>2. lost' = TRUE
      BY <1>3, <2>5 DEF EstimateUnits
    <3> HIDE DEF Written, answered
    <3>3. \A q \in Redeemers : heap'[q].tag = heap[q].tag /\ heap'[q].index = heap[q].index
      BY <2>3, <3>1
    <3> QED BY <2>1, <3>2, <3>3
  <2> QED BY <2>4, <2>5
<1>4. CASE \E S \in SUBSET Selectable : EstimateUnits(S)
  <2>1. PICK S \in SUBSET Selectable : EstimateUnits(S)
    BY <1>4
  <2>2. /\ UNCHANGED <<listed, minted, withdrawn, certs, spend, lists, refused>>
        /\ \A q \in Redeemers : heap'[q].tag = heap[q].tag /\ heap'[q].index = heap[q].index
        /\ stage # "idle"
        /\ lost => lost'
    BY <1>3, <2>1
  <2> QED BY <1>1, <2>2
<1> QED BY <1>2, <1>4

-----------------------------------------------------------------------------
(* Every step keeps the invariant *)

\* What was returned keeps what was said of it, or is forgotten.
LEMMA ReturnedStays ==
  ASSUME RedeemersPointHome, EstimatesFit, tx' \in {tx, NoTx},
         refused \subseteq refused', lost => lost'
  PROVE  RedeemersPointHome' /\ EstimatesFit'
<1>1. CASE tx' = NoTx
  BY <1>1 DEF RedeemersPointHome, EstimatesFit, NoTx
<1>2. CASE tx' = tx
  <2>1. \A e : (Shared(e)' <=> Shared(e)) /\ (Orphan(e)' <=> Orphan(e))
    BY <1>2 DEF Shared, Orphan
  <2>2. RedeemersPointHome'
    BY <1>2, <2>1 DEF RedeemersPointHome
  <2>3. EstimatesFit'
    BY <1>2, <2>1 DEF EstimatesFit
  <2> QED BY <2>2, <2>3
<1> QED BY <1>1, <1>2

\* Outside a build nothing is said of indexes and fresh units.
LEMMA IdleSaysNothing ==
  ASSUME stage' = "idle"
  PROVE  IndexesInv' /\ FreshInv'
BY DEF IndexesInv, FreshInv

LEMMA ElsewhereKeeps ==
  ASSUME UnitsInv, PointersInv, Elsewhere
  PROVE  PointersInv'
<1> USE DEF PointersInv
<1>1. CountsInv'
  BY DEF Elsewhere, CountsInv
<1>2. TagsInv'
  BY DEF Elsewhere, TagsInv
<1>3. TargetsInv'
  <2> SUFFICES ASSUME NEW t \in Lists, NEW i \in DOMAIN lists[t], t = "certificate"
               PROVE  lists[t][i].target \in 0..(certs' - 1)
    BY DEF Elsewhere, TargetsInv
  <2>1. lists[t][i].target \in 0..(certs - 1)
    BY DEF TargetsInv
  <2> QED BY <2>1 DEF Elsewhere, UnitsInv
<1>4. RefusedInv'
  <2> SUFFICES ASSUME NEW u \in Locked, spend[u] # NoRedeemer
               PROVE  listed'[u] > 0 \/ u \in refused
    BY DEF Elsewhere, RefusedInv
  <2>1. listed[u] \in Nat /\ listed'[u] \in Nat /\ listed[u] <= listed'[u]
    BY DEF Elsewhere, CountsInv, Inputs
  <2> QED BY <2>1 DEF RefusedInv
<1>5. CertificatesInv'
  BY DEF Elsewhere, CertificatesInv, UsesOf
<1>6. LostInv'
  BY DEF Elsewhere, LostInv
<1>7. RedeemersPointHome' /\ EstimatesFit'
  BY ReturnedStays DEF Elsewhere
<1>8. IndexesInv' /\ FreshInv'
  BY IdleSaysNothing DEF Elsewhere
<1> QED BY <1>1, <1>2, <1>3, <1>4, <1>5, <1>6, <1>7, <1>8

LEMMA ScriptInputKeepsPointers ==
  ASSUME UnitsInv, PointersInv, NEW u \in Locked, NEW r \in Redeemers \cup {NoRedeemer},
         NEW way, AddScriptInput(u, r, way)
  PROVE  PointersInv'
<1> USE DEF PointersInv
<1>0. /\ tx' = NoTx /\ stage = "idle" /\ stage' = "idle"
      /\ UNCHANGED <<lists, lost, fresh, minted, withdrawn, certs>>
      /\ \A q \in Redeemers :
           /\ heap'[q].index = heap[q].index
           /\ heap'[q].tag = heap[q].tag \/ (heap[q].tag = "none" /\ heap'[q].tag = "spend")
      /\ \/ UNCHANGED spend
         \/ /\ r \in Redeemers /\ spend' = [spend EXCEPT ![u] = r]
            /\ heap'[r].tag = "spend"
            /\ listed'[u] > 0 \/ u \in refused'
      /\ listed' \in [Inputs -> Nat] /\ \A w \in Inputs : listed[w] <= listed'[w]
      /\ refused \subseteq refused'
      /\ estimate # "undecided" => estimate' = estimate
  BY ScriptInputDoes
<1>1. CountsInv'
  BY <1>0 DEF CountsInv
<1>2. TagsInv'
  <2>1. ASSUME NEW w \in Locked, spend'[w] # NoRedeemer
        PROVE  heap'[spend'[w]].tag = "spend"
    <3>1. CASE spend'[w] = spend[w]
      <4>1. spend[w] \in Redeemers /\ heap[spend[w]].tag = "spend"
        BY <2>1, <3>1 DEF TagsInv, UnitsInv
      <4> QED BY <1>0, <3>1, <4>1
    <3>2. CASE spend'[w] # spend[w]
      BY <1>0, <3>2 DEF UnitsInv
    <3> QED BY <3>1, <3>2
  <2>2. ASSUME NEW t \in Lists, NEW i \in DOMAIN lists[t], lists[t][i].redeemer # NoRedeemer
        PROVE  heap'[lists[t][i].redeemer].tag = t
    <3>1. lists[t][i].redeemer \in Redeemers
      BY <2>2, ListTyped DEF EntryType
    <3>2. heap[lists[t][i].redeemer].tag = t /\ t # "none"
      BY <2>2 DEF TagsInv, Lists
    <3> QED BY <1>0, <3>1, <3>2
  <2> QED BY <1>0, <2>1, <2>2 DEF TagsInv
<1>3. TargetsInv'
  BY <1>0 DEF TargetsInv
<1>4. RefusedInv'
  <2> SUFFICES ASSUME NEW w \in Locked, spend'[w] # NoRedeemer
               PROVE  listed'[w] > 0 \/ w \in refused'
    BY DEF RefusedInv
  <2>1. listed[w] \in Nat /\ listed'[w] \in Nat /\ listed[w] <= listed'[w]
    BY <1>0 DEF CountsInv, Inputs
  <2>2. CASE spend'[w] = spend[w]
    BY <1>0, <2>1, <2>2 DEF RefusedInv
  <2>3. CASE spend'[w] # spend[w]
    BY <1>0, <2>3 DEF UnitsInv
  <2> QED BY <2>2, <2>3
<1>5. CertificatesInv'
  BY <1>0 DEF CertificatesInv, UsesOf
<1>6. LostInv'
  BY <1>0 DEF LostInv
<1>7. RedeemersPointHome' /\ EstimatesFit'
  BY <1>0, ReturnedStays
<1>8. IndexesInv' /\ FreshInv'
  BY <1>0, IdleSaysNothing
<1> QED BY <1>1, <1>2, <1>3, <1>4, <1>5, <1>6, <1>7, <1>8

LEMMA PrepareKeepsPointers ==
  ASSUME UnitsInv, PointersInv, NEW S \in SUBSET Selectable, Prepare(S)
  PROVE  PointersInv'
<1> USE DEF PointersInv
<1>0. /\ tx' = NoTx /\ stage = "idle"
      /\ UNCHANGED <<minted, withdrawn, certs, spend, lists, estimate, refused, lost>>
      /\ listed' = [u \in Inputs |-> IF u \in S THEN listed[u] + 1 ELSE listed[u]]
  BY DEF Prepare
<1>a. \/ NotInField /\ stage' = "idle" /\ fresh' = FALSE /\ heap' = heap
      \/ /\ ~NotInField /\ stage' = "indexed" /\ fresh' = fresh
         /\ heap' = [r \in Redeemers |->
                      Object(heap[r].tag, IndexOf(r, listed'), heap[r].units)]
  BY DEF Prepare, End
<1>b. \A r \in Redeemers : heap'[r].tag = heap[r].tag
  BY <1>a DEF Object
<1>1. CountsInv'
  <2>1. \A u \in Inputs : listed[u] + 1 \in Nat /\ listed[u] \in Nat
    BY DEF CountsInv
  <2> QED BY <1>0, <2>1 DEF CountsInv
<1>2. TagsInv'
  <2>1. \A u \in Locked : spend[u] # NoRedeemer => spend[u] \in Redeemers
    BY DEF UnitsInv
  <2>2. \A t \in Lists : \A i \in DOMAIN lists[t] :
          lists[t][i].redeemer # NoRedeemer => lists[t][i].redeemer \in Redeemers
    BY ListTyped DEF EntryType
  <2> QED BY <1>0, <1>b, <2>1, <2>2 DEF TagsInv
<1>3. TargetsInv'
  BY <1>0 DEF TargetsInv
<1>4. RefusedInv'
  <2> SUFFICES ASSUME NEW u \in Locked, spend[u] # NoRedeemer, listed[u] > 0
               PROVE  listed'[u] > 0
    BY <1>0 DEF RefusedInv
  <2>1. u \in Inputs /\ listed[u] \in Nat
    BY DEF Inputs, CountsInv
  <2> QED BY <1>0, <2>1
<1>5. CertificatesInv'
  <2> SUFFICES ASSUME ~lost, NEW r \in Redeemers, UsesOf("certificate", r) # {}
               PROVE  heap'[r].index = heap[r].index
    BY <1>0 DEF CertificatesInv, UsesOf
  <2>1. CASE heap' = heap
    BY <2>1
  <2>2. CASE heap' # heap
    <3>1. heap[r].tag = "certificate"
      <4>1. PICK i \in UsesOf("certificate", r) : TRUE
        OBVIOUS
      <4>2. "certificate" \in Lists /\ i \in DOMAIN lists["certificate"]
            /\ lists["certificate"][i].redeemer = r
        BY <4>1 DEF UsesOf, Lists
      <4> QED BY <4>2, WitnessAssumption DEF TagsInv
    <3>2. heap'[r].index = IndexOf(r, listed')
      BY <1>a, <2>2 DEF Object
    <3> QED BY <3>1, <3>2 DEF IndexOf
  <2> QED BY <2>1, <2>2
<1>6. LostInv'
  BY <1>0, <1>a DEF LostInv
<1>7. RedeemersPointHome' /\ EstimatesFit'
  BY <1>0, ReturnedStays
<1>8. IndexesInv'
  <2>1. CASE NotInField
    BY <1>a, <2>1, IdleSaysNothing
  <2>2. CASE ~NotInField
    <3>1. ~NotInField'
      BY <1>0, <2>2 DEF NotInField, Field
    <3>2. ASSUME NEW r \in Redeemers
          PROVE  heap'[r].index = IndexOf(r, listed)'
      <4>1. heap'[r].index = IndexOf(r, listed')
        BY <1>a, <2>2 DEF Object
      <4>2. UsesOf("mint", r)' = UsesOf("mint", r) /\ UsesOf("withdrawal", r)' = UsesOf("withdrawal", r)
        BY <1>0 DEF UsesOf
      <4>3. heap'[r].tag = heap[r].tag
        BY <1>b
      <4>4. CASE heap[r].tag = "spend"
        BY <1>0, <4>1, <4>3, <4>4 DEF IndexOf, LastPosition
      <4>5. CASE heap[r].tag = "mint"
        BY <1>0, <4>1, <4>2, <4>3, <4>5 DEF IndexOf, Field
      <4>6. CASE heap[r].tag = "withdrawal"
        BY <1>0, <4>1, <4>2, <4>3, <4>6 DEF IndexOf, Field
      <4>7. CASE heap[r].tag \notin {"spend", "mint", "withdrawal"}
        BY <4>3, <4>7 DEF IndexOf
      <4> QED BY <4>4, <4>5, <4>6, <4>7
    <3> QED BY <3>1, <3>2 DEF IndexesInv
  <2> QED BY <2>1, <2>2
<1>9. FreshInv'
  BY <1>0, <1>a DEF LostInv, FreshInv
<1> QED BY <1>1, <1>2, <1>3, <1>4, <1>5, <1>6, <1>7, <1>8, <1>9

\* Before an estimation gets lost, no redeemer that serves a purpose is refused.
LEMMA AttachedAccepted ==
  ASSUME UnitsInv, stage = "idle", ~lost, NEW r \in Redeemers, NEW t \in Lists,
         UsesOf(t, r) # {}
  PROVE  Consolidates(r)
<1>1. r \in Attached
  BY DEF Attached
<1>2. CASE estimate = "yes"
  <2>1. heap[r].units = Units("zero")
    BY <1>1, <1>2 DEF UnitsInv, AllOrNone
  <2>2. heap[r].units.kind = "zero"
    BY <2>1 DEF Units
  <2> QED BY <1>2, <2>2 DEF Consolidates, HasUnits
<1>3. CASE estimate = "no"
  BY <1>1, <1>3 DEF UnitsInv, AllOrNone, Consolidates
<1>4. CASE estimate = "undecided"
  BY <1>4 DEF Consolidates
<1> QED BY <1>2, <1>3, <1>4 DEF UnitsInv

LEMMA ListedScriptKeepsPointers ==
  ASSUME UnitsInv, PointersInv, NEW t \in Lists, NEW s \in Scripts,
         NEW r \in Redeemers \cup {NoRedeemer}, NEW way, AddListedScript(t, s, r, way)
  PROVE  PointersInv'
<1> USE DEF PointersInv
<1>0. /\ tx' = NoTx /\ stage = "idle" /\ stage' = "idle"
      /\ UNCHANGED <<spend, lost, fresh, listed, minted, withdrawn, certs, refused>>
      /\ \A q \in Redeemers :
           /\ q # r => heap'[q] = heap[q]
           /\ heap'[q].tag = heap[q].tag \/ (heap[q].tag = "none" /\ heap'[q].tag = t)
      /\ r \in Redeemers => heap'[r].tag = t
      /\ t = "certificate" => certs > 0 /\ (r \in Redeemers => heap'[r].index = certs - 1)
      /\ \/ UNCHANGED lists /\ r \in Redeemers /\ ~Consolidates(r)
         \/ \E entry \in EntryType :
              /\ entry.redeemer = r /\ entry.script = s
              /\ entry.target = IF t = "certificate" THEN certs - 1 ELSE s
              /\ lists' = [lists EXCEPT ![t] = Append(lists[t], entry)]
      /\ estimate # "undecided" => estimate' = estimate
  BY ListedScriptDoes
<1>1. CountsInv'
  BY <1>0 DEF CountsInv
<1>4. RefusedInv'
  BY <1>0 DEF RefusedInv
<1>6. LostInv'
  BY <1>0 DEF LostInv
<1>7. RedeemersPointHome' /\ EstimatesFit'
  BY <1>0, ReturnedStays
<1>8. IndexesInv' /\ FreshInv'
  BY <1>0, IdleSaysNothing
<1>a. \A q \in Redeemers : heap[q].tag \in {"spend"} \cup Lists => heap'[q].tag = heap[q].tag
  BY <1>0 DEF Lists
<1>b. \A u \in Locked : spend[u] # NoRedeemer => heap'[spend[u]].tag = "spend"
  BY <1>a DEF TagsInv, UnitsInv
<1>c. \A l \in Lists : \A i \in DOMAIN lists[l] :
        lists[l][i].redeemer # NoRedeemer => heap'[lists[l][i].redeemer].tag = l
  <2> TAKE l \in Lists
  <2> TAKE i \in DOMAIN lists[l]
  <2> HAVE lists[l][i].redeemer # NoRedeemer
  <2>1. lists[l][i].redeemer \in Redeemers
    BY ListTyped DEF EntryType
  <2> QED BY <1>a, <2>1 DEF TagsInv
<1>d. CASE UNCHANGED lists /\ r \in Redeemers /\ ~Consolidates(r)
  <2>1. TagsInv'
    BY <1>0, <1>b, <1>c, <1>d DEF TagsInv
  <2>2. TargetsInv'
    BY <1>0, <1>d DEF TargetsInv
  <2>3. CertificatesInv'
    <3> SUFFICES ASSUME ~lost, NEW q \in Redeemers, UsesOf("certificate", q) # {}
                 PROVE  heap'[q].index = heap[q].index
      BY <1>0, <1>d DEF CertificatesInv, UsesOf
    <3>1. q # r
      BY <1>0, <1>d, AttachedAccepted DEF Lists
    <3> QED BY <1>0, <3>1
  <2> QED BY <1>1, <1>4, <1>6, <1>7, <1>8, <2>1, <2>2, <2>3
<1>e. ASSUME NEW entry \in EntryType, entry.redeemer = r, entry.script = s,
             entry.target = IF t = "certificate" THEN certs - 1 ELSE s,
             lists' = [lists EXCEPT ![t] = Append(lists[t], entry)]
      PROVE  TagsInv' /\ TargetsInv' /\ CertificatesInv'
  <2> DEFINE n == Len(lists[t]) + 1
  <2>1. /\ \A l \in Lists : \A i \in DOMAIN lists'[l] :
             \/ i \in DOMAIN lists[l] /\ lists'[l][i] = lists[l][i]
             \/ l = t /\ i = n /\ lists'[l][i] = entry
        /\ \A l \in Lists : \A i \in DOMAIN lists[l] :
             i \in DOMAIN lists'[l] /\ lists'[l][i] = lists[l][i]
        /\ n \in DOMAIN lists'[t] /\ lists'[t][n] = entry
    BY <1>e, Appended
  <2> HIDE DEF n
  <2>2. TagsInv'
    <3> SUFFICES ASSUME NEW l \in Lists, NEW i \in DOMAIN lists'[l],
                        lists'[l][i].redeemer # NoRedeemer
                 PROVE  heap'[lists'[l][i].redeemer].tag = l
      BY <1>0, <1>b DEF TagsInv
    <3>1. CASE i \in DOMAIN lists[l] /\ lists'[l][i] = lists[l][i]
      BY <1>c, <3>1
    <3>2. CASE l = t /\ i = n /\ lists'[l][i] = entry
      BY <1>0, <1>e, <3>2
    <3> QED BY <2>1, <3>1, <3>2
  <2>3. TargetsInv'
    <3> SUFFICES ASSUME NEW l \in Lists, NEW i \in DOMAIN lists'[l]
                 PROVE  IF l = "certificate" THEN lists'[l][i].target \in 0..(certs - 1)
                        ELSE lists'[l][i].target = lists'[l][i].script
      BY <1>0 DEF TargetsInv
    <3>1. CASE i \in DOMAIN lists[l] /\ lists'[l][i] = lists[l][i]
      BY <3>1 DEF TargetsInv
    <3>2. CASE l = t /\ i = n /\ lists'[l][i] = entry
      <4>1. certs \in Nat
        BY DEF UnitsInv
      <4> QED BY <1>0, <1>e, <3>2, <4>1
    <3> QED BY <2>1, <3>1, <3>2
  <2>4. CertificatesInv'
    <3> DEFINE C == "certificate"
    <3> SUFFICES ASSUME ~lost, NEW q \in Redeemers, UsesOf(C, q)' # {}
                 PROVE  \E i \in UsesOf(C, q)' : heap'[q].index = lists'[C][i].target
      BY <1>0 DEF CertificatesInv
    <3>0. C \in Lists
      BY DEF Lists
    <3>1. CASE q = r /\ t = C
      <4>1. n \in UsesOf(C, q)'
        BY <1>e, <2>1, <3>1 DEF UsesOf
      <4>2. heap'[q].index = certs - 1 /\ lists'[C][n].target = certs - 1
        BY <1>0, <1>e, <2>1, <3>1
      <4> QED BY <4>1, <4>2
    <3>2. CASE ~(q = r /\ t = C)
      <4>1. \A i \in UsesOf(C, q)' : i \in UsesOf(C, q)
        <5> TAKE i \in UsesOf(C, q)'
        <5>1. i \in DOMAIN lists'[C] /\ lists'[C][i].redeemer = q
          BY DEF UsesOf
        <5>2. ~(C = t /\ i = n /\ lists'[C][i] = entry)
          BY <1>e, <3>2, <5>1
        <5>3. i \in DOMAIN lists[C] /\ lists'[C][i] = lists[C][i]
          BY <2>1, <3>0, <5>1, <5>2
        <5> QED BY <5>1, <5>3 DEF UsesOf
      <4>2. PICK i \in UsesOf(C, q) : heap[q].index = lists[C][i].target
        BY <4>1 DEF CertificatesInv
      <4>3. i \in DOMAIN lists[C] /\ lists[C][i].redeemer = q
        BY <4>2 DEF UsesOf
      <4>4. i \in DOMAIN lists'[C] /\ lists'[C][i] = lists[C][i]
        BY <2>1, <3>0, <4>3
      <4>5. i \in UsesOf(C, q)'
        BY <4>3, <4>4 DEF UsesOf
      <4>6. heap'[q].index = heap[q].index
        <5>1. heap[q].tag = C
          BY <3>0, <4>3, WitnessAssumption DEF TagsInv
        <5>2. q # r
          <6>1. q = r => heap'[q].tag = t
            BY <1>0
          <6>2. heap'[q].tag = C
            BY <1>a, <3>0, <5>1
          <6> QED BY <3>2, <6>1, <6>2
        <5> QED BY <1>0, <5>2
      <4> QED BY <4>2, <4>4, <4>5, <4>6
    <3> QED BY <3>1, <3>2
  <2> QED BY <2>2, <2>3, <2>4
<1> QED BY <1>0, <1>1, <1>4, <1>6, <1>7, <1>8, <1>d, <1>e

\* What a build does leaves everything but the units where it was.
LEMMA BuildKeepsPlaces ==
  ASSUME UnitsInv, PointersInv,
         UNCHANGED <<listed, minted, withdrawn, certs, spend, lists, refused>>,
         \A q \in Redeemers : heap'[q].tag = heap[q].tag /\ heap'[q].index = heap[q].index,
         stage = "idle" => stage' = "idle",
         lost => lost'
  PROVE  CountsInv' /\ TagsInv' /\ TargetsInv' /\ RefusedInv' /\ CertificatesInv' /\ IndexesInv'
<1> USE DEF PointersInv
<1>1. CountsInv'
  BY DEF CountsInv
<1>2. TagsInv'
  <2>1. \A u \in Locked : spend[u] # NoRedeemer => spend[u] \in Redeemers
    BY DEF UnitsInv
  <2>2. \A t \in Lists : \A i \in DOMAIN lists[t] :
          lists[t][i].redeemer # NoRedeemer => lists[t][i].redeemer \in Redeemers
    BY ListTyped DEF EntryType
  <2> QED BY <2>1, <2>2 DEF TagsInv
<1>3. TargetsInv'
  BY DEF TargetsInv
<1>4. RefusedInv'
  BY DEF RefusedInv
<1>5. CertificatesInv'
  BY DEF CertificatesInv, UsesOf
<1>6. IndexesInv'
  <2> SUFFICES ASSUME stage # "idle"
               PROVE  ~NotInField' /\ \A r \in Redeemers : heap'[r].index = IndexOf(r, listed)'
    BY DEF IndexesInv
  <2>1. ~NotInField'
    BY DEF IndexesInv, NotInField, Field
  <2>2. ASSUME NEW r \in Redeemers
        PROVE  IndexOf(r, listed)' = IndexOf(r, listed)
    <3>1. heap'[r].tag = heap[r].tag /\ heap'[r].index = heap[r].index
      OBVIOUS
    <3>2. /\ UsesOf("mint", r)' = UsesOf("mint", r)
          /\ UsesOf("withdrawal", r)' = UsesOf("withdrawal", r)
      BY DEF UsesOf
    <3>3. CASE heap[r].tag = "spend"
      BY <3>1, <3>3 DEF IndexOf, LastPosition
    <3>4. CASE heap[r].tag = "mint"
      BY <3>1, <3>2, <3>4 DEF IndexOf, Field
    <3>5. CASE heap[r].tag = "withdrawal"
      BY <3>1, <3>2, <3>5 DEF IndexOf, Field
    <3>6. CASE heap[r].tag \notin {"spend", "mint", "withdrawal"}
      BY <3>1, <3>6 DEF IndexOf
    <3> QED BY <3>3, <3>4, <3>5, <3>6
  <2> QED BY <2>1, <2>2 DEF IndexesInv
<1> QED BY <1>1, <1>2, <1>3, <1>4, <1>5, <1>6

\* The steps of a build that estimate nothing.
LEMMA PlainBuildKeeps ==
  ASSUME UnitsInv, PointersInv, SkipEstimate \/ CopyBuilder \/ BuildRaises \/ UNCHANGED vars
  PROVE  PointersInv'
<1> USE DEF PointersInv
<1>1. /\ CountsInv' /\ TagsInv' /\ TargetsInv' /\ RefusedInv' /\ CertificatesInv' /\ IndexesInv'
      /\ refused' = refused
  BY BuildDoes, BuildKeepsPlaces
<1>2. /\ tx' = tx /\ heap' = heap
      /\ lost => lost'
      /\ UNCHANGED fields
  BY DEF SkipEstimate, CopyBuilder, BuildRaises, vars, history, UnitsInv, End
<1>3. RedeemersPointHome' /\ EstimatesFit'
  BY <1>1, <1>2, ReturnedStays
<1>4. LostInv'
  BY DEF SkipEstimate, CopyBuilder, BuildRaises, vars, history, End, LostInv, UnitsInv
<1>5. FreshInv'
  <2>1. CASE SkipEstimate \/ CopyBuilder \/ BuildRaises
    BY <2>1 DEF SkipEstimate, CopyBuilder, BuildRaises, history, End, LostInv, FreshInv
  <2>2. CASE UNCHANGED vars
    <3>1. Attached' = Attached /\ Body(listed)' = Body(listed)
      BY <2>2 DEF vars, fields, Attached, UsesOf, Body
    <3>2. UNCHANGED <<stage, fresh, strayed, heap>>
      BY <2>2 DEF vars, history
    <3>3. \A t, i, b : Named(t, i, b)' = Named(t, i, b)
      BY DEF Named
    <3> QED BY <3>1, <3>2, <3>3 DEF FreshInv
  <2> QED BY <2>1, <2>2
<1> QED BY <1>1, <1>3, <1>4, <1>5

\* The estimated units are those of the pointers in the copy's body.
LEMMA EstimateKeepsPointers ==
  ASSUME UnitsInv, PointersInv, NEW S \in SUBSET Selectable, EstimateUnits(S)
  PROVE  PointersInv'
<1> USE DEF PointersInv
<1> DEFINE bag == [u \in Inputs |-> IF u \in S THEN listed[u] + 1 ELSE listed[u]]
           answered == {r \in Attached : Answers(r, bag) # {}}
           Answer(r) == Estimated(CHOOSE p \in Answers(r, bag) : TRUE, Body(bag))
           Written(T) == [r \in Redeemers |->
                            IF r \in T THEN Object(heap[r].tag, heap[r].index, Answer(r))
                            ELSE heap[r]]
<1>1. /\ CountsInv' /\ TagsInv' /\ TargetsInv' /\ RefusedInv' /\ CertificatesInv' /\ IndexesInv'
      /\ refused' = refused
      /\ lost => lost'
  BY BuildDoes, BuildKeepsPlaces
<1>2. stage = "copied" /\ tx' = tx /\ estimate' = estimate /\ UNCHANGED fields
  BY DEF EstimateUnits
<1>3. RedeemersPointHome' /\ EstimatesFit'
  BY <1>1, <1>2, ReturnedStays
<1>4. CASE answered # Attached
  <2>1. stage' = "idle" /\ fresh' = FALSE /\ lost' = TRUE
    BY <1>4 DEF EstimateUnits, End
  <2>2. LostInv'
    BY <1>2, <2>1 DEF LostInv, UnitsInv
  <2> QED BY <1>1, <1>3, <2>1, <2>2 DEF FreshInv
<1>5. CASE answered = Attached
  <2>1. /\ heap' = Written(Attached) /\ stage' = "ready" /\ lost' = lost
        /\ strayed' = (S # {})
    BY <1>5 DEF EstimateUnits
  <2>2. LostInv'
    BY <1>2, <2>1 DEF LostInv
  <2>3. ASSUME ~strayed', NEW r \in Attached'
        PROVE  heap'[r].units = Estimated(CHOOSE p \in Named(heap'[r].tag, heap'[r].index, Body(listed)') : TRUE,
                                         Body(listed)')
    <3>1. r \in Attached /\ r \in Redeemers /\ Body(listed)' = Body(listed)
      BY <1>2, <2>3 DEF fields, Attached, UsesOf, Body
    <3>2. bag = listed
      BY <2>1, <2>3 DEF CountsInv
    <3>3. Answers(r, bag) = Named(heap[r].tag, heap[r].index, Body(bag))
      BY <1>5, <3>1 DEF Answers
    <3>4. heap'[r] = Object(heap[r].tag, heap[r].index, Answer(r))
      BY <2>1, <3>1
    <3> HIDE DEF bag, Written, answered
    <3>5. heap'[r].units = Answer(r) /\ heap'[r].tag = heap[r].tag /\ heap'[r].index = heap[r].index
      <4> HIDE DEF Answer
      <4> QED BY <3>4 DEF Object
    <3> QED BY <3>1, <3>2, <3>3, <3>5
  <2>4. \A t, i, b : Named(t, i, b)' = Named(t, i, b)
    BY DEF Named
  <2>5. FreshInv'
    BY <2>3 DEF FreshInv
  <2> QED BY <1>1, <1>3, <2>2, <2>5
<1> QED BY <1>4, <1>5

\* What build returns is in order.
LEMMA FinishReturns ==
  ASSUME UnitsInv, PointersInv, Finish
  PROVE  RedeemersPointHome' /\ EstimatesFit'
<1> USE DEF PointersInv
<1> DEFINE Shown(f) == [purpose |-> f.purpose, redeemer |-> f.redeemer,
                        object |-> heap[f.redeemer]]
           body == Body(listed)
<1>1. /\ tx'.entries = {Shown(f) : f \in Entries} /\ tx'.body = body
      /\ tx'.repeated = (\E u \in Inputs : listed[u] > 1)
      /\ tx'.fresh = fresh /\ tx'.strayed = strayed
      /\ stage = "ready" /\ refused' = refused /\ lost' = lost
  BY DEF Finish
<1>2. ASSUME NEW e \in tx'.entries
      PROVE  \E f \in Entries :
               /\ e.purpose = f.purpose /\ e.redeemer = f.redeemer /\ e.object = heap[f.redeemer]
               /\ ~Shared(e)' => \A g \in Entries : g.redeemer = f.redeemer => g.purpose = f.purpose
               /\ ~Orphan(e)' => (f.purpose.tag = "spend" => f.purpose.target \in body.inputs)
  <2>1. PICK f \in Entries : e = Shown(f)
    BY <1>1, <1>2
  <2>2. e.purpose = f.purpose /\ e.redeemer = f.redeemer /\ e.object = heap[f.redeemer]
    BY <2>1
  <2>3. ASSUME ~Shared(e)', NEW g \in Entries, g.redeemer = f.redeemer
        PROVE  g.purpose = f.purpose
    <3>1. Shown(g) \in tx'.entries /\ Shown(g).redeemer = g.redeemer /\ Shown(g).purpose = g.purpose
      BY <1>1
    <3> HIDE DEF Shown
    <3> QED BY <2>2, <2>3, <3>1 DEF Shared
  <2>4. ~Orphan(e)' => (f.purpose.tag = "spend" => f.purpose.target \in body.inputs)
    BY <1>1, <2>2 DEF Orphan
  <2> HIDE DEF Shown, body
  <2> QED BY <2>2, <2>3, <2>4
<1>3. ASSUME NEW e \in tx'.entries, Orphan(e)'
      PROVE  e.purpose.target \in refused
  <2>1. PICK f \in Entries : e.purpose = f.purpose
    BY <1>2
  <2>2. f.purpose.tag = "spend" /\ f.purpose.target \notin body.inputs
    BY <1>1, <1>3, <2>1 DEF Orphan
  <2>3. \A t \in Lists : \A i \in DOMAIN lists[t] : f # ListEntry(t, i)
    BY <2>2 DEF ListEntry, Purpose, Lists
  <2>4. PICK u \in Locked : spend[u] # NoRedeemer /\ f = SpendEntry(u)
    BY <2>3, EntriesAre
  <2>5. f.purpose.target = u
    BY <2>4 DEF SpendEntry, Purpose
  <2>6. ~(listed[u] > 0)
    BY <2>2, <2>5 DEF Body, Inputs
  <2> QED BY <2>1, <2>4, <2>5, <2>6 DEF RefusedInv
<1>4. ASSUME NEW e \in tx'.entries, ~Shared(e)', ~Orphan(e)', ~tx'.repeated,
             e.purpose.tag = "certificate" => ~lost
      PROVE  /\ Named(e.object.tag, e.object.index, tx'.body) = {e.purpose}
             /\ fresh /\ ~strayed => e.object.units = Estimated(e.purpose, tx'.body)
  <2>1. PICK f \in Entries :
          /\ e.purpose = f.purpose /\ e.redeemer = f.redeemer /\ e.object = heap[f.redeemer]
          /\ \A g \in Entries : g.redeemer = f.redeemer => g.purpose = f.purpose
          /\ f.purpose.tag = "spend" => f.purpose.target \in body.inputs
    BY <1>2, <1>4
  <2>2. \A w \in Inputs : ~(listed[w] > 1)
    BY <1>1, <1>4
  <2>3. Named(heap[f.redeemer].tag, heap[f.redeemer].index, body) = {f.purpose}
    BY <1>1, <1>4, <2>1, <2>2, EntryHome
  <2>4. fresh /\ ~strayed => heap[f.redeemer].units = Estimated(f.purpose, body)
    <3>1. SUFFICES ASSUME fresh, ~strayed
                   PROVE  heap[f.redeemer].units = Estimated(f.purpose, body)
      OBVIOUS
    <3>2. f.redeemer \in Attached
      BY EntriesAttached
    <3>3. heap[f.redeemer].units =
            Estimated(CHOOSE p \in Named(heap[f.redeemer].tag, heap[f.redeemer].index, body) : TRUE, body)
      BY <1>1, <3>1, <3>2 DEF FreshInv
    <3>4. (CHOOSE p \in {f.purpose} : TRUE) = f.purpose
      OBVIOUS
    <3> HIDE DEF body
    <3> QED BY <2>3, <3>3, <3>4
  <2> HIDE DEF body
  <2> QED BY <1>1, <2>1, <2>3, <2>4
<1>5. RedeemersPointHome'
  <2> SUFFICES ASSUME NEW e \in tx'.entries
               PROVE  /\ Orphan(e)' => e.purpose.target \in refused'
                      /\ /\ ~Shared(e)' /\ ~Orphan(e)' /\ ~tx'.repeated
                         /\ e.purpose.tag = "certificate" => ~lost'
                         => Named(e.object.tag, e.object.index, tx'.body) = {e.purpose}
    BY DEF RedeemersPointHome, Named
  <2>1. Orphan(e)' => e.purpose.target \in refused'
    BY <1>1, <1>3
  <2>2. /\ ~Shared(e)' /\ ~Orphan(e)' /\ ~tx'.repeated
        /\ e.purpose.tag = "certificate" => ~lost'
        => Named(e.object.tag, e.object.index, tx'.body) = {e.purpose}
    BY <1>1, <1>4
  <2> QED BY <2>1, <2>2
<1>6. EstimatesFit'
  <2> SUFFICES ASSUME tx'.fresh, ~tx'.strayed, ~tx'.repeated,
                      NEW e \in tx'.entries, ~Shared(e)', ~Orphan(e)'
               PROVE  e.object.units = Estimated(e.purpose, tx'.body)
    BY DEF EstimatesFit
  <2>1. fresh /\ ~strayed
    BY <1>1
  <2>2. ~lost
    BY <2>1 DEF LostInv
  <2> QED BY <1>4, <2>1, <2>2
<1> QED BY <1>5, <1>6

LEMMA FinishKeeps ==
  ASSUME UnitsInv, PointersInv, Finish
  PROVE  PointersInv'
<1> USE DEF PointersInv
<1>1. /\ CountsInv' /\ TagsInv' /\ TargetsInv' /\ RefusedInv' /\ CertificatesInv' /\ IndexesInv'
  BY BuildDoes, BuildKeepsPlaces
<1>2. RedeemersPointHome' /\ EstimatesFit'
  BY FinishReturns
<1>3. LostInv' /\ FreshInv'
  BY DEF Finish, End, LostInv, FreshInv
<1> QED BY <1>1, <1>2, <1>3

LEMMA PointersInit == Init => PointersInv
<1> SUFFICES ASSUME Init
             PROVE  PointersInv
  OBVIOUS
<1>1. CountsInv
  BY FS_EmptySet DEF Init, CountsInv
<1>2. TagsInv /\ TargetsInv /\ RefusedInv
  BY DEF Init, TagsInv, TargetsInv, RefusedInv
<1>3. CertificatesInv
  BY DEF Init, CertificatesInv, UsesOf, Lists
<1>4. IndexesInv /\ LostInv /\ FreshInv
  BY DEF Init, IndexesInv, LostInv, FreshInv
<1>5. RedeemersPointHome /\ EstimatesFit
  BY DEF Init, RedeemersPointHome, EstimatesFit, NoTx
<1> QED BY <1>1, <1>2, <1>3, <1>4, <1>5 DEF PointersInv

LEMMA PointersNext == UnitsInv /\ PointersInv /\ [Next]_vars => PointersInv'
<1> SUFFICES ASSUME UnitsInv, PointersInv, [Next]_vars
             PROVE  PointersInv'
  OBVIOUS
<1>0. CountsInv
  BY DEF PointersInv
<1>1. CASE UserEdit
  <2>1. CASE \/ \E u \in KeyInputs : AddInput(u)
             \/ \E S \in Mints : SetMint(S)
             \/ \E S \in Withdrawn : SetWithdrawals(S)
             \/ AddCertificate
    BY <1>0, <2>1, EditsElsewhere, ElsewhereKeeps
  <2>2. CASE \E u \in Locked, r \in Redeemers \cup {NoRedeemer}, way \in Ways :
               AddScriptInput(u, r, way)
    BY <2>2, ScriptInputKeepsPointers
  <2>3. CASE \E t \in Lists, s \in Scripts, r \in Redeemers \cup {NoRedeemer},
               way \in Ways \ {"missing"} : AddListedScript(t, s, r, way)
    BY <2>3, ListedScriptKeepsPointers
  <2> QED BY <1>1, <2>1, <2>2, <2>3 DEF UserEdit
<1>2. CASE \E S \in SUBSET Selectable : Prepare(S)
  BY <1>2, PrepareKeepsPointers
<1>3. CASE SkipEstimate \/ CopyBuilder \/ BuildRaises \/ UNCHANGED vars
  BY <1>3, PlainBuildKeeps
<1>4. CASE \E S \in SUBSET Selectable : EstimateUnits(S)
  BY <1>4, EstimateKeepsPointers
<1>5. CASE Finish
  BY <1>5, FinishKeeps
<1> QED BY <1>1, <1>2, <1>3, <1>4, <1>5 DEF Next, Finished

\* The two invariants are one inductive invariant.
LEMMA WitnessSafe == Spec => [](UnitsInv /\ PointersInv)
<1>1. Init => UnitsInv /\ PointersInv
  BY UnitsInit, PointersInit
<1>2. UnitsInv /\ PointersInv /\ [Next]_vars => UnitsInv' /\ PointersInv'
  BY UnitsNext, PointersNext
<1> QED BY <1>1, <1>2, PTL DEF Spec

\* Whatever was added, refused, selected and estimated before, every redeemer of
\* a returned transaction points at what it was given for, but for the cases the
\* property names (_set_redeemer_index, add_script_input).
THEOREM RedeemersPointHomeTheorem == Spec => []RedeemersPointHome
<1>1. PointersInv => RedeemersPointHome
  BY DEF PointersInv
<1> QED BY <1>1, WitnessSafe, PTL

\* The units that _estimate_execution_units takes from a copy fit the builder's
\* own transaction, unless the copy selected more.
THEOREM EstimatesFitTheorem == Spec => []EstimatesFit
<1>1. PointersInv => EstimatesFit
  BY DEF PointersInv
<1> QED BY <1>1, WitnessSafe, PTL

\* build_witness_set gives no script that nothing runs (all_scripts,
\* _set_redeemer_index).
THEOREM NoScriptInVainTheorem == Spec => []NoScriptInVain
<1>1. UnitsInv /\ PointersInv => NoScriptInVain
  <2> SUFFICES ASSUME UnitsInv, IndexesInv, stage = "ready",
                      NEW s \in AllScripts
               PROVE  s \in Needed \cup Bare
    BY DEF PointersInv, NoScriptInVain, WitnessScripts
  <2>1. CASE s \in {Lock[u] : u \in Spent \cap Locked}
    BY <2>1 DEF Needed
  <2>2. CASE s \notin {Lock[u] : u \in Spent \cap Locked}
    <3>1. PICK t \in Lists : s \in {lists[t][i].script : i \in DOMAIN lists[t]}
      BY <2>2 DEF AllScripts
    <3>2. PICK i \in DOMAIN lists[t] : s = lists[t][i].script
      BY <3>1
    <3>3. CASE lists[t][i].redeemer = NoRedeemer
      BY <3>2, <3>3 DEF Bare
    <3>4. CASE lists[t][i].redeemer # NoRedeemer /\ t = "certificate"
      BY <3>2, <3>4 DEF Needed
    <3>5. CASE lists[t][i].redeemer # NoRedeemer /\ t # "certificate"
      <4>1. t \in {"mint", "withdrawal"}
        BY <3>5 DEF Lists
      <4>2. s \in Field(t)
        BY <3>2, <3>5, <4>1 DEF IndexesInv, NotInField
      <4> QED BY <4>1, <4>2 DEF Field, Needed
    <3> QED BY <3>3, <3>4, <3>5
  <2> QED BY <2>1, <2>2
<1> QED BY <1>1, WitnessSafe, PTL

=============================================================================

------------------------- MODULE CoinSelectionProofs -------------------------
(***************************************************************************)
(* Proofs about the selectors, for any pool, amounts, chain of selectors,  *)
(* requests and limits.                                                    *)
(***************************************************************************)
EXTENDS CoinSelection, SumsProofs, SequenceTheorems

-----------------------------------------------------------------------------
(* The value algebra, for any set of assets *)

\* Adding amounts gives an amount (Value.__add__, transaction.py:296).
LEMMA PlusAmounts ==
  ASSUME NEW a \in Amounts, NEW b \in Amounts
  PROVE  /\ a ++ b \in Amounts
         /\ \A k \in Kinds : (a ++ b)[k] = a[k] + b[k]
BY DEF Amounts, ++

\* Amounts may be added in any grouping.
LEMMA PlusAssociative ==
  ASSUME NEW a \in Amounts, NEW b \in Amounts, NEW c \in Amounts
  PROVE  a ++ (b ++ c) = (a ++ b) ++ c
<1>1. \A k \in Kinds : a[k] \in Nat /\ b[k] \in Nat /\ c[k] \in Nat
  BY DEF Amounts
<1>2. \A k \in Kinds : a[k] + (b ++ c)[k] = (a ++ b)[k] + c[k]
  BY <1>1 DEF ++
<1>3. /\ a ++ (b ++ c) = [k \in Kinds |-> a[k] + (b ++ c)[k]]
      /\ (a ++ b) ++ c = [k \in Kinds |-> (a ++ b)[k] + c[k]]
  BY DEF ++
<1> QED BY <1>2, <1>3

\* Zero and a single quantity are amounts.
LEMMA OnlyAmounts ==
  ASSUME NEW k \in Kinds, NEW n \in Nat
  PROVE  /\ Zero \in Amounts
         /\ Only(k, n) \in Amounts
         /\ \A j \in Kinds : Only(k, n)[j] = IF j = k THEN n ELSE 0
BY DEF Amounts, Only, Zero

\* For amounts, the key-by-key comparison of the code (transaction.py:320) is
\* the comparison of every quantity.
THEOREM LePointwise ==
  ASSUME NEW a \in Amounts, NEW b \in Amounts
  PROVE  ValueLe(a, b) <=> \A k \in Kinds : a[k] <= b[k]
<1>1. ASSUME ValueLe(a, b), NEW k \in Kinds
      PROVE  a[k] <= b[k]
  <2>1. CASE k = ADA
    BY <1>1, <2>1 DEF ValueLe
  <2>2. CASE k \in Assets /\ a[k] = 0
    BY <2>2 DEF Amounts
  <2>3. CASE k \in Assets /\ a[k] # 0
    BY <1>1, <2>3 DEF ValueLe, MultiAssetLe
  <2> QED BY <2>1, <2>2, <2>3 DEF Kinds
<1>2. ASSUME \A k \in Kinds : a[k] <= b[k]
      PROVE  ValueLe(a, b)
  <2>1. a[ADA] <= b[ADA]
    BY <1>2 DEF Kinds
  <2>2. ASSUME NEW x \in Assets, a[x] # 0
        PROVE  b[x] # 0 /\ a[x] <= b[x]
    <3>1. x \in Kinds /\ a[x] \in Nat /\ b[x] \in Nat
      BY DEF Kinds, Amounts
    <3> QED BY <1>2, <2>2, <3>1
  <2> QED BY <2>1, <2>2 DEF ValueLe, MultiAssetLe
<1> QED BY <1>1, <1>2

\* What covers a request still covers it after any amount is added: selection
\* never has to look back (coinselection.py:100-105, 176-182).
THEOREM LeMonotone ==
  ASSUME NEW a \in Amounts, NEW b \in Amounts, NEW c \in Amounts,
         ValueLe(a, b)
  PROVE  ValueLe(a, b ++ c)
<1>1. \A k \in Kinds : a[k] <= b[k]
  BY LePointwise
<1>2. \A k \in Kinds : (b ++ c)[k] = b[k] + c[k]
  BY PlusAmounts
<1>3. \A k \in Kinds : a[k] \in Nat /\ b[k] \in Nat /\ c[k] \in Nat
  BY DEF Amounts
<1>4. \A k \in Kinds : a[k] <= (b ++ c)[k]
  BY <1>1, <1>2, <1>3
<1> QED BY <1>4, LePointwise, PlusAmounts

\* A request for one kind is covered when that kind is.
LEMMA OnlyLe ==
  ASSUME NEW a \in Amounts, NEW k \in Kinds, NEW n \in Nat
  PROVE  ValueLe(Only(k, n), a) <=> n <= a[k]
<1>1. \A j \in Kinds : a[j] \in Nat
  BY DEF Amounts
<1>2. (\A j \in Kinds : Only(k, n)[j] <= a[j]) <=> n <= a[k]
  BY <1>1, OnlyAmounts
<1> QED BY <1>2, LePointwise, OnlyAmounts

\* <= orders amounts partially: it is reflexive, transitive and antisymmetric.
THEOREM LePartialOrder ==
  ASSUME NEW a \in Amounts, NEW b \in Amounts, NEW c \in Amounts
  PROVE  /\ ValueLe(a, a)
         /\ ValueLe(a, b) /\ ValueLe(b, c) => ValueLe(a, c)
         /\ ValueLe(a, b) /\ ValueLe(b, a) => a = b
<1>1. \A k \in Kinds : a[k] \in Nat /\ b[k] \in Nat /\ c[k] \in Nat
  BY DEF Amounts
<1>2. ValueLe(a, a)
  BY <1>1, LePointwise
<1>3. ValueLe(a, b) /\ ValueLe(b, c) => ValueLe(a, c)
  BY <1>1, LePointwise
<1>4. ASSUME ValueLe(a, b), ValueLe(b, a)
      PROVE  a = b
  <2>1. \A k \in Kinds : a[k] = b[k]
    BY <1>1, <1>4, LePointwise
  <2> QED BY <2>1 DEF Amounts
<1> QED BY <1>2, <1>3, <1>4

\* The minimum ADA of an output is a natural number (utils.py:201).
LEMMA MinLovelaceType ==
  ASSUME NEW v \in Value
  PROVE  MinLovelace(v) \in Nat
<1>1. AssetsOf(v) \in SUBSET Assets
  BY DEF AssetsOf
<1>2. Cardinality(AssetsOf(v)) \in Nat
  BY <1>1, AssetsAssumption, FS_Subset, FS_CardinalityType
<1>3. MinPerAsset * Cardinality(AssetsOf(v)) \in Nat
  BY <1>2, MinAssumption
<1> QED BY <1>3, MinAssumption DEF MinLovelace

-----------------------------------------------------------------------------
(* The queue of requests and the calls *)

\* There are finitely many kinds, so a value requests finitely many.
LEMMA KindsFinite ==
  ASSUME NEW v \in Amounts
  PROVE  Requested(v) \in SUBSET Kinds /\ Cardinality(Requested(v)) \in Nat
<1>1. IsFiniteSet(Kinds)
  BY AssetsAssumption, FS_AddElement DEF Kinds
<1>2. Requested(v) \in SUBSET Kinds
  BY DEF Requested
<1> QED BY <1>1, <1>2, FS_Subset, FS_CardinalityType

\* request_sorted holds every requested kind (coinselection.py:284-286).
LEMMA OrdersCover ==
  ASSUME NEW v \in Amounts, NEW q \in Orders(v)
  PROVE  /\ q \in Seq(Kinds)
         /\ \A k \in Kinds : v[k] # 0 => \E i \in 1..Len(q) : q[i] = k
<1> DEFINE n == Cardinality(Requested(v))
<1>1. n \in Nat /\ Requested(v) \in SUBSET Kinds
  BY KindsFinite
<1>2. q \in [1..n -> Requested(v)] /\ \A k \in Requested(v) : \E i \in 1..n : q[i] = k
  BY DEF Orders
<1>3. q \in Seq(Kinds) /\ Len(q) = n
  BY <1>1, <1>2
<1>4. \A k \in Kinds : v[k] # 0 => k \in Requested(v)
  BY DEF Requested
<1> QED BY <1>2, <1>3, <1>4

\* A call that starts leaves its variables well typed and a complete queue.
LEMMA EnterWellTyped ==
  ASSUME NEW sel \in SelectorNames, NEW lvl \in {0, 1}, NEW req \in Amounts,
         NEW amt \in Amounts, NEW lim \in Int \cup {NoLimit},
         NEW pool \in SUBSET UTxOs,
         Enter(sel, lvl, req, amt, lim, pool)
  PROVE  /\ pc' = "cover" /\ level' = lvl /\ target' = req /\ amount' = amt
         /\ level' \in {0, 1} /\ target' \in Amounts /\ amount' \in Amounts
         /\ limit' \in Int \cup {NoLimit}
         /\ avail' \in SUBSET UTxOs
         /\ picked' \in Seq(UTxOs)
         /\ queue' \in Seq(Kinds)
         /\ idx' = 1 /\ idx' \in 0..(Len(queue') + 1)
         /\ scratch' \in SUBSET UTxOs
         /\ mark' \in Nat
         /\ sel = "RandomImprove" =>
              \A k \in Kinds : req[k] # 0 => \E i \in 1..Len(queue') : queue'[i] = k
<1>1. queue' \in Seq(Kinds)
  <2>1. CASE sel = "RandomImprove"
    BY <2>1, OrdersCover DEF Enter
  <2>2. CASE sel = "LargestFirst"
    BY <2>2 DEF Enter
  <2> QED BY <2>1, <2>2 DEF SelectorNames
<1>2. sel = "RandomImprove" =>
        \A k \in Kinds : req[k] # 0 => \E i \in 1..Len(queue') : queue'[i] = k
  BY OrdersCover DEF Enter
<1>3. idx' = 1 /\ idx' \in 0..(Len(queue') + 1)
  BY <1>1 DEF Enter
<1>4. picked' \in Seq(UTxOs)
  BY DEF Enter
<1> QED BY <1>1, <1>2, <1>3, <1>4 DEF Enter

\* The selectors of the chain are known ones.
LEMMA ChainSelectors ==
  ASSUME job \in JobType, NEW i \in 1..Len(job.chain)
  PROVE  job.chain[i] \in SelectorNames
BY DEF JobType

\* NoOuter is a possible value of outer, and taking a UTxO keeps the types.
LEMMA TakeWellTyped ==
  ASSUME TypeOK, NEW u \in UTxOs
  PROVE  /\ NoOuter \in [picked : Seq(UTxOs), amount : Amounts]
         /\ Amount[u] \in Amounts
         /\ Append(picked, u) \in Seq(UTxOs)
         /\ amount ++ Amount[u] \in Amounts
         /\ drawn ++ Amount[u] \in Amounts
<1>1. Amount[u] \in Amounts
  BY UTxOAssumption
<1>2. Zero \in Amounts
  BY DEF Zero, Amounts
<1>3. NoOuter \in [picked : Seq(UTxOs), amount : Amounts]
  BY <1>2 DEF NoOuter
<1> QED BY <1>1, <1>3, PlusAmounts DEF TypeOK

-----------------------------------------------------------------------------

\* Nothing is running yet, and nothing has been taken.
LEMMA InitInv == Init => SelectionInv
<1> SUFFICES ASSUME Init PROVE SelectionInv
  OBVIOUS
<1>1. Zero \in Amounts /\ NoOuter \in [picked : Seq(UTxOs), amount : Amounts]
  BY DEF Zero, Amounts, NoOuter
<1>2. 1 \in 1..Len(job.chain)
  BY JobsAssumption DEF Init, Idle, JobType
<1>3. TypeOK
  BY <1>1, <1>2, JobsAssumption DEF Init, Idle, TypeOK, Final
<1>4. pc = "idle"
  BY DEF Init, Idle
<1> QED BY <1>3, <1>4 DEF SelectionInv, RunningAmounts, QueueCovers,
            CoveredFromThenOn, FirstSelectorCovers, RequestCovered, Running

\* A raise ends the call or starts the next selector, whose queue is complete
\* and which is not the first.
LEMMA RaiseInv ==
  ASSUME SelectionInv, pc \in Running, NEW amt \in Amounts, Raise(amt)
  PROVE  SelectionInv'
<1> USE DEF SelectionInv
<1>1. job \in JobType /\ job' = job
  BY DEF TypeOK, Raise
<1>2. CASE attempt < Len(job.chain)
  <2> DEFINE shared == IF level = 0 THEN amt ELSE outer.amount
  <2>1. attempt' = attempt + 1 /\ attempt' \in 1..Len(job.chain) /\ attempt' # 1
    BY <1>1, <1>2 DEF Raise, TypeOK, JobType
  <2>2. /\ outer' = NoOuter /\ drawn' = Zero
        /\ Enter(job.chain[attempt + 1], 0, job.request, shared, job.limit, job.pool)
    BY <1>2 DEF Raise
  <2>3. shared \in Amounts
    BY DEF TypeOK
  <2>4. /\ job.request \in Amounts /\ job.limit \in Int \cup {NoLimit}
        /\ job.pool \in SUBSET UTxOs
    BY <1>1 DEF JobType
  <2>5. job.chain[attempt + 1] \in SelectorNames
    BY <1>1, <2>1, ChainSelectors
  <2> HIDE DEF shared
  <2>6. /\ pc' = "cover" /\ level' = 0 /\ target' = job.request /\ amount' = shared
        /\ level' \in {0, 1} /\ target' \in Amounts /\ amount' \in Amounts
        /\ limit' \in Int \cup {NoLimit}
        /\ avail' \in SUBSET UTxOs
        /\ picked' \in Seq(UTxOs)
        /\ queue' \in Seq(Kinds)
        /\ idx' = 1 /\ idx' \in 0..(Len(queue') + 1)
        /\ scratch' \in SUBSET UTxOs
        /\ mark' \in Nat
        /\ job.chain[attempt + 1] = "RandomImprove" =>
             \A k \in Kinds : job.request[k] # 0 => \E i \in 1..Len(queue') : queue'[i] = k
    BY <2>2, <2>3, <2>4, <2>5, EnterWellTyped
  <2>7. NoOuter \in [picked : Seq(UTxOs), amount : Amounts] /\ Zero \in Amounts
    BY DEF NoOuter, Zero, Amounts
  <2>8. TypeOK'
    BY <1>1, <2>1, <2>2, <2>6, <2>7 DEF TypeOK, Running
  <2>9. QueueCovers'
    BY <1>1, <2>1, <2>6 DEF QueueCovers, Selector
  <2> QED BY <1>1, <2>1, <2>6, <2>8, <2>9 DEF RunningAmounts, CoveredFromThenOn,
              FirstSelectorCovers
<1>3. CASE ~(attempt < Len(job.chain))
  <2>1. pc' = "failed" /\ UNCHANGED <<job, attempt, level, target, limit, avail,
                picked, amount, queue, idx, scratch, mark, outer, drawn>>
    BY <1>3 DEF Raise
  <2>2. TypeOK'
    BY <2>1 DEF TypeOK, Final
  <2> QED BY <2>1, <2>2 DEF RunningAmounts, QueueCovers, CoveredFromThenOn,
              FirstSelectorCovers, RequestCovered, Running
<1> QED BY <1>2, <1>3

\* The first selector of a chain starts on any well-typed call.
LEMMA StartInv ==
  ASSUME NEW j \in JobType, j.chain # <<>>, StartSelection(j)
  PROVE  SelectionInv'
<1> DEFINE sel == j.chain[1]
           req == j.request
           ext == j.existing
           lim == j.limit
           pool == j.pool
<1>1. /\ job' = j /\ attempt' = 1 /\ outer' = NoOuter /\ drawn' = Zero
      /\ Enter(sel, 0, req, ext, lim, pool)
  BY DEF StartSelection
<1>2. 1 \in 1..Len(j.chain) /\ sel \in SelectorNames
  BY DEF JobType
<1>3. req \in Amounts /\ ext \in Amounts /\ lim \in Int \cup {NoLimit} /\ pool \in SUBSET UTxOs
  BY DEF JobType
<1> HIDE DEF sel, req, ext, lim, pool
<1>4. /\ pc' = "cover" /\ level' = 0 /\ target' = req /\ amount' = ext
      /\ level' \in {0, 1} /\ target' \in Amounts /\ amount' \in Amounts
      /\ limit' \in Int \cup {NoLimit}
      /\ avail' \in SUBSET UTxOs
      /\ picked' \in Seq(UTxOs)
      /\ queue' \in Seq(Kinds)
      /\ idx' = 1 /\ idx' \in 0..(Len(queue') + 1)
      /\ scratch' \in SUBSET UTxOs
      /\ mark' \in Nat
      /\ sel = "RandomImprove" =>
           \A k \in Kinds : req[k] # 0 => \E i \in 1..Len(queue') : queue'[i] = k
  BY <1>1, <1>2, <1>3, EnterWellTyped
<1>5. NoOuter \in [picked : Seq(UTxOs), amount : Amounts] /\ Zero \in Amounts
  BY DEF NoOuter, Zero, Amounts
<1>6. TypeOK'
  BY <1>1, <1>2, <1>4, <1>5 DEF TypeOK, Running
<1>7. QueueCovers'
  BY <1>1, <1>4 DEF QueueCovers, Selector, sel
<1>8. ext = ext ++ Zero
  BY <1>3 DEF Amounts, ++, Zero
<1>9. RunningAmounts'
  BY <1>1, <1>4, <1>8 DEF RunningAmounts, req, ext
<1> QED BY <1>4, <1>6, <1>7, <1>9 DEF SelectionInv, CoveredFromThenOn,
           FirstSelectorCovers, RequestCovered

\* The first call of the chain.
LEMMA CallInv == SelectionInv /\ Call => SelectionInv'
<1> SUFFICES ASSUME SelectionInv, Call PROVE SelectionInv'
  OBVIOUS
<1>1. job \in JobType /\ job.chain # <<>> /\ StartSelection(job)
  BY DEF SelectionInv, TypeOK, Call, JobType
<1> QED BY <1>1, StartInv

-----------------------------------------------------------------------------

\* Taking one more UTxO keeps the sums and the requests already covered.
LEMMA TakeInv ==
  ASSUME SelectionInv, pc \in {"cover", "improve"}, pc' = pc,
         NEW u \in UTxOs, Take(u),
         avail' \in SUBSET UTxOs, scratch' \in SUBSET UTxOs,
         UNCHANGED <<job, attempt, level, target, limit, queue, idx, mark, outer>>
  PROVE  SelectionInv'
<1> USE DEF SelectionInv
<1>1. /\ picked' \in Seq(UTxOs) /\ amount' = amount ++ Amount[u]
      /\ drawn' = drawn ++ Amount[u] /\ amount' \in Amounts
      /\ drawn' \in Amounts /\ Amount[u] \in Amounts
  BY TakeWellTyped DEF Take
<1>2. TypeOK'
  BY <1>1 DEF TypeOK
<1>3. /\ amount \in Amounts /\ drawn \in Amounts /\ outer.amount \in Amounts
      /\ target \in Amounts /\ job.existing \in Amounts /\ job.request \in Amounts
  BY DEF TypeOK, JobType
<1>4. \A k \in Kinds : /\ amount[k] <= amount'[k]
                       /\ amount[k] \in Nat /\ amount'[k] \in Nat
  <2>1. \A k \in Kinds : amount'[k] = amount[k] + Amount[u][k]
    BY <1>1, <1>3, PlusAmounts
  <2>2. \A k \in Kinds : amount[k] \in Nat /\ Amount[u][k] \in Nat
    BY <1>1, <1>3 DEF Amounts
  <2> QED BY <2>1, <2>2
<1>5. RunningAmounts'
  <2>1. CASE level = 0
    <3>1. attempt = 1 => amount = job.existing ++ drawn
      BY <2>1 DEF RunningAmounts, Running
    <3>2. attempt = 1 => amount' = job.existing ++ drawn'
      BY <1>1, <1>3, <3>1, PlusAssociative
    <3> QED BY <2>1, <3>2 DEF RunningAmounts, Running
  <2>2. CASE level = 1
    <3>1. attempt = 1 => outer.amount ++ amount = job.existing ++ drawn
      BY <2>2 DEF RunningAmounts, Running
    <3>2. /\ outer.amount ++ amount' = (outer.amount ++ amount) ++ Amount[u]
          /\ job.existing ++ drawn' = (job.existing ++ drawn) ++ Amount[u]
      BY <1>1, <1>3, PlusAssociative
    <3> QED BY <2>2, <3>1, <3>2 DEF RunningAmounts, Running
  <2> QED BY <2>1, <2>2 DEF TypeOK
<1>6. QueueCovers'
  <2> SUFFICES ASSUME pc = "cover", Selector = "RandomImprove"
               PROVE  \A i \in 1..Len(queue) : i < idx => target[queue[i]] <= amount'[queue[i]]
    BY DEF QueueCovers, Selector
  <2> TAKE i \in 1..Len(queue)
  <2>1. queue[i] \in Kinds
    BY DEF TypeOK
  <2>2. i < idx => target[queue[i]] <= amount[queue[i]]
    BY DEF QueueCovers
  <2>3. target[queue[i]] \in Nat
    BY <1>3, <2>1 DEF Amounts
  <2> QED BY <1>4, <2>1, <2>2, <2>3
<1>7. CoveredFromThenOn'
  <2>1. pc = "improve" => ValueLe(target, amount')
    BY <1>1, <1>3, LeMonotone DEF CoveredFromThenOn
  <2> QED BY <2>1 DEF CoveredFromThenOn
<1>8. FirstSelectorCovers' /\ (pc = "improve" => idx \in 1..Len(queue))'
  BY DEF FirstSelectorCovers, RequestCovered
<1> QED BY <1>2, <1>5, <1>6, <1>7, <1>8

\* LargestFirstSelector's steps.
LEMMA LargestFirstInv == SelectionInv /\ LargestFirstStep => SelectionInv'
<1> SUFFICES ASSUME SelectionInv, LargestFirstStep PROVE SelectionInv'
  OBVIOUS
<1>0. pc = "cover" /\ Selector = "LargestFirst" /\ pc \in Running
  BY DEF LargestFirstStep, LargestFirstEmpty, LargestFirstPick,
         LargestFirstCovered, AtLargestFirst, Running
<1>1. amount \in Amounts /\ target \in Amounts /\ avail \in SUBSET UTxOs
  BY DEF SelectionInv, TypeOK
<1>2. CASE LargestFirstEmpty
  BY <1>0, <1>1, <1>2, RaiseInv DEF LargestFirstEmpty
<1>3. CASE LargestFirstPick
  <2>1. PICK u \in avail :
          IF Exceeds(Len(picked) + 1, limit)
          THEN Raise(amount ++ Amount[u])
          ELSE /\ Take(u)
               /\ avail' = avail \ {u}
               /\ UNCHANGED <<job, attempt, pc, level, target, limit, queue,
                              idx, scratch, mark, outer>>
    BY <1>3 DEF LargestFirstPick
  <2>2. u \in UTxOs /\ amount ++ Amount[u] \in Amounts
    BY <1>1, TakeWellTyped DEF SelectionInv
  <2>3. CASE Exceeds(Len(picked) + 1, limit)
    BY <1>0, <2>1, <2>2, <2>3, RaiseInv
  <2>4. CASE ~Exceeds(Len(picked) + 1, limit)
    <3>1. avail' \in SUBSET UTxOs /\ scratch' \in SUBSET UTxOs
      BY <1>1, <2>1, <2>4 DEF SelectionInv, TypeOK
    <3> QED BY <1>0, <2>1, <2>2, <2>4, <3>1, TakeInv
  <2> QED BY <2>3, <2>4
<1>4. CASE LargestFirstCovered
  <2>1. /\ pc' = "min_change" /\ ValueLe(target, amount)
        /\ UNCHANGED <<job, attempt, level, target, limit, avail, picked,
                       amount, queue, idx, scratch, mark, outer, drawn>>
    BY <1>4 DEF LargestFirstCovered
  <2>2. TypeOK'
    BY <2>1 DEF SelectionInv, TypeOK, Running
  <2>3. RunningAmounts' /\ CoveredFromThenOn'
    BY <1>0, <2>1 DEF SelectionInv, RunningAmounts, CoveredFromThenOn, Running
  <2> QED BY <2>1, <2>2, <2>3 DEF SelectionInv, QueueCovers,
              FirstSelectorCovers, RequestCovered
<1> QED BY <1>2, <1>3, <1>4 DEF LargestFirstStep

\* A request covered for kind k is covered as a Value.
LEMMA LackingMeans ==
  ASSUME TypeOK, idx \in 1..Len(queue)
  PROVE  /\ queue[idx] \in Kinds
         /\ Lacking <=> ~(target[queue[idx]] <= amount[queue[idx]])
<1>1. queue[idx] \in Kinds /\ target[queue[idx]] \in Nat
  BY DEF TypeOK, Amounts
<1>2. amount \in Amounts /\ idx <= Len(queue)
  BY DEF TypeOK
<1> QED BY <1>1, <1>2, OnlyLe DEF Lacking, Request

\* RandomImproveMultiAsset's first phase.
LEMMA RandomCoverInv == SelectionInv /\ RandomCoverStep => SelectionInv'
<1> SUFFICES ASSUME SelectionInv, RandomCoverStep PROVE SelectionInv'
  OBVIOUS
<1>0. pc = "cover" /\ Selector = "RandomImprove" /\ pc \in Running
  BY DEF RandomCoverStep, RandomEmpty, RandomPick, RandomDrawRaises,
         RandomCovered, AtRandomCover, Running
<1>1. amount \in Amounts /\ avail \in SUBSET UTxOs
  BY DEF SelectionInv, TypeOK
<1>2. CASE RandomEmpty \/ RandomDrawRaises
  BY <1>0, <1>1, <1>2, RaiseInv DEF RandomEmpty, RandomDrawRaises
<1>3. CASE RandomPick
  <2>1. PICK u \in avail : Take(u) /\ avail' = avail \ {u}
    BY <1>3 DEF RandomPick
  <2>2. UNCHANGED <<job, attempt, pc, level, target, limit, queue, idx, scratch,
                    mark, outer>>
    BY <1>3 DEF RandomPick
  <2>3. u \in UTxOs /\ avail' \in SUBSET UTxOs /\ scratch' \in SUBSET UTxOs
    BY <1>1, <2>1, <2>2 DEF SelectionInv, TypeOK
  <2> QED BY <1>0, <2>1, <2>2, <2>3, TakeInv
<1>4. CASE RandomCovered /\ Exceeds(Len(picked), limit)
  BY <1>0, <1>1, <1>4, RaiseInv DEF RandomCovered
<1>5. CASE RandomCovered /\ ~Exceeds(Len(picked), limit)
  <2>1. /\ idx' = idx + 1 /\ idx <= Len(queue) /\ ~Lacking
        /\ UNCHANGED <<job, attempt, pc, level, target, limit, avail, picked,
                       amount, queue, scratch, mark, outer, drawn>>
    BY <1>5 DEF RandomCovered
  <2>2. TypeOK'
    BY <2>1 DEF SelectionInv, TypeOK
  <2>3. QueueCovers'
    <3>1. /\ \A k \in Kinds : target[k] # 0 => \E i \in 1..Len(queue) : queue[i] = k
          /\ \A i \in 1..Len(queue) : i < idx => target[queue[i]] <= amount[queue[i]]
      BY <1>0 DEF SelectionInv, QueueCovers
    <3>2. idx \in 0..(Len(queue) + 1) /\ Len(queue) \in Nat
      BY DEF SelectionInv, TypeOK
    <3>3. idx \in 1..Len(queue) => target[queue[idx]] <= amount[queue[idx]]
      BY <2>1, LackingMeans DEF SelectionInv
    <3>4. \A i \in 1..Len(queue) : i < idx + 1 => target[queue[i]] <= amount[queue[i]]
      BY <3>1, <3>2, <3>3
    <3> QED BY <2>1, <3>1, <3>4 DEF QueueCovers, Selector
  <2> QED BY <1>0, <2>1, <2>2, <2>3 DEF SelectionInv, RunningAmounts,
              CoveredFromThenOn, FirstSelectorCovers, RequestCovered, Running
<1> QED BY <1>2, <1>3, <1>4, <1>5 DEF RandomCoverStep

\* The end of a round of _improve.
LEMMA EndRoundInv ==
  ASSUME SelectionInv, pc = "improve", EndRound
  PROVE  SelectionInv'
<1> DEFINE left == avail \ {picked[i] : i \in (mark + 1)..Len(picked)}
<1>1. /\ avail' = left /\ scratch' = left /\ mark' = Len(picked)
      /\ UNCHANGED <<job, attempt, level, target, limit, picked, amount, queue,
                     outer, drawn>>
  BY DEF EndRound
<1>2. \/ idx > 1 /\ idx' = idx - 1 /\ pc' = "improve"
      \/ idx' = idx /\ pc' = "min_change"
  BY DEF EndRound
<1>3. left \in SUBSET UTxOs /\ Len(picked) \in Nat
  BY DEF SelectionInv, TypeOK
<1>4. idx \in 1..Len(queue) /\ Len(queue) \in Nat
  BY DEF SelectionInv, TypeOK
<1>5. TypeOK'
  BY <1>1, <1>2, <1>3, <1>4 DEF SelectionInv, TypeOK, Running
<1>6. pc' = "improve" => idx' \in 1..Len(queue)
  BY <1>2, <1>4
<1> QED BY <1>1, <1>2, <1>5, <1>6 DEF SelectionInv, RunningAmounts, QueueCovers,
           CoveredFromThenOn, FirstSelectorCovers, RequestCovered, Running

\* RandomImproveMultiAsset's second phase.  When it begins every requested kind
\* is in the queue and covered, and so the request is.
LEMMA ImproveInv == SelectionInv /\ ImproveStep => SelectionInv'
<1> SUFFICES ASSUME SelectionInv, ImproveStep PROVE SelectionInv'
  OBVIOUS
<1>1. CASE BeginImprove
  <2>1. /\ pc = "cover" /\ Selector = "RandomImprove" /\ idx > Len(queue)
        /\ pc' = IF queue = <<>> THEN "min_change" ELSE "improve"
        /\ idx' = Len(queue) /\ scratch' = avail /\ mark' = Len(picked)
        /\ UNCHANGED <<job, attempt, level, target, limit, avail, picked, amount,
                       queue, outer, drawn>>
    BY <1>1 DEF BeginImprove, AtRandomCover
  <2>2. TypeOK
    BY DEF SelectionInv
  <2>3. queue \in Seq(Kinds) /\ Len(queue) \in Nat /\ Len(picked) \in Nat
    BY <2>2 DEF TypeOK
  <2>4. queue # <<>> => Len(queue) \in 1..Len(queue)
    BY <2>3
  <2>5. TypeOK'
    BY <2>1, <2>2, <2>3 DEF TypeOK, Running
  <2>6. ValueLe(target, amount)
    <3>1. target \in Amounts /\ amount \in Amounts
      BY <2>2 DEF TypeOK
    <3>2. ASSUME NEW k \in Kinds
          PROVE  target[k] <= amount[k]
      <4>1. target[k] \in Nat /\ amount[k] \in Nat
        BY <3>1 DEF Amounts
      <4>2. CASE target[k] # 0
        <5>1. PICK i \in 1..Len(queue) : queue[i] = k
          BY <2>1, <4>2 DEF SelectionInv, QueueCovers
        <5>2. i < idx
          BY <2>1, <2>3, <5>1, <2>2 DEF TypeOK
        <5> QED BY <2>1, <5>1, <5>2 DEF SelectionInv, QueueCovers
      <4> QED BY <4>1, <4>2
    <3> QED BY <3>1, <3>2, LePointwise
  <2> QED BY <2>1, <2>4, <2>5, <2>6 DEF SelectionInv, RunningAmounts, QueueCovers,
              CoveredFromThenOn, FirstSelectorCovers, RequestCovered, Running
<1>2. CASE ImproveDraw
  <2>1. /\ pc = "improve"
        /\ UNCHANGED <<job, attempt, pc, level, target, limit, avail, queue, idx,
                       mark, outer>>
    BY <1>2 DEF ImproveDraw, Drawing
  <2>2. PICK u \in scratch :
          /\ scratch' = scratch \ {u}
          /\ IF Better(u) THEN Take(u) ELSE UNCHANGED <<picked, amount, drawn>>
    BY <1>2 DEF ImproveDraw
  <2>3. u \in UTxOs /\ avail' \in SUBSET UTxOs /\ scratch' \in SUBSET UTxOs
    BY <2>1, <2>2 DEF SelectionInv, TypeOK
  <2>4. CASE Better(u)
    BY <2>1, <2>2, <2>3, <2>4, TakeInv
  <2>5. CASE ~Better(u)
    <3>1. UNCHANGED <<picked, amount, drawn>>
      BY <2>2, <2>5
    <3>2. TypeOK'
      BY <2>1, <2>3, <3>1 DEF SelectionInv, TypeOK
    <3> QED BY <2>1, <3>1, <3>2 DEF SelectionInv, RunningAmounts, QueueCovers,
               CoveredFromThenOn, FirstSelectorCovers, RequestCovered
  <2> QED BY <2>4, <2>5
<1>3. CASE ImproveEnd \/ ImproveDrawRaises
  BY <1>3, EndRoundInv DEF ImproveEnd, ImproveDrawRaises, Drawing
<1> QED BY <1>1, <1>2, <1>3 DEF ImproveStep

\* An IndexError ends everything.
LEMMA CrashInv == SelectionInv /\ DrawCrashes => SelectionInv'
<1> SUFFICES ASSUME SelectionInv, DrawCrashes PROVE SelectionInv'
  OBVIOUS
<1>1. /\ pc' = "crashed"
      /\ UNCHANGED <<job, attempt, level, target, limit, avail, picked, amount,
                     queue, idx, scratch, mark, outer, drawn>>
  BY DEF DrawCrashes
<1>2. TypeOK'
  BY <1>1 DEF SelectionInv, TypeOK, Final
<1> QED BY <1>1, <1>2 DEF SelectionInv, RunningAmounts, QueueCovers,
           CoveredFromThenOn, FirstSelectorCovers, RequestCovered, Running

\* The change of a covered request is a value, and what is missing to its
\* minimum an amount.
LEMMA MissingChangeType ==
  ASSUME TypeOK
  PROVE  /\ MinLovelace(Change) \in Nat
         /\ Change[ADA] \in Int
         /\ NeedsChange => MinLovelace(Change) - Change[ADA] \in Nat
<1>1. Change \in Value
  BY DEF TypeOK, Change, --, Value, Amounts
<1>2. MinLovelace(Change) \in Nat /\ Change[ADA] \in Int
  BY <1>1, MinLovelaceType DEF Value, Kinds
<1> QED BY <1>2 DEF NeedsChange

\* The end of select: the recursive call for change, and both returns.
LEMMA FinishInv == SelectionInv /\ FinishStep => SelectionInv'
<1> SUFFICES ASSUME SelectionInv, FinishStep PROVE SelectionInv'
  OBVIOUS
<1>0. TypeOK /\ pc = "min_change" /\ pc \in Running
  BY DEF FinishStep, RequestMinChange, ReturnAdditional, ReturnSelected,
         Running, SelectionInv
<1>01. /\ job \in JobType /\ amount \in Amounts /\ drawn \in Amounts
       /\ outer.amount \in Amounts /\ target \in Amounts
       /\ job.request \in Amounts /\ job.existing \in Amounts
       /\ job.limit \in Int \cup {NoLimit}
  BY <1>0 DEF TypeOK, JobType
<1>02. ValueLe(target, amount)
  BY <1>0 DEF SelectionInv, CoveredFromThenOn
<1>1. CASE RequestMinChange
  <2> DEFINE missing == MinLovelace(Change) - Change[ADA]
             rest == RemainingLimit(limit, Len(picked))
  <2>1. /\ NeedsChange /\ level = 0
        /\ outer' = [picked |-> picked, amount |-> amount]
        /\ Enter(Selector, 1, Only(ADA, missing), Zero, rest, avail)
        /\ UNCHANGED <<job, attempt, drawn>>
    BY <1>1 DEF RequestMinChange, NeedsChange, Respects
  <2>2. missing \in Nat
    BY <1>0, <2>1, MissingChangeType
  <2>3. Only(ADA, missing) \in Amounts /\ Zero \in Amounts
    BY <2>2, OnlyAmounts DEF Kinds
  <2>4. rest \in Int \cup {NoLimit}
    BY <1>0 DEF TypeOK, RemainingLimit
  <2>5. Selector \in SelectorNames /\ avail \in SUBSET UTxOs
    BY <1>0, ChainSelectors DEF TypeOK, Selector
  <2> HIDE DEF missing, rest
  <2>6. /\ pc' = "cover" /\ level' = 1 /\ target' = Only(ADA, missing)
        /\ amount' = Zero
        /\ level' \in {0, 1} /\ target' \in Amounts /\ amount' \in Amounts
        /\ limit' \in Int \cup {NoLimit}
        /\ avail' \in SUBSET UTxOs
        /\ picked' \in Seq(UTxOs)
        /\ queue' \in Seq(Kinds)
        /\ idx' = 1 /\ idx' \in 0..(Len(queue') + 1)
        /\ scratch' \in SUBSET UTxOs
        /\ mark' \in Nat
        /\ Selector = "RandomImprove" =>
             \A k \in Kinds : Only(ADA, missing)[k] # 0 =>
                \E i \in 1..Len(queue') : queue'[i] = k
    BY <2>1, <2>3, <2>4, <2>5, EnterWellTyped
  <2>7. outer' \in [picked : Seq(UTxOs), amount : Amounts]
    BY <1>0, <2>1 DEF TypeOK
  <2>8. TypeOK'
    BY <1>0, <2>1, <2>6, <2>7 DEF TypeOK, Running
  <2>9. QueueCovers'
    BY <2>1, <2>6 DEF QueueCovers, Selector
  <2>10. RunningAmounts'
    <3>1. /\ target = job.request
          /\ attempt = 1 => amount = job.existing ++ drawn
      BY <1>0, <2>1 DEF SelectionInv, RunningAmounts
    <3>2. outer'.amount = amount /\ amount ++ Zero = amount
      BY <1>01, <2>1 DEF ++, Zero, Amounts
    <3> QED BY <1>02, <2>1, <2>6, <3>1, <3>2 DEF RunningAmounts
  <2> QED BY <2>1, <2>6, <2>8, <2>9, <2>10 DEF SelectionInv, CoveredFromThenOn,
              FirstSelectorCovers, RequestCovered
<1>2. CASE ReturnAdditional
  <2>1. /\ level = 1 /\ pc' = "selected" /\ level' = 0
        /\ picked' = outer.picked \o picked /\ amount' = outer.amount ++ amount
        /\ target' = job.request /\ limit' = job.limit /\ outer' = NoOuter
        /\ UNCHANGED <<job, attempt, avail, queue, idx, scratch, mark, drawn>>
    BY <1>2 DEF ReturnAdditional
  <2>2. picked' \in Seq(UTxOs) /\ amount' \in Amounts
    BY <1>0, <1>01, <2>1, PlusAmounts DEF TypeOK
  <2>3. NoOuter \in [picked : Seq(UTxOs), amount : Amounts]
    BY DEF NoOuter, Zero, Amounts
  <2>4. TypeOK'
    BY <1>0, <1>01, <2>1, <2>2, <2>3 DEF TypeOK, Final
  <2>5. ValueLe(job.request, outer.amount)
    BY <1>0, <2>1 DEF SelectionInv, RunningAmounts
  <2>6. ValueLe(job.request, outer.amount ++ amount)
    BY <1>01, <2>5, LeMonotone
  <2>7. attempt = 1 => outer.amount ++ amount = job.existing ++ drawn
    BY <1>0, <2>1 DEF SelectionInv, RunningAmounts
  <2> QED BY <2>1, <2>4, <2>6, <2>7 DEF SelectionInv, RunningAmounts, QueueCovers,
              CoveredFromThenOn, FirstSelectorCovers, RequestCovered, Running
<1>3. CASE ReturnSelected
  <2>1. /\ level = 0 /\ pc' = "selected"
        /\ UNCHANGED <<job, attempt, level, target, limit, avail, picked, amount,
                       queue, idx, scratch, mark, outer, drawn>>
    BY <1>3 DEF ReturnSelected
  <2>2. TypeOK'
    BY <1>0, <2>1 DEF TypeOK, Final
  <2>3. /\ target = job.request
        /\ attempt = 1 => amount = job.existing ++ drawn
    BY <1>0, <2>1 DEF SelectionInv, RunningAmounts
  <2> QED BY <1>02, <2>1, <2>2, <2>3 DEF SelectionInv, RunningAmounts, QueueCovers,
              CoveredFromThenOn, FirstSelectorCovers, RequestCovered, Running
<1> QED BY <1>1, <1>2, <1>3 DEF FinishStep

-----------------------------------------------------------------------------

\* Every step of the selectors keeps the strengthening.
LEMMA StepInv == SelectionInv /\ SelectionStep => SelectionInv'
BY LargestFirstInv, RandomCoverInv, ImproveInv, CrashInv, FinishInv DEF SelectionStep

LEMMA SameInv == SelectionInv /\ UNCHANGED vars => SelectionInv'
<1> SUFFICES ASSUME SelectionInv, UNCHANGED vars PROVE SelectionInv'
  OBVIOUS
<1>1. TypeOK'
  BY DEF SelectionInv, TypeOK, vars
<1> QED BY <1>1 DEF SelectionInv, RunningAmounts, QueueCovers, vars,
           CoveredFromThenOn, FirstSelectorCovers, RequestCovered, Selector

LEMMA NextInv == SelectionInv /\ [Next]_vars => SelectionInv'
BY CallInv, StepInv, SameInv DEF Next, Returned

\* The strengthening is inductive.
THEOREM SelectionInvariant == Spec => []SelectionInv
BY NextInv, InitInv, PTL DEF Spec

\* Types are kept (coinselection.py:73-341).
THEOREM SelectionTypeOK == Spec => []TypeOK
<1>1. SelectionInv => TypeOK
  BY DEF SelectionInv
<1> QED BY <1>1, SelectionInvariant, PTL

\* Whatever the chain, the pool and the request, the selector that is tried
\* first returns UTxOs that are really worth the request (coinselection.py:42).
THEOREM FirstSelectorIsSound == Spec => []FirstSelectorCovers
<1>1. SelectionInv => FirstSelectorCovers
  BY DEF SelectionInv
<1> QED BY <1>1, SelectionInvariant, PTL

\* A covered request stays covered through _improve and the recursive call.
THEOREM CoverageIsStable == Spec => []CoveredFromThenOn
<1>1. SelectionInv => CoveredFromThenOn
  BY DEF SelectionInv
<1> QED BY <1>1, SelectionInvariant, PTL

\* The upper bound test of _improve is implied by the two tests before it.
THEOREM UpperBoundIsRedundant == Spec => []UpperBoundNeverDecides
<1>1. SelectionInv => UpperBoundNeverDecides
  <2> SUFFICES ASSUME SelectionInv, Drawing, NEW u \in scratch
               PROVE  LET after == amount ++ Amount[u]
                      IN  Distance(after) < Distance(amount) =>
                            after[Round] <= UpperBound
    BY DEF UpperBoundNeverDecides
  <2>1. TypeOK /\ pc = "improve" /\ idx \in 1..Len(queue) /\ amount[Round] < Ideal
    BY DEF SelectionInv, Drawing
  <2>2. Round \in Kinds
    BY <2>1 DEF TypeOK, Round
  <2>3. /\ amount \in Amounts /\ target \in Amounts /\ Amount[u] \in Amounts
        /\ u \in UTxOs
    BY <2>1, UTxOAssumption DEF TypeOK
  <2>4. ValueLe(target, amount)
    BY <2>1 DEF SelectionInv, CoveredFromThenOn
  <2>5. target[Round] <= amount[Round]
    BY <2>2, <2>3, <2>4, LePointwise
  <2>6. (amount ++ Amount[u])[Round] = amount[Round] + Amount[u][Round]
    BY <2>2, <2>3, PlusAmounts
  <2>7. /\ amount[Round] \in Nat /\ target[Round] \in Nat
        /\ Amount[u][Round] \in Nat
    BY <2>2, <2>3 DEF Amounts
  <2> DEFINE have == amount[Round]
             want == target[Round]
             more == Amount[u][Round]
             after == (amount ++ Amount[u])[Round]
  <2>8. /\ have \in Nat /\ want \in Nat /\ more \in Nat /\ want <= have
        /\ have < 2 * want /\ after = have + more
    BY <2>1, <2>5, <2>6, <2>7 DEF Ideal
  <2>9. /\ Distance(amount) = IF have <= 2 * want THEN 2 * want - have ELSE have - 2 * want
        /\ Distance(amount ++ Amount[u])
             = IF after <= 2 * want THEN 2 * want - after ELSE after - 2 * want
        /\ UpperBound = 3 * want
    BY DEF Distance, Ideal, UpperBound
  <2> HIDE DEF have, want, more, after
  <2>10. Distance(amount ++ Amount[u]) < Distance(amount) => after <= UpperBound
    BY <2>8, <2>9
  <2> QED BY <2>10 DEF after
<1> QED BY <1>1, SelectionInvariant, PTL

-----------------------------------------------------------------------------
(* What UTxOs are worth *)

\* What UTxOs are worth is an amount, and grows with each of them by its own.
LEMMA WorthAmounts ==
  ASSUME NEW S \in SUBSET UTxOs
  PROVE  /\ WorthOf(S) \in Amounts
         /\ \A u \in UTxOs : u \notin S => WorthOf(S \cup {u}) = WorthOf(S) ++ Amount[u]
<1> DEFINE f(T, k) == [u \in T |-> Amount[u][k]]
<1>0. IsFiniteSet(S)
  BY UTxOAssumption, FS_Subset
<1>1. \A u \in UTxOs : \A k \in Kinds : Amount[u][k] \in Nat
  BY UTxOAssumption DEF Amounts
<1>2. ASSUME NEW k \in Kinds
      PROVE  Total(f(S, k), S) \in Nat
    <2>1. \A x \in S : f(S, k)[x] \in Nat
      BY <1>1
    <2> QED BY <1>0, <2>1, TotalFinite
<1>3. WorthOf(S) = [k \in Kinds |-> Total(f(S, k), S)]
  BY DEF WorthOf
<1>4. WorthOf(S) \in Amounts
  BY <1>2, <1>3 DEF Amounts
<1>5. ASSUME NEW u \in UTxOs, u \notin S
      PROVE  WorthOf(S \cup {u}) = WorthOf(S) ++ Amount[u]
  <2> DEFINE g(k) == f(S \cup {u}, k)
  <2>1. ASSUME NEW k \in Kinds
        PROVE  Total(g(k), S \cup {u}) = Total(f(S, k), S) + Amount[u][k]
    <3>1. \A x \in S : g(k)[x] = f(S, k)[x] /\ g(k)[x] \in Nat
      BY <1>1
    <3>2. g(k)[u] = Amount[u][k] /\ g(k)[u] \in Nat
      BY <1>1
    <3> DEFINE h == g(k)
               h0 == f(S, k)
    <3>3. /\ \A x \in S : h[x] = h0[x] /\ h[x] \in Nat
          /\ h[u] = Amount[u][k] /\ h[u] \in Nat
      BY <3>1, <3>2
    <3> HIDE DEF h, h0
    <3>4. IsFiniteSet(UnitsOf(h, S))
      BY <1>0, <3>3, TotalFinite
    <3>5. Total(h, S \cup {u}) = Total(h, S) + h[u]
      <4>1. u \notin S /\ h[u] \in Nat
        BY <1>5, <3>3
      <4> QED BY ONLY <3>4, <4>1, TotalAdd
    <3>6. Total(h, S) = Total(h0, S)
      BY <3>3, TotalSame
    <3>7. Total(h, S \cup {u}) = Total(h0, S) + Amount[u][k]
      BY <3>3, <3>5, <3>6
    <3> QED BY <3>7 DEF h, h0
  <2>2. WorthOf(S \cup {u}) = [k \in Kinds |-> Total(g(k), S \cup {u})]
    BY DEF WorthOf
  <2> HIDE DEF g, f
  <2> QED BY <1>3, <2>1, <2>2 DEF ++
<1> QED BY <1>4, <1>5

LEMMA WorthOfNone == WorthOf({}) = Zero
BY TotalEmpty DEF WorthOf, Zero

-----------------------------------------------------------------------------
(* What has been taken *)

Members(s) == {s[i] : i \in 1..Len(s)}

\* The UTxOs left over are those of the pool that were not taken; _improve looks
\* at what was taken before its round, and at fewer and fewer of the rest.
PoolInv ==
  /\ level = 0 => outer = NoOuter
  /\ pc = "selected" => level = 0
  /\ PickedOnce
  /\ pc \in {"cover", "min_change"} => avail = job.pool \ Members(AllPicked)
  /\ pc = "improve" =>
       /\ mark <= Len(picked)
       /\ avail = job.pool \ {AllPicked[i] : i \in 1..(Len(outer.picked) + mark)}
       /\ scratch \subseteq job.pool \ Members(AllPicked)

\* What the attempt has taken from the pool, and what it was given.
SumInv ==
  /\ pc \in Running \cup {"selected"} =>
       /\ drawn = WorthOf(Members(AllPicked))
       /\ level = 1 => drawn = WorthOf(Members(outer.picked)) ++ amount
  /\ pc = "idle" => level = 0 /\ drawn = Zero
  /\ pc # "idle" => \A k \in Kinds : job.existing[k] + drawn[k] <= Held[k]

\* A recursive call asks for what the change lacks, and no limit stays no limit.
RequestInv ==
  /\ pc \in Running /\ level = 1 =>
       LET change == outer.amount -- job.request
       IN  /\ job.respect
           /\ target = Only(ADA, MinLovelace(change) - change[ADA])
  /\ job.limit \in {NoLimit, 0} => limit \in {NoLimit, 0}
  /\ FailureJustified

TakenInv == PoolInv /\ SumInv /\ RequestInv

\* While requests are being covered, the position in their queue is one.
QueueInv == pc = "cover" => idx # 0

SelectorInv == SelectionInv /\ TakenInv /\ QueueInv

\* Appending adds one member, and repeats none if it is new.
LEMMA AppendMembers ==
  ASSUME NEW s \in Seq(UTxOs), NEW u \in UTxOs
  PROVE  /\ Append(s, u) \in Seq(UTxOs) /\ Len(Append(s, u)) = Len(s) + 1 /\ Len(s) \in Nat
         /\ \A i \in 1..Len(s) : Append(s, u)[i] = s[i]
         /\ Append(s, u)[Len(s) + 1] = u
         /\ Members(Append(s, u)) = Members(s) \cup {u}
<1> DEFINE t == Append(s, u)
<1>1. /\ t \in Seq(UTxOs) /\ Len(t) = Len(s) + 1 /\ Len(s) \in Nat
      /\ \A i \in 1..Len(s) : t[i] = s[i]
      /\ t[Len(s) + 1] = u
  BY AppendProperties, LenProperties
<1> HIDE DEF t
<1>2. Members(t) = Members(s) \cup {u}
  <2>1. ASSUME NEW x \in Members(t)
        PROVE  x \in Members(s) \cup {u}
    <3>1. PICK i \in 1..Len(t) : x = t[i]
      BY DEF Members
    <3>2. i \in 1..Len(s) \/ i = Len(s) + 1
      BY <1>1, <3>1
    <3> QED BY <1>1, <3>1, <3>2 DEF Members
  <2>2. ASSUME NEW x \in Members(s)
        PROVE  x \in Members(t)
    <3>1. PICK i \in 1..Len(s) : x = s[i]
      BY DEF Members
    <3>2. i \in 1..Len(t) /\ t[i] = x
      BY <1>1, <3>1
    <3> QED BY <3>2 DEF Members
  <2>3. u \in Members(t)
    <3>1. Len(t) \in 1..Len(t) /\ t[Len(t)] = u
      BY <1>1
    <3> QED BY <3>1 DEF Members
  <2> QED BY <2>1, <2>2, <2>3
<1> QED BY <1>1, <1>2 DEF t

\* The members of a concatenation, by their places.
LEMMA ConcatMembers ==
  ASSUME NEW s \in Seq(UTxOs), NEW t \in Seq(UTxOs)
  PROVE  /\ s \o t \in Seq(UTxOs) /\ Len(s \o t) = Len(s) + Len(t)
         /\ Len(s) \in Nat /\ Len(t) \in Nat
         /\ \A i \in 1..Len(s) : (s \o t)[i] = s[i]
         /\ \A i \in 1..Len(t) : (s \o t)[Len(s) + i] = t[i]
         /\ \A u \in UTxOs : s \o Append(t, u) = Append(s \o t, u)
<1>1. /\ s \o t \in Seq(UTxOs) /\ Len(s \o t) = Len(s) + Len(t)
      /\ Len(s) \in Nat /\ Len(t) \in Nat
      /\ \A i \in 1..(Len(s) + Len(t)) :
           (s \o t)[i] = IF i <= Len(s) THEN s[i] ELSE t[i - Len(s)]
  BY ConcatProperties, LenProperties
<1>2. \A i \in 1..Len(s) : (s \o t)[i] = s[i]
  BY <1>1
<1>3. \A i \in 1..Len(t) : (s \o t)[Len(s) + i] = t[i]
  <2> TAKE i \in 1..Len(t)
  <2>1. Len(s) + i \in 1..(Len(s) + Len(t)) /\ ~(Len(s) + i <= Len(s)) /\ (Len(s) + i) - Len(s) = i
    BY <1>1
  <2> QED BY <1>1, <2>1
<1>4. \A u \in UTxOs : s \o Append(t, u) = Append(s \o t, u)
  OBVIOUS
<1> QED BY <1>1, <1>2, <1>3, <1>4

\* What _improve's round has taken, seen in the list and in the whole.
LEMMA RoundMembers ==
  ASSUME NEW s \in Seq(UTxOs), NEW t \in Seq(UTxOs), NEW m \in 0..Len(t)
  PROVE  Members(s \o t) = {(s \o t)[i] : i \in 1..(Len(s) + m)}
                             \cup {t[i] : i \in (m + 1)..Len(t)}
<1> DEFINE c == s \o t
<1>1. /\ Len(c) = Len(s) + Len(t) /\ Len(s) \in Nat /\ Len(t) \in Nat
      /\ \A i \in 1..Len(t) : c[Len(s) + i] = t[i]
  BY ConcatMembers
<1> HIDE DEF c
<1>2. ASSUME NEW i \in 1..Len(c)
      PROVE  c[i] \in {c[j] : j \in 1..(Len(s) + m)} \cup {t[j] : j \in (m + 1)..Len(t)}
  <2>1. CASE i <= Len(s) + m
    BY <1>1, <2>1
  <2>2. CASE ~(i <= Len(s) + m)
    <3>1. i - Len(s) \in (m + 1)..Len(t) /\ i - Len(s) \in 1..Len(t) /\ Len(s) + (i - Len(s)) = i
      BY <1>1, <2>2
    <3>2. c[i] = t[i - Len(s)]
      BY <1>1, <3>1
    <3> QED BY <3>1, <3>2
  <2> QED BY <2>1, <2>2
<1>3. ASSUME NEW i \in (m + 1)..Len(t)
      PROVE  t[i] \in Members(c)
  <2>1. i \in 1..Len(t) /\ Len(s) + i \in 1..Len(c)
    BY <1>1
  <2> QED BY <1>1, <2>1 DEF Members
<1>4. \A i \in 1..(Len(s) + m) : c[i] \in Members(c)
  <2> TAKE i \in 1..(Len(s) + m)
  <2>1. i \in 1..Len(c)
    BY <1>1
  <2> QED BY <2>1 DEF Members
<1>5. Members(c) = {c[i] : i \in 1..(Len(s) + m)} \cup {t[i] : i \in (m + 1)..Len(t)}
  BY <1>2, <1>3, <1>4 DEF Members
<1> QED BY <1>5 DEF c

LEMMA NoMembers == Members(<<>>) = {}
BY DEF Members

\* An attempt starts: nothing is taken and the whole pool is left.
LEMMA StartTaken ==
  ASSUME NEW j \in JobType, NEW sel, NEW ext \in Amounts,
         job' = j, outer' = NoOuter, drawn' = Zero,
         Enter(sel, 0, j.request, ext, j.limit, j.pool),
         \A k \in Kinds : j.existing[k] <= ext[k]
  PROVE  TakenInv'
<1>1. /\ pc' = "cover" /\ level' = 0 /\ amount' = ext /\ limit' = j.limit
      /\ avail' = j.pool /\ picked' = <<>>
  BY DEF Enter
<1>2. AllPicked' = <<>> /\ Len(<<>>) = 0
  BY <1>1 DEF AllPicked, NoOuter
<1>3. Members(AllPicked)' = {}
  BY <1>2, NoMembers DEF Members
<1>4. PoolInv'
  BY <1>1, <1>2, <1>3 DEF PoolInv, PickedOnce
<1>5. \A k \in Kinds : j.existing[k] \in Nat /\ Zero[k] = 0
  BY DEF JobType, Amounts, Zero
<1>6. SumInv'
  BY <1>1, <1>3, <1>5, WorthOfNone DEF SumInv, Held
<1>7. RequestInv'
  BY <1>1 DEF RequestInv, FailureJustified
<1> QED BY <1>4, <1>6, <1>7 DEF TakenInv

\* The next selector starts with at least what existed; or the call fails.
LEMMA RaiseTaken ==
  ASSUME SelectionInv, TakenInv, pc = "cover", NEW amt \in Amounts, Raise(amt),
         \A k \in Kinds : amount[k] <= amt[k],
         job.limit \in {NoLimit, 0} /\ ~job.draws => ~Affordable
  PROVE  TakenInv'
<1>0. TypeOK /\ pc \in Running
  BY DEF SelectionInv, Running
<1>1. CASE attempt < Len(job.chain)
  <2> DEFINE had == IF level = 0 THEN amt ELSE outer.amount
  <2>1. /\ outer' = NoOuter /\ drawn' = Zero /\ job' = job
        /\ Enter(job.chain[attempt + 1], 0, job.request, had, job.limit, job.pool)
    BY <1>1 DEF Raise
  <2>2. had \in Amounts /\ job \in JobType
    BY <1>0 DEF TypeOK
  <2>3. ASSUME NEW k \in Kinds
        PROVE  job.existing[k] <= had[k]
    <3>1. /\ job.existing[k] \in Nat /\ drawn[k] \in Nat /\ amount[k] \in Nat
          /\ outer.amount[k] \in Nat /\ amt[k] \in Nat
      BY <1>0 DEF TypeOK, JobType, Amounts
    <3>2. job.existing[k] + drawn[k] <= Held[k]
      BY <1>0 DEF TakenInv, SumInv, Running
    <3>3. CASE level = 0
      BY <3>1, <3>2, <3>3 DEF Held
    <3>4. CASE level = 1
      <4>1. drawn = WorthOf(Members(outer.picked)) ++ amount
        BY <1>0, <3>4 DEF TakenInv, SumInv
      <4>2. outer.picked \in Seq(UTxOs)
        BY <1>0 DEF TypeOK
      <4>3. Members(outer.picked) \in SUBSET UTxOs
        BY <4>2, ElementOfSeq DEF Members
      <4>4. WorthOf(Members(outer.picked))[k] \in Nat
        BY <4>3, WorthAmounts DEF Amounts
      <4>5. drawn[k] = WorthOf(Members(outer.picked))[k] + amount[k]
        BY <4>1 DEF ++
      <4>6. Held[k] = outer.amount[k] + amount[k]
        BY <3>4 DEF Held, ++
      <4> QED BY <3>1, <3>2, <3>4, <4>4, <4>5, <4>6
    <3> QED BY <1>0, <3>3, <3>4 DEF TypeOK
  <2> HIDE DEF had
  <2> QED BY <2>1, <2>2, <2>3, StartTaken
<1>2. CASE ~(attempt < Len(job.chain))
  <2>1. pc' = "failed" /\ UNCHANGED <<job, attempt, level, target, limit, avail,
                picked, amount, queue, idx, scratch, mark, outer, drawn>>
    BY <1>2 DEF Raise
  <2>2. PoolInv'
    BY <2>1 DEF TakenInv, PoolInv, PickedOnce, AllPicked
  <2>3. SumInv'
    BY <1>0, <2>1 DEF TakenInv, SumInv, Running, Held
  <2>4. RequestInv'
    BY <2>1 DEF TakenInv, RequestInv, FailureJustified, Affordable, Running
  <2> QED BY <2>2, <2>3, <2>4 DEF TakenInv
<1> QED BY <1>1, <1>2

\* Steps that take nothing and end no round.
LEMMA SameTaken ==
  ASSUME TakenInv, pc \in Running,
         UNCHANGED <<job, level, target, limit, avail, picked, amount, mark, outer, drawn>>,
         \/ pc' = pc /\ scratch' \subseteq scratch
         \/ pc = "cover" /\ pc' = "min_change"
         \/ pc' = "crashed"
  PROVE  TakenInv'
<1>1. PoolInv'
  BY DEF TakenInv, PoolInv, PickedOnce, AllPicked, Running
<1>2. SumInv'
  BY DEF TakenInv, SumInv, Running, Held, AllPicked
<1>3. RequestInv'
  BY DEF TakenInv, RequestInv, FailureJustified, Affordable, Running
<1> QED BY <1>1, <1>2, <1>3 DEF TakenInv

\* One more UTxO, which was not taken before.
LEMMA TakeTaken ==
  ASSUME SelectionInv, TakenInv, NEW u \in UTxOs, Take(u), pc' = pc,
         UNCHANGED <<job, level, target, limit, mark, outer>>,
         \/ pc = "cover" /\ u \in avail /\ avail' = avail \ {u}
         \/ pc = "improve" /\ u \in scratch /\ scratch' = scratch \ {u} /\ avail' = avail
  PROVE  TakenInv'
<1>0. /\ TypeOK /\ pc \in Running
      /\ outer.picked \in Seq(UTxOs) /\ picked \in Seq(UTxOs) /\ AllPicked \in Seq(UTxOs)
      /\ amount \in Amounts /\ drawn \in Amounts /\ outer.amount \in Amounts
      /\ Amount[u] \in Amounts
  <2>1. TypeOK
    BY DEF SelectionInv
  <2>2. outer.picked \in Seq(UTxOs) /\ picked \in Seq(UTxOs)
    BY <2>1 DEF TypeOK
  <2>3. AllPicked \in Seq(UTxOs)
    BY <2>2, ConcatMembers DEF AllPicked
  <2> QED BY <2>1, <2>2, <2>3, UTxOAssumption DEF TypeOK, Running
<1>1. /\ picked' = Append(picked, u) /\ amount' = amount ++ Amount[u]
      /\ drawn' = drawn ++ Amount[u] /\ AllPicked' = Append(AllPicked, u)
  BY <1>0, ConcatMembers DEF Take, AllPicked
<1> DEFINE n == Len(AllPicked)
<1>2. /\ Len(AllPicked') = n + 1 /\ n \in Nat
      /\ \A i \in 1..n : AllPicked'[i] = AllPicked[i]
      /\ AllPicked'[n + 1] = u
      /\ Members(AllPicked)' = Members(AllPicked) \cup {u}
      /\ Len(picked') = Len(picked) + 1 /\ Len(picked) \in Nat
      /\ Members(picked') = Members(picked) \cup {u}
  BY <1>0, <1>1, AppendMembers DEF Members
<1>3. u \in job.pool /\ u \notin Members(AllPicked)
  BY DEF TakenInv, PoolInv
<1>4. Members(AllPicked) \in SUBSET UTxOs /\ Members(picked) \in SUBSET UTxOs
      /\ Members(outer.picked) \in SUBSET UTxOs
  BY <1>0, ElementOfSeq DEF Members
<1>5. /\ n = Len(outer.picked) + Len(picked) /\ Len(outer.picked) \in Nat
      /\ mark \in Nat
  BY <1>0, ConcatMembers DEF AllPicked, TypeOK
<1>6. u \notin Members(picked)
  <2> SUFFICES ASSUME u \in Members(picked)
               PROVE  FALSE
    OBVIOUS
  <2>1. PICK i \in 1..Len(picked) : picked[i] = u
    BY DEF Members
  <2>2. AllPicked[Len(outer.picked) + i] = u /\ Len(outer.picked) + i \in 1..n
    BY <1>0, <1>2, <1>5, <2>1, ConcatMembers DEF AllPicked
  <2> QED BY <1>3, <2>2 DEF Members
<1>7. PickedOnce'
  <2>1. PickedOnce
    BY DEF TakenInv, PoolInv
  <2>2. \A i \in 1..n : AllPicked[i] # u
    BY <1>3 DEF Members
  <2> HIDE DEF n
  <2>3. \A i \in 1..(n + 1) : i \in 1..n \/ i = n + 1
    BY <1>2
  <2>4. \A i, j \in 1..n : AllPicked'[i] = AllPicked'[j] => i = j
    BY <1>2, <2>1 DEF PickedOnce, n
  <2>5. \A i \in 1..n : AllPicked'[i] # AllPicked'[n + 1] /\ AllPicked'[i] \in job.pool
    BY <1>2, <2>1, <2>2 DEF PickedOnce, n
  <2>6. \A i, j \in 1..(n + 1) : AllPicked'[i] = AllPicked'[j] => i = j
    BY <2>3, <2>4, <2>5
  <2>7. \A i \in 1..(n + 1) : AllPicked'[i] \in job.pool
    BY <1>2, <1>3, <2>3, <2>5
  <2> QED BY <1>2, <2>6, <2>7 DEF PickedOnce
<1>8. PoolInv'
  <2>1. pc' = "cover" => avail' = job'.pool \ Members(AllPicked)'
    BY <1>2 DEF TakenInv, PoolInv
  <2>2. ASSUME pc' = "improve"
        PROVE  /\ mark' <= Len(picked')
               /\ avail' = job'.pool \ {AllPicked'[i] : i \in 1..(Len(outer'.picked) + mark')}
               /\ scratch' \subseteq job'.pool \ Members(AllPicked)'
    <3>1. /\ mark <= Len(picked)
          /\ avail = job.pool \ {AllPicked[i] : i \in 1..(Len(outer.picked) + mark)}
          /\ scratch \subseteq job.pool \ Members(AllPicked)
          /\ scratch' = scratch \ {u} /\ avail' = avail
      BY <2>2 DEF TakenInv, PoolInv
    <3>2. \A i \in 1..(Len(outer.picked) + mark) : i \in 1..n
      BY <1>2, <1>5, <3>1
    <3>3. {AllPicked'[i] : i \in 1..(Len(outer.picked) + mark)}
            = {AllPicked[i] : i \in 1..(Len(outer.picked) + mark)}
      BY <1>2, <3>2
    <3>4. mark' <= Len(picked')
      <4>1. Len(picked) + 1 = Len(picked') /\ Len(picked) \in Nat /\ mark \in Nat /\ mark' = mark
        BY <1>2, <1>5
      <4> QED BY <3>1, <4>1
    <3>5. scratch' \subseteq job'.pool \ Members(AllPicked)'
      BY <1>2, <3>1
    <3> QED BY <3>1, <3>3, <3>4, <3>5
  <2> QED BY <1>7, <2>1, <2>2 DEF TakenInv, PoolInv
<1>9. SumInv'
  <2>1. drawn' = WorthOf(Members(AllPicked)')
    <3>1. drawn = WorthOf(Members(AllPicked))
      BY <1>0 DEF TakenInv, SumInv
    <3> QED BY <1>1, <1>2, <1>3, <1>4, <3>1, WorthAmounts
  <2>2. level = 1 => drawn' = WorthOf(Members(outer.picked)) ++ amount'
    <3>1. level = 1 => drawn = WorthOf(Members(outer.picked)) ++ amount
      BY <1>0 DEF TakenInv, SumInv
    <3>2. WorthOf(Members(outer.picked)) \in Amounts
      BY <1>4, WorthAmounts
    <3> QED BY <1>0, <1>1, <3>1, <3>2, PlusAssociative
  <2>3. ASSUME NEW k \in Kinds
        PROVE  job.existing[k] + drawn'[k] <= Held'[k]
    <3>1. job.existing[k] + drawn[k] <= Held[k]
      BY <1>0 DEF TakenInv, SumInv, Running
    <3>2. /\ drawn[k] \in Nat /\ amount[k] \in Nat /\ Amount[u][k] \in Nat
          /\ outer.amount[k] \in Nat /\ job.existing[k] \in Nat
      BY <1>0 DEF TypeOK, JobType, Amounts
    <3>3. drawn'[k] = drawn[k] + Amount[u][k] /\ amount'[k] = amount[k] + Amount[u][k]
      BY <1>1 DEF ++
    <3>4. CASE level = 0
      BY <3>1, <3>2, <3>3, <3>4 DEF Held
    <3>5. CASE level # 0
      <4>1. Held[k] = outer.amount[k] + amount[k] /\ Held'[k] = outer.amount[k] + amount'[k]
        BY <3>5 DEF Held, ++
      <4> QED BY <3>1, <3>2, <3>3, <4>1
    <3> QED BY <3>4, <3>5
  <2> QED BY <1>0, <2>1, <2>2, <2>3 DEF SumInv, Running
<1>10. RequestInv'
  BY <1>0 DEF TakenInv, RequestInv, FailureJustified, Running
<1> QED BY <1>8, <1>9, <1>10 DEF TakenInv

\* A round of _improve begins, or ends with none to follow: what is left is the
\* pool without everything taken so far.
LEMMA RoundTaken ==
  ASSUME SelectionInv, TakenInv, pc \in Running,
         avail' = job.pool \ Members(AllPicked),
         pc' \in {"improve", "min_change"}, scratch' = avail', mark' = Len(picked),
         UNCHANGED <<job, level, target, limit, picked, amount, outer, drawn>>
  PROVE  TakenInv'
<1>1. TypeOK /\ outer.picked \in Seq(UTxOs) /\ picked \in Seq(UTxOs)
  BY DEF SelectionInv, TypeOK
<1>2. AllPicked' = AllPicked /\ Len(AllPicked) = Len(outer.picked) + Len(picked)
      /\ Len(picked) \in Nat
  BY <1>1, ConcatMembers DEF AllPicked
<1>3. Members(AllPicked)' = {AllPicked'[i] : i \in 1..(Len(outer'.picked) + mark')}
  BY <1>2 DEF Members
<1>4. PickedOnce'
  BY <1>2 DEF TakenInv, PoolInv, PickedOnce
<1>5. PoolInv'
  BY <1>2, <1>3, <1>4 DEF TakenInv, PoolInv, Members
<1>6. SumInv'
  BY <1>2 DEF TakenInv, SumInv, Running, Held, Members
<1>7. RequestInv'
  BY DEF TakenInv, RequestInv, FailureJustified, Running
<1> QED BY <1>5, <1>6, <1>7 DEF TakenInv

\* The round that ends has looked at what it started from; the ones before are
\* already gone from the list.
LEMMA EndRoundTaken ==
  ASSUME SelectionInv, TakenInv, pc = "improve", EndRound
  PROVE  TakenInv'
<1> DEFINE round == {picked[i] : i \in (mark + 1)..Len(picked)}
           before == {AllPicked[i] : i \in 1..(Len(outer.picked) + mark)}
<1>1. /\ outer.picked \in Seq(UTxOs) /\ picked \in Seq(UTxOs)
      /\ mark \in 0..Len(picked) /\ pc \in Running
  <2>1. mark \in Nat /\ mark <= Len(picked) /\ picked \in Seq(UTxOs)
    BY DEF SelectionInv, TypeOK, TakenInv, PoolInv
  <2> QED BY <2>1 DEF SelectionInv, TypeOK, Running
<1>2. avail = job.pool \ before
  BY DEF TakenInv, PoolInv
<1>3. Members(AllPicked) = before \cup round
  BY <1>1, RoundMembers DEF AllPicked
<1>4. /\ avail' = avail \ round /\ scratch' = avail' /\ mark' = Len(picked)
      /\ pc' \in {"improve", "min_change"}
      /\ UNCHANGED <<job, level, target, limit, picked, amount, outer, drawn>>
  BY DEF EndRound
<1> HIDE DEF round, before
<1>5. avail' = job.pool \ Members(AllPicked)
  BY <1>2, <1>3, <1>4
<1> QED BY <1>1, <1>4, <1>5, RoundTaken

\* No change needs more ADA than one that holds every asset.
LEMMA MinLovelaceBound ==
  ASSUME NEW v \in Value
  PROVE  MinLovelace(v) <= MinBase + MinPerAsset * Cardinality(Assets) + WideExtra
<1> DEFINE c == Cardinality(AssetsOf(v))
           n == Cardinality(Assets)
<1>1. c \in Nat /\ n \in Nat /\ c <= n
  <2>1. AssetsOf(v) \in SUBSET Assets
    BY DEF AssetsOf
  <2> QED BY <2>1, AssetsAssumption, FS_Subset, FS_CardinalityType
<1>2. {MinBase, MinPerAsset, WideCoin, WideExtra} \subseteq Nat
  BY MinAssumption
<1>3. MinLovelace(v) = MinBase + MinPerAsset * c
                         + (IF v[ADA] = 0 \/ v[ADA] >= WideCoin THEN WideExtra ELSE 0)
  BY DEF MinLovelace
<1> HIDE DEF c, n
<1>4. MinPerAsset * c <= MinPerAsset * n
  BY <1>1, <1>2
<1>5. MinPerAsset * c \in Nat /\ MinPerAsset * n \in Nat
  BY <1>1, <1>2
<1>6. MinLovelace(v) <= MinBase + MinPerAsset * n + WideExtra
  BY <1>2, <1>3, <1>4, <1>5
<1> QED BY <1>6 DEF n

\* An attempt that lacks something when the pool is exhausted has taken all of it.
LEMMA PoorPool ==
  ASSUME SelectionInv, TakenInv, pc = "cover", avail = {},
         NEW k \in Kinds, ~(target[k] <= amount[k])
  PROVE  ~Affordable
<1> DEFINE total == job.existing ++ WorthOf(job.pool)
           most == MinBase + MinPerAsset * Cardinality(Assets) + WideExtra
<1>1. /\ TypeOK /\ job \in JobType /\ job.pool \in SUBSET UTxOs /\ pc \in Running
      /\ job.existing \in Amounts /\ job.request \in Amounts
  BY DEF SelectionInv, TypeOK, JobType, Running
<1>2. drawn = WorthOf(job.pool)
  <2>1. job.pool \ Members(AllPicked) = {}
    BY DEF TakenInv, PoolInv
  <2>2. Members(AllPicked) \subseteq job.pool
    BY DEF TakenInv, PoolInv, PickedOnce, Members
  <2>3. Members(AllPicked) = job.pool
    BY <2>1, <2>2
  <2> QED BY <1>1, <2>3 DEF TakenInv, SumInv
<1>3. total \in Amounts /\ \A j \in Kinds : total[j] = job.existing[j] + drawn[j]
  BY <1>1, <1>2, WorthAmounts, PlusAmounts
<1>4. \A j \in Kinds : total[j] <= Held[j]
  BY <1>1, <1>3 DEF TakenInv, SumInv, Running
<1>5. Affordable <=> /\ ValueLe(job.request, total)
                     /\ job.respect => total[ADA] - job.request[ADA] >= most
  BY DEF Affordable
<1>6. CASE level = 0
  <2>1. target = job.request /\ Held = amount
    BY <1>1, <1>6 DEF SelectionInv, RunningAmounts, Held
  <2>2. amount[k] \in Nat /\ total[k] \in Nat /\ job.request[k] \in Nat
    BY <1>1, <1>3 DEF TypeOK, Amounts
  <2> HIDE DEF total
  <2>3. ~(job.request[k] <= total[k])
    BY <1>4, <2>1, <2>2
  <2> QED BY <1>1, <1>3, <1>5, <2>3, LePointwise
<1>7. CASE level = 1
  <2> DEFINE change == outer.amount -- job.request
  <2>1. job.respect /\ target = Only(ADA, MinLovelace(change) - change[ADA])
    BY <1>1, <1>7 DEF TakenInv, RequestInv
  <2>2. change \in Value
    BY <1>1 DEF TypeOK, Value, Amounts, --
  <2>3. MinLovelace(change) \in Nat /\ MinLovelace(change) <= most
    BY <2>2, MinLovelaceType, MinLovelaceBound
  <2>4. change[ADA] = outer.amount[ADA] - job.request[ADA]
    BY DEF --, Kinds
  <2>5. Held[ADA] = outer.amount[ADA] + amount[ADA]
    BY <1>7 DEF Held, ++, Kinds
  <2>6. /\ amount[ADA] \in Nat /\ outer.amount[ADA] \in Nat /\ total[ADA] \in Nat
        /\ job.request[ADA] \in Nat /\ amount[k] \in Nat
    BY <1>1, <1>3 DEF TypeOK, Amounts, Kinds
  <2>7. k = ADA /\ target[ADA] = MinLovelace(change) - change[ADA]
    <3>1. \A j \in Kinds : target[j] = IF j = ADA THEN MinLovelace(change) - change[ADA] ELSE 0
      BY <2>1 DEF Only, Zero, Kinds
    <3> QED BY <2>6, <3>1 DEF Kinds
  <2>8. total[ADA] <= Held[ADA]
    BY <1>4 DEF Kinds
  <2>9. most \in Nat
    <3>1. Cardinality(Assets) \in Nat
      BY AssetsAssumption, FS_CardinalityType
    <3> QED BY <3>1, MinAssumption
  <2> HIDE DEF total, most, change
  <2>10. total[ADA] - job.request[ADA] < most
    <3>1. MinLovelace(change) - (outer.amount[ADA] - job.request[ADA]) > amount[ADA]
      BY <2>3, <2>4, <2>6, <2>7
    <3>2. total[ADA] <= outer.amount[ADA] + amount[ADA]
      BY <2>5, <2>8
    <3> QED BY <2>3, <2>6, <2>9, <3>1, <3>2
  <2> QED BY <1>5, <2>1, <2>6, <2>9, <2>10
<1> QED BY <1>1, <1>6, <1>7 DEF TypeOK

LEMMA LimitsNeverExceeded ==
  ASSUME TakenInv, job.limit \in {NoLimit, 0}
  PROVE  \A n : ~Exceeds(n, limit)
BY DEF TakenInv, RequestInv, Exceeds

\* LargestFirstSelector's steps.
LEMMA LargestFirstTaken == SelectionInv /\ TakenInv /\ LargestFirstStep => TakenInv'
<1> SUFFICES ASSUME SelectionInv, TakenInv, LargestFirstStep PROVE TakenInv'
  OBVIOUS
<1>0. pc = "cover" /\ pc \in Running
  BY DEF LargestFirstStep, LargestFirstEmpty, LargestFirstPick,
         LargestFirstCovered, AtLargestFirst, Running
<1>1. amount \in Amounts /\ target \in Amounts /\ avail \in SUBSET UTxOs
  BY DEF SelectionInv, TypeOK
<1>2. \A k \in Kinds : amount[k] \in Nat
  BY <1>1 DEF Amounts
<1>3. CASE LargestFirstEmpty
  <2>1. avail = {} /\ ~ValueLe(target, amount) /\ Raise(amount)
    BY <1>3 DEF LargestFirstEmpty
  <2>2. PICK k \in Kinds : ~(target[k] <= amount[k])
    BY <1>1, <2>1, LePointwise
  <2>3. ~Affordable
    BY <1>0, <2>1, <2>2, PoorPool
  <2> QED BY <1>0, <1>1, <1>2, <2>1, <2>3, RaiseTaken
<1>4. CASE LargestFirstPick
  <2>1. PICK u \in avail :
          IF Exceeds(Len(picked) + 1, limit)
          THEN Raise(amount ++ Amount[u])
          ELSE /\ Take(u)
               /\ avail' = avail \ {u}
               /\ UNCHANGED <<job, attempt, pc, level, target, limit, queue,
                              idx, scratch, mark, outer>>
    BY <1>4 DEF LargestFirstPick
  <2>2. u \in UTxOs /\ amount ++ Amount[u] \in Amounts /\ Amount[u] \in Amounts
    BY <1>1, TakeWellTyped DEF SelectionInv
  <2>3. CASE Exceeds(Len(picked) + 1, limit)
    <3>1. \A k \in Kinds : amount[k] <= (amount ++ Amount[u])[k]
      BY <1>1, <2>2 DEF Amounts, ++
    <3>2. ~(job.limit \in {NoLimit, 0})
      BY <2>3, LimitsNeverExceeded
    <3> QED BY <1>0, <2>1, <2>2, <2>3, <3>1, <3>2, RaiseTaken
  <2>4. CASE ~Exceeds(Len(picked) + 1, limit)
    BY <1>0, <2>1, <2>2, <2>4, TakeTaken
  <2> QED BY <2>3, <2>4
<1>5. CASE LargestFirstCovered
  BY <1>0, <1>5, SameTaken DEF LargestFirstCovered
<1> QED BY <1>3, <1>4, <1>5 DEF LargestFirstStep

\* RandomImproveMultiAsset's first phase.
LEMMA RandomCoverTaken == SelectorInv /\ RandomCoverStep => TakenInv'
<1> SUFFICES ASSUME SelectionInv, TakenInv, QueueInv, RandomCoverStep PROVE TakenInv'
  BY DEF SelectorInv
<1>0. pc = "cover" /\ pc \in Running /\ TypeOK
  BY DEF RandomCoverStep, RandomEmpty, RandomPick, RandomDrawRaises,
         RandomCovered, AtRandomCover, Running, SelectionInv
<1>1. amount \in Amounts /\ avail \in SUBSET UTxOs
  BY <1>0 DEF TypeOK
<1>2. \A k \in Kinds : amount[k] <= amount[k]
  BY <1>1 DEF Amounts
<1>3. CASE RandomEmpty
  <2>1. avail = {} /\ Lacking /\ Raise(amount)
    BY <1>3 DEF RandomEmpty
  <2>2. idx \in 1..Len(queue)
    <3>1. idx \in 0..(Len(queue) + 1) /\ idx <= Len(queue) /\ Len(queue) \in Nat
      BY <1>0, <2>1 DEF TypeOK, Lacking
    <3>2. idx # 0
      BY <1>0 DEF QueueInv
    <3> QED BY <3>1, <3>2
  <2>3. queue[idx] \in Kinds /\ ~(target[queue[idx]] <= amount[queue[idx]])
    BY <1>0, <2>1, <2>2, LackingMeans
  <2>4. ~Affordable
    BY <1>0, <2>1, <2>3, PoorPool
  <2> QED BY <1>0, <1>1, <1>2, <2>1, <2>4, RaiseTaken
<1>4. CASE RandomDrawRaises
  BY <1>0, <1>1, <1>2, <1>4, RaiseTaken DEF RandomDrawRaises
<1>5. CASE RandomPick
  BY <1>0, <1>1, <1>5, TakeTaken DEF RandomPick
<1>6. CASE RandomCovered /\ Exceeds(Len(picked), limit)
  <2>1. ~(job.limit \in {NoLimit, 0}) /\ Raise(amount)
    BY <1>6, LimitsNeverExceeded DEF RandomCovered
  <2> QED BY <1>0, <1>1, <1>2, <2>1, RaiseTaken
<1>7. CASE RandomCovered /\ ~Exceeds(Len(picked), limit)
  BY <1>0, <1>7, SameTaken DEF RandomCovered
<1> QED BY <1>3, <1>4, <1>5, <1>6, <1>7 DEF RandomCoverStep

\* RandomImproveMultiAsset's second phase.
LEMMA ImproveTaken == SelectionInv /\ TakenInv /\ ImproveStep => TakenInv'
<1> SUFFICES ASSUME SelectionInv, TakenInv, ImproveStep PROVE TakenInv'
  OBVIOUS
<1>1. CASE BeginImprove
  <2>1. /\ pc = "cover" /\ pc \in Running /\ pc' \in {"improve", "min_change"}
        /\ scratch' = avail /\ mark' = Len(picked) /\ avail' = avail
        /\ UNCHANGED <<job, level, target, limit, picked, amount, outer, drawn>>
    BY <1>1 DEF BeginImprove, AtRandomCover, Running
  <2>2. avail = job.pool \ Members(AllPicked)
    BY <2>1 DEF TakenInv, PoolInv
  <2> QED BY <2>1, <2>2, RoundTaken
<1>2. CASE ImproveDraw
  <2>1. /\ pc = "improve" /\ pc \in Running /\ pc' = pc
        /\ UNCHANGED <<job, level, target, limit, avail, mark, outer>>
    BY <1>2 DEF ImproveDraw, Drawing, Running
  <2>2. PICK u \in scratch :
          /\ scratch' = scratch \ {u}
          /\ IF Better(u) THEN Take(u) ELSE UNCHANGED <<picked, amount, drawn>>
    BY <1>2 DEF ImproveDraw
  <2>3. u \in UTxOs
    BY <2>2 DEF SelectionInv, TypeOK
  <2>4. CASE Better(u)
    BY <2>1, <2>2, <2>3, <2>4, TakeTaken
  <2>5. CASE ~Better(u)
    BY <2>1, <2>2, <2>5, SameTaken
  <2> QED BY <2>4, <2>5
<1>3. CASE ImproveEnd \/ ImproveDrawRaises
  BY <1>3, EndRoundTaken DEF ImproveEnd, ImproveDrawRaises, Drawing
<1> QED BY <1>1, <1>2, <1>3 DEF ImproveStep

\* The recursive call starts from what is left and returns what it took.
LEMMA FinishTaken == SelectionInv /\ TakenInv /\ FinishStep => TakenInv'
<1> SUFFICES ASSUME SelectionInv, TakenInv, FinishStep PROVE TakenInv'
  OBVIOUS
<1>0. TypeOK /\ pc = "min_change" /\ pc \in Running
  BY DEF FinishStep, RequestMinChange, ReturnAdditional, ReturnSelected,
         Running, SelectionInv
<1>01. /\ outer.picked \in Seq(UTxOs) /\ picked \in Seq(UTxOs)
       /\ amount \in Amounts /\ outer.amount \in Amounts /\ drawn \in Amounts
  BY <1>0 DEF TypeOK
<1>02. drawn = WorthOf(Members(AllPicked)) /\ avail = job.pool \ Members(AllPicked)
  BY <1>0 DEF TakenInv, SumInv, PoolInv
<1>03. \A k \in Kinds : job.existing[k] + drawn[k] <= Held[k]
  BY <1>0 DEF TakenInv, SumInv
<1>1. CASE RequestMinChange
  <2>1. /\ NeedsChange /\ level = 0 /\ job.respect
        /\ outer' = [picked |-> picked, amount |-> amount]
        /\ pc' = "cover" /\ level' = 1 /\ amount' = Zero /\ picked' = <<>>
        /\ target' = Only(ADA, MinLovelace(Change) - Change[ADA])
        /\ limit' = RemainingLimit(limit, Len(picked)) /\ avail' = avail
        /\ UNCHANGED <<job, attempt, drawn>>
    BY <1>1 DEF RequestMinChange, NeedsChange, Respects, Enter
  <2>2. outer = NoOuter /\ target = job.request
    BY <1>0, <2>1 DEF TakenInv, PoolInv, SelectionInv, RunningAmounts
  <2>3. AllPicked = picked /\ AllPicked' = picked
    BY <1>01, <2>1, <2>2 DEF AllPicked, NoOuter
  <2>4. PoolInv'
    BY <1>02, <2>1, <2>3 DEF TakenInv, PoolInv, PickedOnce, Members
  <2>5. amount ++ Zero = amount
    BY <1>01 DEF ++, Zero, Amounts
  <2>6. WorthOf(Members(picked)) ++ Zero = WorthOf(Members(picked))
    BY <1>01, <1>02, <2>3 DEF ++, Zero, Amounts
  <2>7. SumInv'
    BY <1>02, <1>03, <2>1, <2>3, <2>5, <2>6 DEF SumInv, Held, Members
  <2>8. limit \in {NoLimit, 0} => limit' \in {NoLimit, 0}
    BY <2>1 DEF RemainingLimit
  <2>9. RequestInv'
    BY <2>1, <2>2, <2>8 DEF TakenInv, RequestInv, FailureJustified, Change
  <2> QED BY <2>4, <2>7, <2>9 DEF TakenInv
<1>2. CASE ReturnAdditional
  <2>1. /\ level = 1 /\ pc' = "selected" /\ level' = 0
        /\ picked' = outer.picked \o picked /\ amount' = outer.amount ++ amount
        /\ limit' = job.limit /\ outer' = NoOuter
        /\ UNCHANGED <<job, attempt, avail, drawn>>
    BY <1>2 DEF ReturnAdditional
  <2>2. AllPicked' = AllPicked
    <3>1. outer.picked \o picked \in Seq(UTxOs)
      BY <1>01, ConcatMembers
    <3> QED BY <2>1, <3>1 DEF AllPicked, NoOuter
  <2>3. PoolInv'
    BY <2>1, <2>2 DEF TakenInv, PoolInv, PickedOnce
  <2>4. SumInv'
    BY <1>02, <1>03, <2>1, <2>2 DEF SumInv, Held, Members
  <2>5. RequestInv'
    BY <2>1 DEF TakenInv, RequestInv, FailureJustified, Running
  <2> QED BY <2>3, <2>4, <2>5 DEF TakenInv
<1>3. CASE ReturnSelected
  <2>1. /\ level = 0 /\ pc' = "selected"
        /\ UNCHANGED <<job, attempt, level, target, limit, avail, picked, amount,
                       queue, idx, scratch, mark, outer, drawn>>
    BY <1>3 DEF ReturnSelected
  <2>2. PoolInv'
    BY <2>1 DEF TakenInv, PoolInv, PickedOnce, AllPicked
  <2>3. SumInv'
    BY <1>0, <2>1 DEF TakenInv, SumInv, Held, AllPicked, Running
  <2>4. RequestInv'
    BY <2>1 DEF TakenInv, RequestInv, FailureJustified, Running
  <2> QED BY <2>2, <2>3, <2>4 DEF TakenInv
<1> QED BY <1>1, <1>2, <1>3 DEF FinishStep

LEMMA InitTaken == Init => TakenInv
<1> SUFFICES ASSUME Init PROVE TakenInv
  OBVIOUS
<1>1. /\ pc = "idle" /\ level = 0 /\ outer = NoOuter /\ picked = <<>>
      /\ drawn = Zero /\ limit = NoLimit
  BY DEF Init, Idle
<1>2. AllPicked = <<>> /\ Len(<<>>) = 0
  BY <1>1 DEF AllPicked, NoOuter
<1> QED BY <1>1, <1>2 DEF TakenInv, PoolInv, PickedOnce, SumInv, RequestInv,
           FailureJustified, Running

\* A call starts: what it is given is what it has.
LEMMA StartSelector ==
  ASSUME NEW j \in JobType, j.chain # <<>>, StartSelection(j)
  PROVE  SelectorInv'
<1> DEFINE sel == j.chain[1]
           ext == j.existing
<1>1. /\ job' = j /\ outer' = NoOuter /\ drawn' = Zero
      /\ Enter(sel, 0, j.request, ext, j.limit, j.pool)
  BY DEF StartSelection
<1>2. ext \in Amounts /\ \A k \in Kinds : j.existing[k] <= ext[k]
  BY DEF JobType, Amounts
<1> HIDE DEF sel, ext
<1>3. TakenInv'
  BY <1>1, <1>2, StartTaken
<1>4. QueueInv'
  BY <1>1 DEF Enter, QueueInv
<1> QED BY <1>3, <1>4, StartInv DEF SelectorInv

LEMMA CallSelector == SelectionInv /\ Call => SelectorInv'
<1> SUFFICES ASSUME SelectionInv, Call PROVE SelectorInv'
  OBVIOUS
<1>1. job \in JobType /\ job.chain # <<>> /\ StartSelection(job)
  BY DEF SelectionInv, TypeOK, Call, JobType
<1> QED BY <1>1, StartSelector

LEMMA StepTaken == SelectorInv /\ SelectionStep => TakenInv'
<1> SUFFICES ASSUME SelectorInv, SelectionStep PROVE TakenInv'
  OBVIOUS
<1>0. SelectionInv /\ TakenInv
  BY DEF SelectorInv
<1>1. CASE DrawCrashes
  <2>1. pc \in Running /\ pc' = "crashed"
        /\ UNCHANGED <<job, level, target, limit, avail, picked, amount, mark, outer, drawn>>
    BY <1>1 DEF DrawCrashes, Drawing, AtRandomCover, Running
  <2> QED BY <1>0, <2>1, SameTaken
<1> QED BY <1>0, <1>1, LargestFirstTaken, RandomCoverTaken, ImproveTaken,
           FinishTaken DEF SelectionStep

LEMMA StepQueue == SelectorInv /\ SelectionStep => QueueInv'
<1> SUFFICES ASSUME SelectorInv, SelectionStep, pc' = "cover" PROVE idx' # 0
  BY DEF QueueInv
<1>1. idx \in Nat /\ (pc = "cover" => idx # 0)
  BY DEF SelectorInv, SelectionInv, TypeOK, QueueInv
<1>2. \A amt : Raise(amt) => idx' = 1
  BY DEF Raise, Enter
<1>3. RequestMinChange => idx' = 1
  BY DEF RequestMinChange, Enter
<1>4. CASE LargestFirstStep \/ RandomCoverStep
  BY <1>1, <1>2, <1>4 DEF LargestFirstStep, LargestFirstEmpty, LargestFirstPick,
     LargestFirstCovered, AtLargestFirst, RandomCoverStep, RandomEmpty, RandomPick,
     RandomDrawRaises, RandomCovered, AtRandomCover
<1>5. CASE ImproveStep
  BY <1>5 DEF ImproveStep, BeginImprove, ImproveDraw, ImproveEnd, ImproveDrawRaises,
     Drawing, EndRound
<1>6. CASE DrawCrashes \/ FinishStep
  BY <1>3, <1>6 DEF DrawCrashes, FinishStep, ReturnAdditional, ReturnSelected
<1> QED BY <1>4, <1>5, <1>6 DEF SelectionStep

LEMMA SameSelector == SelectorInv /\ UNCHANGED vars => SelectorInv'
<1> SUFFICES ASSUME SelectorInv, UNCHANGED vars PROVE SelectorInv'
  OBVIOUS
<1>1. SelectionInv'
  BY SameInv DEF SelectorInv
<1>2. AllPicked' = AllPicked /\ Held' = Held /\ PickedOnce' = PickedOnce
  BY DEF vars, AllPicked, Held, PickedOnce
<1>3. PoolInv'
  BY <1>2 DEF SelectorInv, vars, TakenInv, PoolInv, Members
<1>4. SumInv'
  BY <1>2 DEF SelectorInv, vars, TakenInv, SumInv, Members, Running
<1>5. Affordable' = Affordable
  BY DEF vars, Affordable
<1>6. RequestInv'
  BY <1>5 DEF SelectorInv, vars, TakenInv, RequestInv, FailureJustified, Running
<1> QED BY <1>1, <1>3, <1>4, <1>6 DEF SelectorInv, TakenInv, QueueInv, vars

LEMMA StepSelector == SelectorInv /\ SelectionStep => SelectorInv'
BY StepInv, StepTaken, StepQueue DEF SelectorInv

LEMMA NextSelector == SelectorInv /\ [Next]_vars => SelectorInv'
BY CallSelector, StepSelector, SameSelector DEF Next, Returned, SelectorInv

LEMMA InitSelector == Init => SelectorInv
BY InitInv, InitTaken DEF SelectorInv, QueueInv, Init, Idle

\* What has been taken, from where, and what it is worth, in every state of a call.
THEOREM TakenInvariant == Spec => []SelectorInv
BY InitSelector, NextSelector, PTL DEF Spec

\* No UTxO is returned twice and none comes from outside the pool, whatever the
\* rounds of _improve and the recursive call do (coinselection.py:305-316).
THEOREM NothingPickedTwice == Spec => []PickedOnce
<1>1. SelectorInv => PickedOnce
  BY DEF SelectorInv, TakenInv, PoolInv
<1> QED BY <1>1, TakenInvariant, PTL

\* Without a limit and with the selectors' own generator, a chain of selectors
\* fails only on a pool that cannot pay (coinselection.py:65-67).
THEOREM FailuresAreJustified == Spec => []FailureJustified
<1>1. SelectorInv => FailureJustified
  BY DEF SelectorInv, TakenInv, RequestInv
<1> QED BY <1>1, TakenInvariant, PTL

\* The recursive call for change returns the ADA that was missing when it was
\* made (coinselection.py:112-131).
THEOREM MissingChangeTheorem == Spec => MissingChangeArrives
<1> DEFINE Arrives ==
      level = 1 /\ pc' = "selected" =>
        Change'[ADA] >= MinLovelace(outer.amount -- job.request)
<1>1. SelectorInv /\ [Next]_vars => [Arrives]_vars
  <2> SUFFICES ASSUME SelectorInv, [Next]_vars, level = 1, pc' = "selected"
               PROVE  Change'[ADA] >= MinLovelace(outer.amount -- job.request)
    OBVIOUS
  <2>0. SelectionInv /\ TakenInv
    BY DEF SelectorInv
  <2>1. ReturnAdditional
    <3>1. pc # "selected"
      BY <2>0 DEF TakenInv, PoolInv
    <3>2. ~Call /\ ~(Returned \/ UNCHANGED vars)
      BY <3>1 DEF Call, StartSelection, Enter, Returned, vars
    <3>3. \A amt : ~Raise(amt)
      BY DEF Raise, Enter
    <3>4. ~LargestFirstStep
      BY <3>1, <3>3 DEF LargestFirstStep, LargestFirstEmpty, LargestFirstPick, LargestFirstCovered
    <3>5. ~RandomCoverStep
      BY <3>1, <3>3 DEF RandomCoverStep, RandomEmpty, RandomPick, RandomDrawRaises, RandomCovered
    <3>6. ~ImproveStep
      BY <3>1 DEF ImproveStep, BeginImprove, ImproveDraw, ImproveEnd,
         ImproveDrawRaises, EndRound, Drawing
    <3>7. ~DrawCrashes /\ ~RequestMinChange /\ ~ReturnSelected
      BY DEF DrawCrashes, RequestMinChange, Enter, ReturnSelected
    <3> QED BY <3>2, <3>4, <3>5, <3>6, <3>7 DEF Next, SelectionStep, FinishStep
  <2>2. /\ pc = "min_change" /\ pc \in Running
        /\ amount' = outer.amount ++ amount /\ target' = job.request
    BY <2>1 DEF ReturnAdditional, Running
  <2> DEFINE change == outer.amount -- job.request
             missing == MinLovelace(change) - change[ADA]
  <2>3. target = Only(ADA, missing)
    BY <2>0, <2>2 DEF TakenInv, RequestInv
  <2>4. ValueLe(target, amount)
    BY <2>0, <2>2 DEF SelectionInv, CoveredFromThenOn
  <2>5. /\ amount[ADA] \in Nat /\ outer.amount[ADA] \in Nat /\ job.request[ADA] \in Nat
        /\ change \in Value
    BY <2>0 DEF SelectionInv, TypeOK, JobType, Amounts, Kinds, Value, --
  <2>6. MinLovelace(change) \in Nat /\ change[ADA] = outer.amount[ADA] - job.request[ADA]
    BY <2>5, MinLovelaceType DEF --, Kinds
  <2>7. Change'[ADA] = outer.amount[ADA] + amount[ADA] - job.request[ADA]
    BY <2>2, <2>5 DEF Change, --, ++, Kinds
  <2> HIDE DEF change
  <2>8. missing <= amount[ADA]
    <3>1. target[ADA] = missing
      BY <2>3 DEF Only, Zero, Kinds
    <3> QED BY <2>4, <3>1 DEF ValueLe
  <2>9. Change'[ADA] >= MinLovelace(change)
    BY <2>5, <2>6, <2>7, <2>8
  <2> QED BY <2>9 DEF change
<1> QED BY <1>1, TakenInvariant, PTL DEF Spec, MissingChangeArrives

-----------------------------------------------------------------------------
(* The contract of select *)

\* The funds of the contract, in terms of what the selectors hold.
LEMMA ContractFunds ==
  ASSUME SelectorInv, pc \in Running, NEW S \in SUBSET UTxOs
  PROVE  /\ Contract!Funds(S) = [k \in Kinds |-> Held[k] - drawn[k] + WorthOf(S)[k]]
         /\ \A k \in Kinds : Held[k] \in Nat /\ drawn[k] \in Nat /\ WorthOf(S)[k] \in Nat
         /\ Held \in Amounts /\ Existing = Held -- drawn
<1>1. /\ Held \in Amounts
  BY PlusAmounts DEF SelectorInv, SelectionInv, TypeOK, Held
<1>2. \A k \in Kinds : Held[k] \in Nat /\ drawn[k] \in Nat /\ WorthOf(S)[k] \in Nat
  BY <1>1, WorthAmounts DEF SelectorInv, SelectionInv, TypeOK, Amounts
<1>3. Existing = Held -- drawn
  BY DEF Existing, Running
<1>4. Contract!Funds(S) = [k \in Kinds |-> Existing[k] + WorthOf(S)[k]]
  BY DEF Contract!Funds, WorthOf, Contract!Total, Total, Contract!UnitsOf, UnitsOf,
         Contract!Kinds, Kinds, Contract!Cardinality, Cardinality
<1>5. \A k \in Kinds : Existing[k] = Held[k] - drawn[k]
  BY <1>3 DEF --
<1>6. [k \in Kinds |-> Existing[k] + WorthOf(S)[k]]
        = [k \in Kinds |-> Held[k] - drawn[k] + WorthOf(S)[k]]
  BY <1>5
<1> QED BY <1>1, <1>2, <1>3, <1>4, <1>6

\* With what was taken, an attempt has what it holds.
LEMMA FundsTaken ==
  ASSUME SelectorInv, pc \in Running
  PROVE  /\ Members(AllPicked) \in SUBSET job.pool /\ job.pool \in SUBSET UTxOs
         /\ Contract!Funds(Members(AllPicked)) = Held
         /\ level = 1 => /\ Members(outer.picked) \in SUBSET job.pool
                         /\ Contract!Funds(Members(outer.picked)) = outer.amount
<1>0. SelectionInv /\ TakenInv
  BY DEF SelectorInv
<1>1. Members(AllPicked) \in SUBSET job.pool /\ job.pool \in SUBSET UTxOs
  BY <1>0 DEF TakenInv, PoolInv, PickedOnce, Members, SelectionInv, TypeOK, JobType
<1>2. drawn = WorthOf(Members(AllPicked))
  BY <1>0 DEF TakenInv, SumInv
<1>3. Contract!Funds(Members(AllPicked)) = Held
  <2> DEFINE S == Members(AllPicked)
  <2>1. S \in SUBSET UTxOs /\ WorthOf(S) = drawn
    BY <1>1, <1>2
  <2> HIDE DEF S
  <2>2. /\ Contract!Funds(S) = [k \in Kinds |-> Held[k] - drawn[k] + WorthOf(S)[k]]
        /\ \A k \in Kinds : Held[k] \in Nat /\ drawn[k] \in Nat
        /\ Held \in Amounts
    BY <2>1, ContractFunds
  <2>3. \A k \in Kinds : Held[k] - drawn[k] + WorthOf(S)[k] = Held[k]
    BY <2>1, <2>2
  <2>4. Held = [k \in Kinds |-> Held[k]]
    BY <2>2 DEF Amounts
  <2>5. Contract!Funds(S) = Held
    BY <2>2, <2>3, <2>4
  <2> QED BY <2>5 DEF S
<1>4. ASSUME level = 1
      PROVE  /\ Members(outer.picked) \in SUBSET job.pool
             /\ Contract!Funds(Members(outer.picked)) = outer.amount
  <2> DEFINE S == Members(outer.picked)
  <2>1. S \in SUBSET job.pool
    <3>1. outer.picked \in Seq(UTxOs) /\ picked \in Seq(UTxOs)
      BY <1>0 DEF SelectionInv, TypeOK
    <3>2. /\ Len(AllPicked) = Len(outer.picked) + Len(picked)
          /\ Len(outer.picked) \in Nat /\ Len(picked) \in Nat
          /\ \A i \in 1..Len(outer.picked) : AllPicked[i] = outer.picked[i]
      BY <3>1, ConcatMembers DEF AllPicked
    <3>3. \A i \in 1..Len(outer.picked) : i \in 1..Len(AllPicked)
      BY <3>2
    <3>4. \A i \in 1..Len(outer.picked) : outer.picked[i] \in Members(AllPicked)
      BY <3>2, <3>3 DEF Members
    <3> QED BY <1>1, <3>4 DEF Members
  <2>2. drawn = WorthOf(S) ++ amount /\ Held = outer.amount ++ amount
    BY <1>0, <1>4 DEF TakenInv, SumInv, Held
  <2>3. outer.amount \in Amounts /\ amount \in Amounts /\ S \in SUBSET UTxOs
    BY <1>0, <1>1, <2>1 DEF SelectionInv, TypeOK
  <2> HIDE DEF S
  <2>4. /\ Contract!Funds(S) = [k \in Kinds |-> Held[k] - drawn[k] + WorthOf(S)[k]]
        /\ \A k \in Kinds : WorthOf(S)[k] \in Nat
    BY <2>3, ContractFunds
  <2>5. ASSUME NEW k \in Kinds
        PROVE  Held[k] - drawn[k] + WorthOf(S)[k] = outer.amount[k]
    <3>1. Held[k] = outer.amount[k] + amount[k] /\ drawn[k] = WorthOf(S)[k] + amount[k]
      BY <2>2 DEF ++
    <3>2. outer.amount[k] \in Nat /\ amount[k] \in Nat /\ WorthOf(S)[k] \in Nat
      BY <2>3, <2>4 DEF Amounts
    <3> QED BY <3>1, <3>2
  <2>6. outer.amount = [k \in Kinds |-> outer.amount[k]]
    BY <2>3 DEF Amounts
  <2>7. Contract!Funds(S) = outer.amount
    BY <2>4, <2>5, <2>6
  <2> QED BY <2>1, <2>7 DEF S
<1> QED BY <1>1, <1>3, <1>4

\* With one more, it has that much more.
LEMMA FundsMore ==
  ASSUME SelectorInv, pc = "cover", level = 0, NEW u \in avail
  PROVE  /\ Members(AllPicked) \cup {u} \in SUBSET job.pool
         /\ Contract!Funds(Members(AllPicked) \cup {u}) = amount ++ Amount[u]
<1> DEFINE S == Members(AllPicked)
           T == S \cup {u}
<1>0. SelectionInv /\ TakenInv /\ pc \in Running
  BY DEF SelectorInv, Running
<1>1. u \in job.pool /\ u \notin S /\ S \in SUBSET job.pool /\ job.pool \in SUBSET UTxOs
  BY <1>0, FundsTaken DEF TakenInv, PoolInv
<1>2. S \in SUBSET UTxOs /\ T \in SUBSET UTxOs /\ T \in SUBSET job.pool /\ u \in UTxOs
  BY <1>1
<1>3. drawn = WorthOf(S) /\ Held = amount /\ amount \in Amounts
  BY <1>0 DEF TakenInv, SumInv, Held, SelectionInv, TypeOK
<1> HIDE DEF S
<1>4. WorthOf(T) = drawn ++ Amount[u]
  BY <1>1, <1>2, <1>3, WorthAmounts
<1> HIDE DEF T
<1>5. /\ Contract!Funds(T) = [k \in Kinds |-> Held[k] - drawn[k] + WorthOf(T)[k]]
      /\ \A k \in Kinds : drawn[k] \in Nat
  BY <1>0, <1>2, ContractFunds
<1>6. ASSUME NEW k \in Kinds
      PROVE  Held[k] - drawn[k] + WorthOf(T)[k] = amount[k] + Amount[u][k]
  <2>1. WorthOf(T)[k] = drawn[k] + Amount[u][k]
    BY <1>4 DEF ++
  <2>2. amount[k] \in Nat /\ Amount[u][k] \in Nat /\ drawn[k] \in Nat
    BY <1>2, <1>3, <1>5, UTxOAssumption DEF Amounts
  <2> QED BY <1>3, <2>1, <2>2
<1>7. Contract!Funds(T) = amount ++ Amount[u]
  BY <1>5, <1>6 DEF ++
<1> QED BY <1>2, <1>7 DEF S, T

\* A raise hands over what was taken to the next selector, or ends the call.
LEMMA RaiseContract ==
  ASSUME SelectorInv, pc = "cover", NEW amt \in Amounts, Raise(amt),
         NEW S \in SUBSET job.pool,
         Contract!Funds(S) = IF level = 0 THEN amt ELSE outer.amount
  PROVE  Contract!Next
<1>1. job' = job
  BY DEF Raise
<1>2. CASE attempt < Len(job.chain)
  <2> DEFINE had == IF level = 0 THEN amt ELSE outer.amount
  <2>1. /\ drawn' = Zero /\ level' = 0 /\ amount' = had /\ pc' = "cover"
    BY <1>2 DEF Raise, Enter
  <2>2. had \in Amounts
    BY DEF SelectorInv, SelectionInv, TypeOK
  <2>3. Existing' = had -- Zero
    BY <2>1 DEF Existing, Held
  <2>4. had -- Zero = had
    BY <2>2 DEF --, Zero, Amounts
  <2>5. Existing' = Contract!Funds(S)
    BY <2>3, <2>4
  <2>6. Contract!HandOver
    BY <1>1, <2>1, <2>5 DEF Contract!HandOver
  <2> QED BY <2>6 DEF Contract!Next
<1>3. CASE ~(attempt < Len(job.chain))
  <2>1. pc' = "failed" /\ Existing' = Existing
    BY <1>3 DEF Raise, Existing, Held
  <2>2. Contract!Raise
    BY <1>1, <2>1 DEF Contract!Raise, Contract!Zero, Zero, Contract!Kinds, Kinds
  <2> QED BY <2>2 DEF Contract!Next
<1> QED BY <1>2, <1>3

\* select returns: a subset of the pool that covers the request, and the change.
LEMMA SelectContract ==
  ASSUME SelectorInv, pc = "min_change", pc' = "selected", level' = 0,
         UNCHANGED <<job, drawn>>, amount' = Held, target' = job.request,
         picked' \in Seq(UTxOs), Members(picked') = Members(AllPicked),
         ValueLe(job.request, Held)
  PROVE  Contract!Select
<1> DEFINE S == Members(AllPicked)
<1>0. pc \in Running
  BY DEF Running
<1>1. S \in SUBSET job.pool /\ Contract!Funds(S) = Held
  BY <1>0, FundsTaken
<1>2. Existing' = Existing
  BY DEF Existing, Held
<1>3. {picked'[i] : i \in DOMAIN picked'} = S
  <2>1. DOMAIN picked' = 1..Len(picked')
    OBVIOUS
  <2>2. Members(picked') = {picked'[i] : i \in DOMAIN picked'}
    BY <2>1 DEF Members
  <2> QED BY <2>2
<1>4. Change' = [k \in Kinds |-> Held[k] - job.request[k]]
  BY DEF Change, --
<1>5. Contract!ValueLe(job.request, Held)
  BY DEF Contract!ValueLe, ValueLe, Contract!MultiAssetLe, MultiAssetLe
<1>6. Contract!Kinds = Kinds
  BY DEF Contract!Kinds, Kinds
<1> HIDE DEF S
<1> QED BY <1>1, <1>2, <1>3, <1>4, <1>5, <1>6 DEF Contract!Select

\* While nothing is returned or handed over the contract does not move.
LEMMA StutterContract ==
  ASSUME pc \notin Final, pc' \notin Final, job' = job, Existing' = Existing
  PROVE  UNCHANGED Contract!vars
BY DEF Contract!vars, Final

\* A UTxO taken moves from the pool to what is held.
LEMMA TakeContract ==
  ASSUME SelectorInv, pc \in Running, pc' = pc, NEW u \in UTxOs, Take(u),
         UNCHANGED <<job, level, outer>>
  PROVE  UNCHANGED Contract!vars
<1>1. /\ amount \in Amounts /\ outer.amount \in Amounts /\ drawn \in Amounts
      /\ Amount[u] \in Amounts /\ pc # "idle" /\ pc \notin Final
  BY UTxOAssumption DEF SelectorInv, SelectionInv, TypeOK, Running, Final
<1>2. Held' = Held ++ Amount[u] /\ drawn' = drawn ++ Amount[u]
  BY <1>1, PlusAssociative DEF Take, Held
<1>3. Held \in Amounts
  BY <1>1, PlusAmounts DEF Held
<1>4. ASSUME NEW k \in Kinds
      PROVE  (Held' -- drawn')[k] = (Held -- drawn)[k]
  <2>1. Held[k] \in Nat /\ drawn[k] \in Nat /\ Amount[u][k] \in Nat
    BY <1>1, <1>3 DEF Amounts
  <2>2. Held'[k] = Held[k] + Amount[u][k] /\ drawn'[k] = drawn[k] + Amount[u][k]
    BY <1>2 DEF ++
  <2> QED BY <2>1, <2>2 DEF --
<1>5. Existing' = Existing
  <2>1. Held' -- drawn' = Held -- drawn
    BY <1>4 DEF --
  <2> QED BY <1>1, <2>1 DEF Existing
<1> QED BY <1>1, <1>5, StutterContract

\* Every step of the selectors is one of the contract, or none.
LEMMA StepContract ==
  ASSUME SelectorInv, SelectionStep
  PROVE  Contract!Next \/ UNCHANGED Contract!vars
<1>0. /\ SelectionInv /\ TakenInv /\ QueueInv /\ TypeOK
      /\ amount \in Amounts /\ avail \in SUBSET UTxOs
  BY DEF SelectorInv, SelectionInv, TypeOK
<1>1. CASE \E amt \in Amounts : /\ pc = "cover" /\ Raise(amt)
                                /\ level = 0 => amt = amount
  <2>1. PICK amt \in Amounts : /\ pc = "cover" /\ Raise(amt)
                               /\ level = 0 => amt = amount
    BY <1>1
  <2>2. pc \in Running
    BY <2>1 DEF Running
  <2>3. CASE level = 0
    <3>1. Held = amount
      BY <2>3 DEF Held
    <3> DEFINE S == Members(AllPicked)
    <3>2. S \in SUBSET job.pool /\ Contract!Funds(S) = amt
      BY <2>1, <2>2, <2>3, <3>1, FundsTaken
    <3> HIDE DEF S
    <3> QED BY <2>1, <2>3, <3>2, RaiseContract
  <2>4. CASE level = 1
    <3> DEFINE S == Members(outer.picked)
    <3>2. S \in SUBSET job.pool /\ Contract!Funds(S) = outer.amount
      BY <2>2, <2>4, FundsTaken
    <3> HIDE DEF S
    <3> QED BY <2>1, <2>4, <3>2, RaiseContract
  <2> QED BY <1>0, <2>3, <2>4 DEF TypeOK
<1>2. CASE LargestFirstPick
  <2>0. pc = "cover" /\ pc \in Running
    BY <1>2 DEF LargestFirstPick, AtLargestFirst, Running
  <2>1. PICK u \in avail :
          IF Exceeds(Len(picked) + 1, limit)
          THEN Raise(amount ++ Amount[u])
          ELSE /\ Take(u)
               /\ avail' = avail \ {u}
               /\ UNCHANGED <<job, attempt, pc, level, target, limit, queue,
                              idx, scratch, mark, outer>>
    BY <1>2 DEF LargestFirstPick
  <2>2. u \in UTxOs /\ amount ++ Amount[u] \in Amounts
    BY <1>0, TakeWellTyped
  <2>3. CASE Exceeds(Len(picked) + 1, limit) /\ level = 0
    <3> DEFINE S == Members(AllPicked) \cup {u}
    <3>1. S \in SUBSET job.pool /\ Contract!Funds(S) = amount ++ Amount[u]
      BY <2>0, <2>1, <2>3, FundsMore
    <3> HIDE DEF S
    <3> QED BY <2>0, <2>1, <2>2, <2>3, <3>1, RaiseContract
  <2>4. CASE Exceeds(Len(picked) + 1, limit) /\ level # 0
    BY <1>1, <2>0, <2>1, <2>2, <2>4
  <2>5. CASE ~Exceeds(Len(picked) + 1, limit)
    BY <2>0, <2>1, <2>2, <2>5, TakeContract
  <2> QED BY <2>3, <2>4, <2>5
<1>3. CASE RandomPick
  <2>1. pc \in Running /\ pc' = pc /\ UNCHANGED <<job, level, outer>>
    BY <1>3 DEF RandomPick, AtRandomCover, Running
  <2>2. PICK u \in avail : Take(u)
    BY <1>3 DEF RandomPick
  <2> QED BY <1>0, <2>1, <2>2, TakeContract
<1>4. CASE ImproveDraw
  <2>1. pc \in Running /\ pc' = pc /\ UNCHANGED <<job, level, outer>>
    BY <1>4 DEF ImproveDraw, Drawing, Running
  <2>2. PICK u \in scratch : IF Better(u) THEN Take(u) ELSE UNCHANGED <<picked, amount, drawn>>
    BY <1>4 DEF ImproveDraw
  <2>3. u \in UTxOs
    BY <1>0 DEF TypeOK
  <2>4. CASE Better(u)
    BY <2>1, <2>2, <2>3, <2>4, TakeContract
  <2>5. CASE ~Better(u)
    <3>1. Existing' = Existing
      BY <2>1, <2>2, <2>5 DEF Existing, Held
    <3> QED BY <2>1, <3>1, StutterContract DEF Running, Final
  <2> QED BY <2>4, <2>5
<1>5. CASE /\ pc \in Running /\ pc' \in Running
           /\ UNCHANGED <<job, level, amount, outer, drawn>>
  <2>1. Existing' = Existing
    BY <1>5 DEF Existing, Held, Running
  <2> QED BY <1>5, <2>1, StutterContract DEF Running, Final
<1>6. CASE DrawCrashes
  <2>1. pc \in Running /\ pc' = "crashed" /\ Existing' = Existing /\ job' = job
    BY <1>6 DEF DrawCrashes, Existing, Held, Drawing, AtRandomCover, Running
  <2>2. Contract!Raise
    BY <2>1 DEF Contract!Raise, Contract!Zero, Zero, Contract!Kinds, Kinds, Running
  <2> QED BY <2>2 DEF Contract!Next
<1>7. CASE RequestMinChange
  <2>1. /\ pc = "min_change" /\ level = 0 /\ pc' = "cover" /\ level' = 1
        /\ outer' = [picked |-> picked, amount |-> amount] /\ amount' = Zero
        /\ UNCHANGED <<job, drawn>>
    BY <1>7 DEF RequestMinChange, NeedsChange, Respects, Enter
  <2>2. Held' = amount ++ Zero /\ Held = amount
    BY <2>1 DEF Held
  <2>3. amount ++ Zero = amount
    BY <1>0 DEF ++, Zero, Amounts
  <2>4. Existing' = Existing
    BY <2>1, <2>2, <2>3 DEF Existing
  <2> QED BY <2>1, <2>4, StutterContract DEF Final
<1>8. CASE ReturnAdditional
  <2>1. /\ pc = "min_change" /\ pc \in Running /\ level = 1 /\ pc' = "selected" /\ level' = 0
        /\ picked' = outer.picked \o picked /\ amount' = outer.amount ++ amount
        /\ target' = job.request /\ UNCHANGED <<job, drawn>>
    BY <1>8 DEF ReturnAdditional, Running
  <2>2. outer.picked \in Seq(UTxOs) /\ picked \in Seq(UTxOs) /\ outer.amount \in Amounts
        /\ job.request \in Amounts
    BY <1>0 DEF TypeOK, JobType
  <2>3. picked' = AllPicked /\ picked' \in Seq(UTxOs)
    BY <2>1, <2>2, ConcatMembers DEF AllPicked
  <2>4. Held = outer.amount ++ amount
    BY <2>1 DEF Held
  <2>5. ValueLe(job.request, Held)
    BY <1>0, <2>1, <2>2, <2>4, LeMonotone DEF SelectionInv, CoveredFromThenOn
  <2> QED BY <2>1, <2>3, <2>4, <2>5, SelectContract DEF Contract!Next
<1>9. CASE ReturnSelected
  <2>1. /\ pc = "min_change" /\ pc \in Running /\ level = 0 /\ pc' = "selected"
        /\ UNCHANGED <<job, attempt, level, target, limit, avail, picked, amount,
                       queue, idx, scratch, mark, outer, drawn>>
    BY <1>9 DEF ReturnSelected, Running
  <2>2. target = job.request /\ outer = NoOuter /\ Held = amount /\ picked \in Seq(UTxOs)
    BY <1>0, <2>1 DEF SelectionInv, RunningAmounts, TakenInv, PoolInv, Held, TypeOK
  <2>3. AllPicked = picked
    BY <2>2 DEF AllPicked, NoOuter
  <2>4. ValueLe(job.request, Held)
    BY <1>0, <2>1, <2>2 DEF SelectionInv, CoveredFromThenOn
  <2> QED BY <2>1, <2>2, <2>3, <2>4, SelectContract DEF Contract!Next
<1>10. LargestFirstStep => LargestFirstPick
                           \/ (pc = "cover" /\ Raise(amount))
                           \/ (/\ pc \in Running /\ pc' \in Running
                               /\ UNCHANGED <<job, level, amount, outer, drawn>>)
  BY DEF LargestFirstStep, LargestFirstEmpty, LargestFirstCovered, AtLargestFirst, Running
<1>11. RandomCoverStep => RandomPick
                           \/ (pc = "cover" /\ Raise(amount))
                           \/ (/\ pc \in Running /\ pc' \in Running
                               /\ UNCHANGED <<job, level, amount, outer, drawn>>)
  BY DEF RandomCoverStep, RandomEmpty, RandomDrawRaises, RandomCovered, AtRandomCover, Running
<1>12. ImproveStep => ImproveDraw
                       \/ (/\ pc \in Running /\ pc' \in Running
                           /\ UNCHANGED <<job, level, amount, outer, drawn>>)
  BY DEF ImproveStep, BeginImprove, ImproveEnd, ImproveDrawRaises, AtRandomCover,
         EndRound, Drawing, Running
<1> QED BY <1>0, <1>1, <1>2, <1>3, <1>4, <1>5, <1>6, <1>7, <1>8, <1>9, <1>10,
           <1>11, <1>12 DEF SelectionStep, FinishStep

\* The selectors implement their documented contract, a chain of them the weaker
\* one with hand-overs (coinselection.py:42-69, txbuilder.py:1416-1452).
THEOREM SelectorsImplementContract == Spec => ImplementsContract
<1>1. Init => Contract!Init
  <2> SUFFICES ASSUME Init PROVE Contract!Init
    OBVIOUS
  <2>1. /\ pc = "idle" /\ job \in JobType
    BY JobsAssumption DEF Init, Idle
  <2>2. Existing = job.existing /\ Contract!Amounts = Amounts /\ Contract!Zero = Zero
    BY <2>1 DEF Existing, Contract!Amounts, Amounts, Contract!Zero, Zero,
                Contract!Kinds, Kinds
  <2> QED BY <2>1, <2>2 DEF Contract!Init, JobType
<1>2. SelectorInv /\ [Next]_vars => [Contract!Next]_Contract!vars
  <2> SUFFICES ASSUME SelectorInv, [Next]_vars
               PROVE  Contract!Next \/ UNCHANGED Contract!vars
    OBVIOUS
  <2>1. CASE Call
    <3>1. pc = "idle" /\ pc' = "cover" /\ job' = job /\ level' = 0
          /\ amount' = job.existing /\ drawn' = Zero
      BY <2>1 DEF Call, StartSelection, Enter
    <3>2. job.existing \in Amounts
      BY DEF SelectorInv, SelectionInv, TypeOK, JobType
    <3>3. job.existing -- Zero = job.existing
      BY <3>2 DEF --, Zero, Amounts
    <3>4. Existing' = Existing
      BY <3>1, <3>3 DEF Existing, Held
    <3> QED BY <3>1, <3>4, StutterContract DEF Final
  <2>2. CASE SelectionStep
    BY <2>2, StepContract
  <2>3. CASE Returned \/ UNCHANGED vars
    <3>1. UNCHANGED vars
      BY <2>3 DEF Returned
    <3>2. Existing' = Existing /\ Change' = Change
      BY <3>1 DEF vars, Existing, Held, Change
    <3> QED BY <3>1, <3>2 DEF vars, Contract!vars
  <2> QED BY <2>1, <2>2, <2>3 DEF Next
<1> QED BY <1>1, <1>2, TakenInvariant, PTL DEF Spec, ImplementsContract, Contract!Spec

=============================================================================

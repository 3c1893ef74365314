---------------------------- MODULE CoinSelection ----------------------------
(***************************************************************************)
(* coinselection.py, driven as TransactionBuilder.build drives it: the     *)
(* selectors of a chain are tried in order on the same pool until one does *)
(* not raise.  One selector call runs in steps, one per loop iteration:    *)
(*                                                                         *)
(*   cover       add UTxOs until the request is covered                    *)
(*   improve     RandomImproveMultiAsset only: move every requested kind   *)
(*               towards twice its request                                 *)
(*   min_change  ask for more ADA when the change could not be an output,  *)
(*               by a recursive call of the same selector (level 1)        *)
(*                                                                         *)
(* existing_amount is one object the caller passes to every selector, and  *)
(* a selector adds to it in place: what a failed selector added is still   *)
(* in it when the next one starts.                                         *)
(***************************************************************************)
EXTENDS Values, Sequences

CONSTANTS
  UTxOs,       \* identities of the unspent outputs
  Amount,      \* Amount[u]: the Value of u
  NoLimit,     \* max_input_count is None
  Jobs         \* the calls to explore

ASSUME UTxOAssumption ==
  /\ IsFiniteSet(UTxOs)
  /\ Amount \in [UTxOs -> Amounts]
ASSUME NoLimitAssumption == NoLimit \notin Int

SelectorNames == {"LargestFirst", "RandomImprove"}

\* The selectors in the order they are tried, whether RandomImprove draws from a
\* generator the user gave, and the arguments of select; request is max_fee plus
\* the outputs.
JobType ==
  [chain : Seq(SelectorNames), draws : BOOLEAN, pool : SUBSET UTxOs,
   request : Amounts, existing : Amounts, limit : Nat \cup {NoLimit},
   respect : BOOLEAN]

ASSUME JobsAssumption == \A j \in Jobs : j \in JobType /\ j.chain # <<>>

VARIABLES
  job,       \* the call being served
  attempt,   \* index in the chain of the selector that runs
  pc,        \* where it is; "idle" before a call, Final after it
  level,     \* 0: the call itself, 1: the recursive call for more change
  target,    \* total_requested, request_sum
  limit,     \* max_input_count of the running call
  avail,     \* available, remaining
  picked,    \* selected
  amount,    \* selected_amount
  queue,     \* request_sorted, as the sequence of requested kinds
  idx,       \* position in queue
  scratch,   \* the shrinking list inside _improve
  mark,      \* num_selected_before
  outer,     \* level 0's picked, amount and limit while level 1 runs
  drawn      \* history: the sum of everything this attempt took from the pool

vars == <<job, attempt, pc, level, target, limit, avail, picked, amount,
          queue, idx, scratch, mark, outer, drawn>>

Final == {"selected", "failed", "crashed"}
Running == {"cover", "improve", "min_change"}

NoOuter == [picked |-> <<>>, amount |-> Zero]

\* The sum of the amounts of the UTxOs of S.
WorthOf(S) == [k \in Kinds |-> Total([u \in S |-> Amount[u][k]], S)]

-----------------------------------------------------------------------------

Selector == job.chain[attempt]

\* `if max_input_count and len(selected) > max_input_count`: a limit of 0 is
\* falsy and so no limit at all.
Exceeds(n, lim) == lim # NoLimit /\ lim # 0 /\ n > lim

\* The limit of the recursive call.
RemainingLimit(lim, n) == IF lim = NoLimit \/ lim = 0 THEN NoLimit ELSE lim - n

\* _split_by_asset and sorted(..., reverse=True): the requested kinds by
\* descending quantity; equal quantities keep the order of the dictionary,
\* which may be any.
Requested(v) == {k \in Kinds : v[k] # 0}
Orders(v) ==
  LET n == Cardinality(Requested(v))
  IN  {s \in [1..n -> Requested(v)] :
        /\ \A k \in Requested(v) : \E i \in 1..n : s[i] = k
        /\ \A i, j \in 1..n : i < j => v[s[i]] >= v[s[j]]}

\* A call of a selector starts.
Enter(sel, lvl, req, amt, lim, pool) ==
  /\ pc' = "cover"
  /\ level' = lvl
  /\ target' = req
  /\ amount' = amt
  /\ limit' = lim
  /\ avail' = pool
  /\ picked' = <<>>
  /\ queue' \in IF sel = "RandomImprove" THEN Orders(req) ELSE {<<>>}
  /\ idx' = 1
  /\ scratch' = {}
  /\ mark' = 0

\* The builder calls the first selector.
StartSelection(j) ==
  /\ job' = j
  /\ attempt' = 1
  /\ outer' = NoOuter
  /\ drawn' = Zero
  /\ Enter(j.chain[1], 0, j.request, j.existing, j.limit, j.pool)

(***************************************************************************)
(* A UTxOSelectionException: the next selector starts on the same pool,    *)
(* with the existing_amount object in the state the failed one left it in. *)
(* amt is the value of selected_amount when the exception is raised; at    *)
(* level 1 that is a fresh Value and the shared object is the outer one.   *)
(***************************************************************************)
Raise(amt) ==
  LET shared == IF level = 0 THEN amt ELSE outer.amount
  IN  IF attempt < Len(job.chain)
      THEN /\ attempt' = attempt + 1
           /\ outer' = NoOuter
           /\ drawn' = Zero
           /\ Enter(job.chain[attempt + 1], 0, job.request, shared, job.limit, job.pool)
           /\ UNCHANGED job
      ELSE /\ pc' = "failed"
           /\ UNCHANGED <<job, attempt, level, target, limit, avail, picked,
                          amount, queue, idx, scratch, mark, outer, drawn>>

Take(u) ==
  /\ picked' = Append(picked, u)
  /\ amount' = amount ++ Amount[u]
  /\ drawn' = drawn ++ Amount[u]

-----------------------------------------------------------------------------
(* LargestFirstSelector.select *)

AtLargestFirst == pc = "cover" /\ Selector = "LargestFirst"

LargestFirstEmpty ==
  /\ AtLargestFirst
  /\ ~ValueLe(target, amount)
  /\ avail = {}
  /\ Raise(amount)

\* available.pop() of the list sorted by lovelace.
LargestFirstPick ==
  /\ AtLargestFirst
  /\ ~ValueLe(target, amount)
  /\ \E u \in avail :
       /\ \A w \in avail : Amount[w][ADA] <= Amount[u][ADA]
       /\ IF Exceeds(Len(picked) + 1, limit)
          THEN Raise(amount ++ Amount[u])
          ELSE /\ Take(u)
               /\ avail' = avail \ {u}
               /\ UNCHANGED <<job, attempt, pc, level, target, limit, queue,
                              idx, scratch, mark, outer>>

LargestFirstCovered ==
  /\ AtLargestFirst
  /\ ValueLe(target, amount)
  /\ pc' = "min_change"
  /\ UNCHANGED <<job, attempt, level, target, limit, avail, picked, amount,
                 queue, idx, scratch, mark, outer, drawn>>

-----------------------------------------------------------------------------
(* RandomImproveMultiAsset.select, phase 1: random selection *)

AtRandomCover == pc = "cover" /\ Selector = "RandomImprove"
Request(k) == Only(k, target[k])

\* Mutant: the last request is not looked at.
LackingButLast == idx < Len(queue) /\ ~ValueLe(Request(queue[idx]), amount)

Lacking == idx <= Len(queue) /\ ~ValueLe(Request(queue[idx]), amount)

RandomEmpty ==
  /\ AtRandomCover
  /\ Lacking
  /\ avail = {}
  /\ Raise(amount)

RandomPick ==
  /\ AtRandomCover
  /\ Lacking
  /\ \E u \in avail :
       /\ Take(u)
       /\ avail' = avail \ {u}
  /\ UNCHANGED <<job, attempt, pc, level, target, limit, queue, idx, scratch,
                 mark, outer>>

\* A generator the user gave runs out of indexes, or returns an index beyond
\* the list: both raise a UTxOSelectionException.
RandomDrawRaises ==
  /\ job.draws
  /\ AtRandomCover
  /\ Lacking
  /\ avail # {}
  /\ Raise(amount)

\* max_input_count is looked at when a request is covered.
RandomCovered ==
  /\ AtRandomCover
  /\ idx <= Len(queue)
  /\ ~Lacking
  /\ IF Exceeds(Len(picked), limit)
     THEN Raise(amount)
     ELSE /\ idx' = idx + 1
          /\ UNCHANGED <<job, attempt, pc, level, target, limit, avail, picked,
                         amount, queue, scratch, mark, outer, drawn>>

-----------------------------------------------------------------------------
(* RandomImproveMultiAsset.select, phase 2: _improve, for the requested    *)
(* kinds in ascending order of quantity                                    *)

Round == queue[idx]
Ideal == 2 * target[Round]

UpperBound == 3 * target[Round]
Distance(a) == IF a[Round] <= Ideal THEN Ideal - a[Round] ELSE a[Round] - Ideal

BeginImprove ==
  /\ AtRandomCover
  /\ idx > Len(queue)
  /\ pc' = IF queue = <<>> THEN "min_change" ELSE "improve"
  /\ idx' = Len(queue)
  /\ scratch' = avail
  /\ mark' = Len(picked)
  /\ UNCHANGED <<job, attempt, level, target, limit, avail, picked, amount,
                 queue, outer, drawn>>

\* _improve goes on to draw: it neither returns nor raises.  Its limit test is
\* `is not None`, so 0 is a limit here.
Drawing ==
  /\ pc = "improve"
  /\ scratch # {}
  /\ amount[Round] < Ideal
  /\ limit # NoLimit => Len(picked) <= limit

Better(u) ==
  LET after == amount ++ Amount[u]
  IN  Distance(after) < Distance(amount) /\ after[Round] <= UpperBound

\* Mutant: a UTxO that does not help stays in the list.
ImproveDrawKeeping ==
  /\ Drawing
  /\ \E u \in scratch :
       IF Better(u)
       THEN Take(u) /\ scratch' = scratch \ {u}
       ELSE UNCHANGED <<picked, amount, drawn, scratch>>
  /\ UNCHANGED <<job, attempt, pc, level, target, limit, avail, queue, idx,
                 mark, outer>>

ImproveDraw ==
  /\ Drawing
  /\ \E u \in scratch :
       /\ scratch' = scratch \ {u}
       /\ IF Better(u)
          THEN Take(u)
          ELSE UNCHANGED <<picked, amount, drawn>>
  /\ UNCHANGED <<job, attempt, pc, level, target, limit, avail, queue, idx,
                 mark, outer>>

\* Mutant: what the round took is left for the next one.
EndRoundKeepingAll ==
  /\ avail' = avail
  /\ scratch' = avail
  /\ mark' = Len(picked)
  /\ IF idx > 1
     THEN idx' = idx - 1 /\ pc' = pc
     ELSE idx' = idx /\ pc' = "min_change"
  /\ UNCHANGED <<job, attempt, level, target, limit, picked, amount, queue,
                 outer, drawn>>

\* The next kind's round starts from what this round left over.
EndRound ==
  LET left == avail \ {picked[i] : i \in (mark + 1)..Len(picked)}
  IN  /\ avail' = left
      /\ scratch' = left
      /\ mark' = Len(picked)
      /\ IF idx > 1
         THEN idx' = idx - 1 /\ pc' = pc
         ELSE idx' = idx /\ pc' = "min_change"
      /\ UNCHANGED <<job, attempt, level, target, limit, picked, amount, queue,
                     outer, drawn>>

\* _improve returns, or raises because of the limit; select goes on either way.
ImproveEnd == pc = "improve" /\ ~Drawing /\ EndRound

\* A user's generator that is exhausted or out of range ends the round too.
ImproveDrawRaises == job.draws /\ Drawing /\ EndRound

\* The index len(utxos) passes the test `i > len(utxos)`, and utxos[i] raises
\* an IndexError, which nothing catches.
DrawCrashes ==
  /\ job.draws
  /\ \/ AtRandomCover /\ Lacking /\ avail # {}
     \/ Drawing
  /\ pc' = "crashed"
  /\ UNCHANGED <<job, attempt, level, target, limit, avail, picked, amount,
                 queue, idx, scratch, mark, outer, drawn>>

-----------------------------------------------------------------------------
(* The end of select, the same in both selectors *)

Change == amount -- target
Respects == level = 0 /\ job.respect

NeedsChange == Respects /\ Change[ADA] < MinLovelace(Change)

\* Mutant: half of what is missing is asked for.
RequestHalfChange ==
  /\ pc = "min_change"
  /\ NeedsChange
  /\ outer' = [picked |-> picked, amount |-> amount]
  /\ Enter(Selector, 1, Only(ADA, (MinLovelace(Change) - Change[ADA]) \div 2), Zero,
           RemainingLimit(limit, Len(picked)), avail)
  /\ UNCHANGED <<job, attempt, drawn>>

\* Mutant: the minimum is asked for on top of the change there is.
RequestWholeMinimum ==
  /\ pc = "min_change"
  /\ NeedsChange
  /\ outer' = [picked |-> picked, amount |-> amount]
  /\ Enter(Selector, 1, Only(ADA, MinLovelace(Change) + Change[ADA]), Zero,
           RemainingLimit(limit, Len(picked)), avail)
  /\ UNCHANGED <<job, attempt, drawn>>

\* A recursive call with the UTxOs left over asks for the missing ADA.
RequestMinChange ==
  /\ pc = "min_change"
  /\ NeedsChange
  /\ outer' = [picked |-> picked, amount |-> amount]
  /\ Enter(Selector, 1, Only(ADA, MinLovelace(Change) - Change[ADA]), Zero,
           RemainingLimit(limit, Len(picked)), avail)
  /\ UNCHANGED <<job, attempt, drawn>>

\* Mutant: only the UTxOs of the recursive call are returned.
ReturnOnlyAdditional ==
  /\ pc = "min_change"
  /\ level = 1
  /\ pc' = "selected"
  /\ level' = 0
  /\ amount' = outer.amount ++ amount
  /\ target' = job.request
  /\ limit' = job.limit
  /\ outer' = NoOuter
  /\ UNCHANGED <<job, attempt, avail, picked, queue, idx, scratch, mark, drawn>>

\* The recursive call returns: its UTxOs and their sum are added to the outer's.
ReturnAdditional ==
  /\ pc = "min_change"
  /\ level = 1
  /\ pc' = "selected"
  /\ level' = 0
  /\ picked' = outer.picked \o picked
  /\ amount' = outer.amount ++ amount
  /\ target' = job.request
  /\ limit' = job.limit
  /\ outer' = NoOuter
  /\ UNCHANGED <<job, attempt, avail, queue, idx, scratch, mark, drawn>>

ReturnSelected ==
  /\ pc = "min_change"
  /\ level = 0
  /\ ~NeedsChange
  /\ pc' = "selected"
  /\ UNCHANGED <<job, attempt, level, target, limit, avail, picked, amount,
                 queue, idx, scratch, mark, outer, drawn>>

-----------------------------------------------------------------------------

Idle ==
  /\ job \in Jobs
  /\ attempt = 1
  /\ pc = "idle"
  /\ level = 0
  /\ target = Zero
  /\ limit = NoLimit
  /\ avail = {}
  /\ picked = <<>>
  /\ amount = Zero
  /\ queue = <<>>
  /\ idx = 1
  /\ scratch = {}
  /\ mark = 0
  /\ outer = NoOuter
  /\ drawn = Zero

Init == Idle

Call == pc = "idle" /\ StartSelection(job)

LargestFirstStep == LargestFirstEmpty \/ LargestFirstPick \/ LargestFirstCovered
RandomCoverStep == RandomEmpty \/ RandomPick \/ RandomDrawRaises \/ RandomCovered
ImproveStep == BeginImprove \/ ImproveDraw \/ ImproveEnd \/ ImproveDrawRaises
FinishStep == RequestMinChange \/ ReturnAdditional \/ ReturnSelected

SelectionStep ==
  LargestFirstStep \/ RandomCoverStep \/ ImproveStep \/ DrawCrashes \/ FinishStep

\* select has returned or raised.
Returned == pc \in Final /\ UNCHANGED vars

Next == Call \/ SelectionStep \/ Returned

Spec == Init /\ [][Next]_vars

\* The selectors are plain loops: the interpreter keeps executing them.
FairSpec == Spec /\ WF_vars(Call \/ SelectionStep)

-----------------------------------------------------------------------------
(* Properties *)

\* Every variable of the selectors keeps its type.
TypeOK ==
  /\ job \in JobType
  /\ attempt \in 1..Len(job.chain)
  /\ pc \in Final \cup Running \cup {"idle"}
  /\ level \in {0, 1}
  /\ target \in Amounts
  /\ limit \in Int \cup {NoLimit}
  /\ avail \in SUBSET UTxOs
  /\ picked \in Seq(UTxOs)
  /\ amount \in Amounts
  /\ queue \in Seq(Kinds)
  /\ idx \in 0..(Len(queue) + 1)
  /\ scratch \in SUBSET UTxOs
  /\ mark \in Nat
  /\ outer \in [picked : Seq(UTxOs), amount : Amounts]
  /\ drawn \in Amounts

\* What select promises (coinselection.py:42): the UTxOs it returns, with the
\* amount that existed before, are worth at least the request.  drawn counts
\* real UTxOs only.
RequestCovered ==
  pc = "selected" => ValueLe(job.request, job.existing ++ drawn)

\* The selector tried first keeps that promise whatever it is: the object it
\* adds to holds nothing but the existing amount when it starts.
FirstSelectorCovers == attempt = 1 => RequestCovered

\* Once the request is covered it stays covered, through the rounds of _improve
\* and the recursive call for change (coinselection.py:300-339).
CoveredFromThenOn ==
  pc \in {"improve", "min_change"} =>
    /\ ValueLe(target, amount)
    /\ level = 1 => ValueLe(job.request, outer.amount)

\* The inductive invariant behind the two: what the running call has is what
\* existed plus what it took (first selector only), the queue of requests names
\* every requested kind, and the requests before idx are covered.
RunningAmounts ==
  pc \in Running =>
    /\ level = 0 => target = job.request
    /\ level = 0 /\ attempt = 1 => amount = job.existing ++ drawn
    /\ level = 1 /\ attempt = 1 => outer.amount ++ amount = job.existing ++ drawn
    /\ level = 1 => ValueLe(job.request, outer.amount)

QueueCovers ==
  pc = "cover" /\ Selector = "RandomImprove" =>
    /\ \A k \in Kinds : target[k] # 0 => \E i \in 1..Len(queue) : queue[i] = k
    /\ \A i \in 1..Len(queue) : i < idx => target[queue[i]] <= amount[queue[i]]

SelectionInv ==
  /\ TypeOK
  /\ RunningAmounts
  /\ QueueCovers
  /\ CoveredFromThenOn
  /\ FirstSelectorCovers
  /\ pc = "improve" => idx \in 1..Len(queue)

\* No UTxO is returned twice and none comes from outside the pool, although
\* _improve works on copies of the list of UTxOs left (coinselection.py:305-316)
\* and the recursive call starts from what is left.
AllPicked == outer.picked \o picked
PickedOnce ==
  /\ \A i, j \in 1..Len(AllPicked) : AllPicked[i] = AllPicked[j] => i = j
  /\ \A i \in 1..Len(AllPicked) : AllPicked[i] \in job.pool

\* The upper bound of _improve never decides: a UTxO that brings a covered
\* request closer to twice its amount cannot take it beyond three times
\* (coinselection.py:245-254).
UpperBoundNeverDecides ==
  Drawing =>
    \A u \in scratch :
      LET after == amount ++ Amount[u]
      IN  Distance(after) < Distance(amount) => after[Round] <= UpperBound

\* The recursive call brings the ADA that was missing when it was made
\* (coinselection.py:112-131): the minimum of the change as it was then.
MissingChangeArrives ==
  [][level = 1 /\ pc' = "selected" =>
       Change'[ADA] >= MinLovelace(outer.amount -- job.request)]_vars

\* What the attempt has, and what it had when it was called: existing_amount.
Held == IF level = 0 THEN amount ELSE outer.amount ++ amount
Existing == IF pc = "idle" THEN job.existing ELSE Held -- drawn

Contract ==
  INSTANCE SelectionContract WITH
    request  <- job.request,
    existing <- Existing,
    pool     <- job.pool,
    outcome  <- IF pc = "selected" THEN "selected"
                ELSE IF pc \in {"failed", "crashed"} THEN "raised" ELSE "pending",
    selected <- IF pc = "selected" THEN {picked[i] : i \in DOMAIN picked} ELSE {},
    change   <- IF pc = "selected" THEN Change ELSE Zero

\* The selectors implement their documented contract, and a chain of them the
\* weaker one (coinselection.py:42-69, txbuilder.py:1416-1452).
ImplementsContract == Contract!Spec

\* A job that the whole pool can pay, leaving change that can be an output
\* whichever assets it holds.
Affordable ==
  LET total == job.existing ++ WorthOf(job.pool)
      most  == MinBase + MinPerAsset * Cardinality(Assets) + WideExtra
  IN  /\ ValueLe(job.request, total)
      /\ job.respect => total[ADA] - job.request[ADA] >= most

\* Nothing that can be paid is refused (coinselection.py:65-67): with no limit,
\* a failure of all selectors means that the pool is too poor.
FailureJustified ==
  pc = "failed" /\ job.limit \in {NoLimit, 0} /\ ~job.draws => ~Affordable

\* select returns or raises (the recursion of _improve shrinks its list).
Terminates == <>(pc \in Final)

=============================================================================

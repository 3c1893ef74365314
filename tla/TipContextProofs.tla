-------------------------- MODULE TipContextProofs --------------------------
(***************************************************************************)
(* Proofs about the chain contexts that decide by the tip, for any         *)
(* intervals, ttls, number of blocks and length of the run, and about a    *)
(* submission through cardano-cli; and about the UTxOs that every context  *)
(* returns, for any outputs of an address.                                 *)
(***************************************************************************)
EXTENDS TipContext, CliSubmit, UtxoQuery, SumsProofs

\* What the variables range over.
Entries == [version : Nat, at : Nat, inserted : Nat]

TypeOK ==
  /\ backend \in {"v5", "v6", "cli"} /\ wrapper \in {"none", "kupo", "plain"}
  /\ time \in Nat /\ born \in Seq(Nat) /\ Len(born) \in 1..MaxBlocks
  /\ slot \in 1..Version /\ indexed \in 1..Version
  /\ interval \in Nat /\ last \in Nat /\ known \in Nat
  /\ cached \in [Params -> [version : Nat, at : Nat] \cup {None}]
  /\ tip \in [slot : Slots, at : Nat] \cup {None}
  /\ ttl \in [inner : Nat, outer : Nat]
  /\ store \in [{"outer", "inner"} -> [Slots -> Entries \cup {None}]]
  /\ busy \in Requests \cup {None}
  /\ asked \in Nat
  /\ readers \subseteq Params
  /\ spoilt \subseteq {"fork", "failure", "synced"}

\* Versions reach the node in order, and none in the future; every block has a
\* slot of its own until the node changes to a fork.
WorldInv ==
  /\ \A i, j \in 1..Version : i <= j => born[i] <= born[j]
  /\ \A i \in 1..Version : born[i] <= time
  /\ "fork" \notin spoilt => slot = Version

\* A version that is not outdated at time t: what replaced it came no more than
\* age ticks before t.
Fresh(v, age, t) == v < Version => born[v + 1] + age > t

\* The cached slot is that of a moment at most its ttl ago.
TipInv ==
  tip # None =>
    /\ tip.at <= time
    /\ tip.at = time \/ time < tip.at + SlotTtl
    /\ "fork" \notin spoilt => tip.slot <= Version /\ Fresh(tip.slot, 0, tip.at - 1)

\* What a layer holds has not expired, and was asked for within the ttl of the
\* layer below it; under a slot there is a version no older than the slot.
Held(l, s, e) ==
  /\ e.at <= e.inserted /\ e.inserted <= time
  /\ e.inserted = time \/ time < e.inserted + ttl[l]
  /\ l = "inner" \/ wrapper # "plain" => e.at = e.inserted
  /\ e.at = e.inserted \/ e.inserted - e.at < ttl["inner"]
  /\ "fork" \notin spoilt /\ wrapper # "kupo" => s <= e.version

StoreInv ==
  \A l \in {"outer", "inner"}, s \in Slots : store[l][s] # None => Held(l, s, store[l][s])

\* The request under way: where it is, and what it has seen so far.
BusyInv ==
  busy # None =>
    /\ asked <= time
    /\ last <= asked
    /\ busy.op = "utxos" <=> busy.step = "query"
    /\ busy.op \in Params => busy.op \in readers
    /\ busy.step = "tip" => Consumes(busy.op) /\ cached[busy.op] # None
    /\ busy.step = "min_utxo" =>
         /\ busy.op = "protocol_param"
         /\ busy.key \in 1..Version /\ Fresh(busy.key, 1, asked)
    /\ busy.step = "query" =>
         /\ busy.key \in Slots
         /\ "fork" \notin spoilt => busy.key <= Version /\ Fresh(busy.key, SlotTtl, asked)

\* Nothing has spoilt the one test of the tip, nor used it for something else.
Undisturbed == spoilt = {} /\ (backend = "v6" => readers \subseteq {"protocol_param"})

\* Then the cached parameters are at least as new as the slot they were fetched
\* for, and were tested, at most the ttl of the slot late, when `last` says.
ParamsInv ==
  /\ last <= time
  /\ Undisturbed =>
       /\ known <= Version
       /\ busy # None /\ busy.step = "min_utxo" => known <= busy.key
       /\ cached["protocol_param"] # None =>
            LET v == cached["protocol_param"].version
            IN  /\ ~(busy # None /\ busy.op = "protocol_param" /\ busy.step # "tip")
                     => known <= v
                /\ ~(busy # None /\ busy.op = "protocol_param")
                     => Fresh(v, SlotTtl, last)

ContextInv ==
  TypeOK /\ WorldInv /\ TipInv /\ StoreInv /\ BusyInv /\ ParamsInv
         /\ UtxosFresh /\ ParamsBounded

-----------------------------------------------------------------------------
(* Types *)

\* The times of arrival are numbers.
LEMMA BornTyped ==
  ASSUME TypeOK
  PROVE  /\ Version \in Nat /\ Version >= 1 /\ Version <= MaxBlocks /\ time \in Nat
         /\ \A i \in 1..Version : born[i] \in Nat
<1>1. Len(born) \in 1..MaxBlocks /\ MaxBlocks \in Nat
  BY BoundAssumption DEF TypeOK
<1>2. Len(born) \in Nat /\ Len(born) >= 1 /\ Len(born) <= MaxBlocks
  BY <1>1
<1> QED BY <1>2 DEF TypeOK, Version

\* The layers of a context are the caches of store.
LEMMA LayerNames ==
  ASSUME TypeOK
  PROVE  /\ Len(Layers) \in {1, 2}
         /\ \A i \in 1..Len(Layers) : Layers[i] \in {"outer", "inner"}
<1>1. CASE wrapper = "none"
  BY <1>1 DEF Layers
<1>2. CASE wrapper = "kupo"
  BY <1>2 DEF Layers
<1>3. CASE wrapper = "plain"
  BY <1>3 DEF Layers
<1> QED BY <1>1, <1>2, <1>3 DEF TypeOK

\* The slot that is used is one of the slots, and so is the one that is cached.
LEMMA LastBlockSlotType ==
  ASSUME TypeOK, NEW s \in Slots, LastBlockSlot(s)
  PROVE  tip' \in [slot : Slots, at : Nat] \cup {None}
BY DEF TypeOK, LastBlockSlot, TipKnown

\* What Fill stores has the type of an entry.
LEMMA FillType ==
  ASSUME TypeOK, NEW s, NEW n \in Nat, NEW v \in Nat, NEW at0 \in Nat,
         Fill(s, n, v, at0)
  PROVE  store' \in [{"outer", "inner"} -> [Slots -> Entries \cup {None}]]
<1>1. [version |-> v, at |-> at0, inserted |-> time] \in Entries
  BY DEF TypeOK, Entries
<1>2. store \in [{"outer", "inner"} -> [Slots -> Entries \cup {None}]]
  BY DEF TypeOK
<1> QED BY <1>1, <1>2 DEF Fill

\* The caches lose entries and gain none when time passes.
LEMMA ExpireType ==
  ASSUME TypeOK, Expire
  PROVE  /\ tip' \in [slot : Slots, at : Nat] \cup {None}
         /\ store' \in [{"outer", "inner"} -> [Slots -> Entries \cup {None}]]
BY DEF TypeOK, Expire

\* What the world does keeps the types.
LEMMA WorldTyped ==
  ASSUME TypeOK, Tick \/ Block \/ Fork \/ Index
  PROVE  TypeOK'
<1> USE DEF setting, world, params, Taken
<1>1. CASE Tick
  BY <1>1, ExpireType DEF Tick, TypeOK, Version
<1>2. CASE Block
  BY <1>2, BoundAssumption DEF Block, TypeOK, Version, Slots
<1>3. CASE Fork
  BY <1>3, BoundAssumption DEF Fork, TypeOK, Version, Slots
<1>4. CASE Index
  BY <1>4 DEF Index, TypeOK, Version
<1> QED BY <1>1, <1>2, <1>3, <1>4

\* A read that begins leaves the types as they are.
LEMMA ReadsTyped ==
  ASSUME TypeOK,
         \/ \E p \in Params : ReadMissing(p) \/ ReadCached(p) \/ ReadTesting(p)
         \/ ReadGenesis \/ ReadSlot
  PROVE  TypeOK'
<1> USE DEF setting, world, params
<1>1. CASE \E p \in Params : ReadMissing(p)
  BY <1>1 DEF ReadMissing, Begin, Ask, TypeOK, Version, Requests, Params
<1>2. CASE \E p \in Params : ReadCached(p)
  BY <1>2 DEF ReadCached, Begin, ReturnCached, Return, TypeOK, Version
<1>3. CASE \E p \in Params : ReadTesting(p)
  BY <1>3 DEF ReadTesting, Begin, NoteTest, Ask, TypeOK, Version, Requests, Params
<1>4. CASE ReadGenesis
  <2>1. tip' \in [slot : Slots, at : Nat] \cup {None}
    BY <1>4, LastBlockSlotType DEF ReadGenesis, TypeOK
  <2> QED BY <1>4, <2>1 DEF ReadGenesis, Begin, Ask, TypeOK, Version, Requests, Params
<1>5. CASE ReadSlot
  <2>1. slot \in Slots
    BY BoundAssumption DEF TypeOK, Slots, Version
  <2>2. tip' \in [slot : Slots, at : Nat] \cup {None}
    BY <1>5, <2>1, LastBlockSlotType DEF ReadSlot
  <2> QED BY <1>5, <2>2 DEF ReadSlot, Taken, TypeOK, Version
<1> QED BY <1>1, <1>2, <1>3, <1>4, <1>5

\* So does every request that ends, however it ends.
LEMMA RequestsTyped ==
  ASSUME TypeOK, TestSlot \/ TestSync \/ Fetch \/ FetchMinUtxo \/ RequestBreaks
  PROVE  TypeOK'
<1> USE DEF setting, world, params
<1>1. CASE TestSlot
  <2>1. PICK s \in Slots : /\ LastBlockSlot(s)
                           /\ \/ Newer(s) /\ Ask(busy.op, "fetch")
                              \/ ReturnCached(busy.op) /\ UNCHANGED known
    BY <1>1 DEF TestSlot
  <2>2. tip' \in [slot : Slots, at : Nat] \cup {None}
    BY <2>1, LastBlockSlotType
  <2>3. known' \in Nat
    BY <2>1, BoundAssumption DEF Newer, TypeOK, Slots
  <2>4. busy' \in Requests \cup {None}
    BY <1>1, <2>1 DEF TestSlot, TypeOK, Requests, Ask, ReturnCached, Return
  <2> QED BY <1>1, <2>2, <2>3, <2>4 DEF TestSlot, TypeOK, Version
<1>2. CASE TestSync
  <2>1. busy' \in Requests \cup {None}
    BY <1>2 DEF TestSync, TypeOK, Requests, Ask, ReturnCached, Return
  <2>2. spoilt' \subseteq {"fork", "failure", "synced"}
    BY <1>2 DEF TestSync, TypeOK
  <2> QED BY <1>2, <2>1, <2>2 DEF TestSync, TypeOK, Version
<1>3. CASE Fetch
  <2>1. busy.op \in Params \cup {"utxos"} /\ busy.step = "fetch" /\ busy # None
    BY <1>3 DEF Fetch, TypeOK, Requests, Params
  <2>2. CASE TwoRequests(busy.op)
    BY <1>3, <2>1, <2>2, BornTyped DEF Fetch, TypeOK, Requests, Version, Params
  <2>3. CASE ~TwoRequests(busy.op)
    <3>1. Fetched(busy.op, Version, time) /\ Version \in Nat /\ time \in Nat
      BY <1>3, <2>3 DEF Fetch, TypeOK, Version
    <3>2. cached' \in [Params -> [version : Nat, at : Nat] \cup {None}]
      BY <3>1 DEF Fetched, TypeOK
    <3>3. interval' \in Nat /\ busy' = None
      BY <3>1, IntervalAssumption DEF Fetched, Return, TypeOK
    <3> QED BY <1>3, <3>2, <3>3 DEF Fetch, TypeOK, Version
  <2> QED BY <2>2, <2>3
<1>4. CASE FetchMinUtxo
  <2>1. Fetched(busy.op, busy.key, time) /\ busy.key \in Nat /\ time \in Nat
    BY <1>4 DEF FetchMinUtxo, TypeOK, Requests
  <2>2. cached' \in [Params -> [version : Nat, at : Nat] \cup {None}]
    BY <2>1 DEF Fetched, TypeOK
  <2>3. interval' \in Nat /\ busy' = None
    BY <2>1, IntervalAssumption DEF Fetched, Return, TypeOK
  <2> QED BY <1>4, <2>2, <2>3 DEF FetchMinUtxo, TypeOK, Version
<1>5. CASE RequestBreaks
  BY <1>5 DEF RequestBreaks, TypeOK, Version
<1> QED BY <1>1, <1>2, <1>3, <1>4, <1>5

\* The fields of an entry are numbers.
LEMMA EntryTyped ==
  ASSUME TypeOK, NEW l \in {"outer", "inner"}, NEW s \in Slots, store[l][s] # None
  PROVE  /\ store[l][s] \in Entries
         /\ store[l][s].version \in Nat /\ store[l][s].at \in Nat
         /\ store[l][s].inserted \in Nat
<1>1. store[l][s] \in Entries
  BY DEF TypeOK
<1> QED BY <1>1 DEF Entries

\* UTxOs come from a layer, or are asked for.
LEMMA UtxosTyped ==
  ASSUME TypeOK, ReadUtxos \/ QueryUtxos
  PROVE  TypeOK'
<1> USE DEF setting, world, params
<1>1. CASE ReadUtxos
  <2>1. PICK s \in Slots :
          /\ LastBlockSlot(s)
          /\ \/ \E i \in 1..Len(Layers) :
                  /\ Valid(Layers[i], s)
                  /\ Fill(s, i - 1, store[Layers[i]][s].version, store[Layers[i]][s].at)
                  /\ busy' = None
             \/ /\ busy' = [op |-> "utxos", step |-> "query", key |-> s]
                /\ UNCHANGED store
    BY <1>1 DEF ReadUtxos, Return
  <2>2. tip' \in [slot : Slots, at : Nat] \cup {None}
    BY <2>1, LastBlockSlotType
  <2>3. store' \in [{"outer", "inner"} -> [Slots -> Entries \cup {None}]]
    <3>1. CASE UNCHANGED store
      BY <3>1 DEF TypeOK
    <3>2. ASSUME NEW i \in 1..Len(Layers), Valid(Layers[i], s),
                 Fill(s, i - 1, store[Layers[i]][s].version, store[Layers[i]][s].at)
          PROVE  store' \in [{"outer", "inner"} -> [Slots -> Entries \cup {None}]]
      <4>1. Layers[i] \in {"outer", "inner"} /\ i - 1 \in Nat
        BY LayerNames
      <4>2. store[Layers[i]][s].version \in Nat /\ store[Layers[i]][s].at \in Nat
        BY <3>2, <4>1, EntryTyped DEF Valid
      <4> QED BY <3>2, <4>1, <4>2, FillType
    <3> QED BY <2>1, <3>1, <3>2
  <2>4. busy' \in Requests \cup {None}
    BY <2>1, BoundAssumption DEF Requests, Params, Slots
  <2> QED BY <1>1, <2>2, <2>3, <2>4 DEF ReadUtxos, TypeOK, Version
<1>2. CASE QueryUtxos
  <2> DEFINE v == IF wrapper = "kupo" THEN indexed ELSE Version
  <2>1. v \in Nat /\ time \in Nat /\ Len(Layers) \in Nat
    BY LayerNames DEF TypeOK, Version
  <2>2. Fill(busy.key, Len(Layers), v, time) /\ busy' = None
    BY <1>2 DEF QueryUtxos, Return
  <2> HIDE DEF v
  <2>3. store' \in [{"outer", "inner"} -> [Slots -> Entries \cup {None}]]
    BY <2>1, <2>2, FillType
  <2> QED BY <1>2, <2>2, <2>3 DEF QueryUtxos, TypeOK, Version
<1> QED BY <1>1, <1>2

\* Every step keeps the types.
LEMMA TypeStep ==
  ASSUME TypeOK, [Next]_vars
  PROVE  TypeOK'
<1>1. CASE Next
  BY <1>1, WorldTyped, ReadsTyped, RequestsTyped, UtxosTyped DEF Next
<1>2. CASE UNCHANGED vars
  <2>1. UNCHANGED <<backend, wrapper, time, born, slot, indexed, interval, last, known,
                    cached, tip, ttl, store, busy, asked, readers, spoilt>>
    BY <1>2 DEF vars, setting, world, client, params
  <2> QED BY <2>1 DEF TypeOK, Version, Slots, Entries, Requests, Params
<1> QED BY <1>1, <1>2

-----------------------------------------------------------------------------
(* The world, and what is fresh in it *)

\* What has spoilt a run stays noted, and blocks arrive at the end.
LEMMA Advances ==
  ASSUME TypeOK, [Next]_vars
  PROVE  /\ spoilt \subseteq spoilt' /\ readers \subseteq readers'
         /\ UNCHANGED <<backend, wrapper, ttl>>
         /\ \/ UNCHANGED <<born, slot>>
            \/ /\ born' = Append(born, time)
               /\ slot' = slot + 1 \/ "fork" \in spoilt'
               /\ UNCHANGED <<time, params, tip, store, busy>>
<1> USE DEF setting, world, params, client
<1>1. CASE Tick \/ Block \/ Fork \/ Index
  BY <1>1 DEF Tick, Block, Fork, Index
<1>2. CASE \E p \in Params : ReadMissing(p) \/ ReadCached(p) \/ ReadTesting(p)
  BY <1>2 DEF ReadMissing, ReadCached, ReadTesting, Begin
<1>3. CASE TestSlot \/ TestSync \/ Fetch \/ FetchMinUtxo \/ RequestBreaks
  BY <1>3 DEF TestSlot, TestSync, Fetch, FetchMinUtxo, RequestBreaks
<1>4. CASE ReadGenesis \/ ReadSlot \/ ReadUtxos \/ QueryUtxos
  BY <1>4 DEF ReadGenesis, Begin, ReadSlot, ReadUtxos, QueryUtxos
<1>5. CASE UNCHANGED vars
  BY <1>5 DEF vars
<1> QED BY <1>1, <1>2, <1>3, <1>4, <1>5 DEF Next

\* Time does not go back.
LEMMA TimeAdvances ==
  ASSUME TypeOK, [Next]_vars
  PROVE  time <= time'
<1> USE DEF setting, world, params, client, TypeOK
<1>1. CASE Tick \/ Block \/ Fork \/ Index
  BY <1>1 DEF Tick, Block, Fork, Index
<1>2. CASE \E p \in Params : ReadMissing(p) \/ ReadCached(p) \/ ReadTesting(p)
  BY <1>2 DEF ReadMissing, ReadCached, ReadTesting
<1>3. CASE TestSlot \/ TestSync \/ Fetch \/ FetchMinUtxo \/ RequestBreaks
  BY <1>3 DEF TestSlot, TestSync, Fetch, FetchMinUtxo, RequestBreaks
<1>4. CASE ReadGenesis \/ ReadSlot \/ ReadUtxos \/ QueryUtxos
  BY <1>4 DEF ReadGenesis, ReadSlot, ReadUtxos, QueryUtxos
<1>5. CASE UNCHANGED vars
  BY <1>5 DEF vars
<1> QED BY <1>1, <1>2, <1>3, <1>4, <1>5 DEF Next

\* A version stays fresh when a block arrives late enough.
LEMMA FreshKept ==
  ASSUME TypeOK, NEW v \in Nat, NEW age \in Nat, NEW t \in Int,
         Fresh(v, age, t), time + age > t,
         UNCHANGED born \/ born' = Append(born, time)
  PROVE  Fresh(v, age, t)'
<1>1. CASE UNCHANGED born
  BY <1>1 DEF Fresh, Version
<1>2. CASE born' = Append(born, time)
  <2>1. Len(born') = Len(born) + 1 /\ born'[Len(born) + 1] = time
        /\ \A i \in 1..Len(born) : born'[i] = born[i]
    BY <1>2 DEF TypeOK
  <2>2. Len(born) \in Nat /\ time \in Nat /\ \A i \in 1..Len(born) : born[i] \in Nat
    BY BornTyped DEF Version
  <2> QED BY <2>1, <2>2 DEF Fresh, Version
<1> QED BY <1>1, <1>2

\* What is not older than a fresh version is fresh.
LEMMA FreshLater ==
  ASSUME TypeOK, WorldInv, NEW s \in Nat, NEW v \in Nat, s <= v,
         NEW age \in Nat, NEW t \in Int, Fresh(s, age, t)
  PROVE  Fresh(v, age, t)
<1> SUFFICES ASSUME v < Version PROVE born[v + 1] + age > t
  BY DEF Fresh
<1>1. Version \in Nat /\ \A i \in 1..Version : born[i] \in Nat
  BY BornTyped
<1>2. s + 1 \in 1..Version /\ v + 1 \in 1..Version /\ s + 1 <= v + 1 /\ s < Version
  BY <1>1
<1>3. born[s + 1] <= born[v + 1]
  BY <1>2 DEF WorldInv
<1> QED BY <1>1, <1>2, <1>3 DEF Fresh

\* The order of arrivals is kept.
LEMMA WorldStep ==
  ASSUME TypeOK, WorldInv, [Next]_vars
  PROVE  WorldInv'
<1>1. time <= time' /\ time \in Nat /\ time' \in Nat
  BY TimeAdvances, TypeStep DEF TypeOK
<1>2. spoilt \subseteq spoilt'
  BY Advances
<1>3. CASE UNCHANGED <<born, slot>>
  <2>1. \A i \in 1..Version : born[i] \in Nat
    BY BornTyped
  <2> QED BY <1>1, <1>2, <1>3, <2>1 DEF WorldInv, Version
<1>4. CASE /\ born' = Append(born, time) /\ UNCHANGED time
           /\ slot' = slot + 1 \/ "fork" \in spoilt'
  <2>1. /\ Len(born) \in Nat /\ Len(born') = Len(born) + 1
        /\ born'[Len(born) + 1] = time
        /\ \A i \in 1..Len(born) : born'[i] = born[i]
    BY <1>4 DEF TypeOK
  <2>2. \A i, j \in 1..Len(born') : i <= j => born'[i] <= born'[j]
    BY <1>1, <2>1 DEF WorldInv, Version
  <2>3. \A i \in 1..Len(born') : born'[i] <= time'
    BY <1>1, <1>4, <2>1 DEF WorldInv, Version
  <2>4. "fork" \notin spoilt' => slot' = Len(born')
    BY <1>2, <1>4, <2>1 DEF WorldInv, Version
  <2> QED BY <2>2, <2>3, <2>4 DEF WorldInv, Version
<1> QED BY <1>3, <1>4, Advances

-----------------------------------------------------------------------------
(* The slot that is cached *)

\* The slot a read uses is at most its ttl old (ogmios_v6.py:126-149), and what
\* is cached then still is.
LEMMA LastBlockSlotFresh ==
  ASSUME TypeOK, WorldInv, TipInv, NEW s \in Slots, LastBlockSlot(s),
         UNCHANGED <<time, born>>, spoilt \subseteq spoilt'
  PROVE  /\ TipInv'
         /\ "fork" \notin spoilt => s <= Version /\ Fresh(s, SlotTtl, time)
<1>1. Version \in Nat /\ time \in Nat /\ (\A i \in 1..Version : born[i] \in Nat) /\ s \in Nat
  BY BornTyped DEF Slots
<1>2. SlotTtl \in Nat \ {0}
  BY IntervalAssumption
<1>3. CASE TipKnown /\ s = tip.slot /\ UNCHANGED tip
  <2>1. tip # None /\ tip.at \in Nat /\ tip.slot = s
    BY <1>3 DEF TypeOK, TipKnown
  <2>2. /\ tip.at <= time
        /\ tip.at = time \/ time < tip.at + SlotTtl
        /\ "fork" \notin spoilt => s <= Version /\ Fresh(s, 0, tip.at - 1)
    BY <2>1 DEF TipInv
  <2>3. TipInv'
    BY <1>3, <2>1, <2>2 DEF TipInv, Fresh, Version
  <2>4. ASSUME "fork" \notin spoilt, s < Version
        PROVE  born[s + 1] + SlotTtl > time
    <3>1. born[s + 1] \in Nat /\ born[s + 1] + 0 > tip.at - 1
      BY <1>1, <2>2, <2>4 DEF Fresh
    <3> QED BY <1>1, <1>2, <2>1, <2>2, <3>1
  <2> QED BY <2>2, <2>3, <2>4 DEF Fresh
<1>4. CASE s = slot /\ tip' = [slot |-> slot, at |-> time]
  <2>1. "fork" \notin spoilt => s = Version
    BY <1>4 DEF WorldInv
  <2>2. TipInv'
    BY <1>1, <1>4, <2>1 DEF TipInv, Fresh, Version
  <2> QED BY <1>1, <2>1, <2>2 DEF Fresh
<1> QED BY <1>3, <1>4 DEF LastBlockSlot

LEMMA TipStep ==
  ASSUME TypeOK, WorldInv, TipInv, [Next]_vars
  PROVE  TipInv'
<1> USE DEF setting, world, params, client
<1>1. spoilt \subseteq spoilt' /\ time \in Nat /\ time' \in Nat
  BY Advances, TypeStep DEF TypeOK
<1>2. CASE UNCHANGED <<tip, time, born>>
  BY <1>1, <1>2 DEF TipInv, Fresh, Version
<1>3. CASE Tick
  <2>1. CASE tip' = None
    BY <2>1 DEF TipInv
  <2>2. CASE UNCHANGED tip /\ time' < tip.at + SlotTtl /\ tip # None
    <3>1. tip.at \in Nat /\ SlotTtl \in Nat /\ time' = time + 1 /\ UNCHANGED <<born, spoilt>>
      BY <1>3, <2>2, IntervalAssumption DEF Tick, TypeOK
    <3> QED BY <1>1, <2>2, <3>1 DEF TipInv, Fresh, Version
  <2> QED BY <1>3, <2>1, <2>2 DEF Tick, Expire
<1>4. CASE Block \/ Fork
  <2> SUFFICES ASSUME tip # None
               PROVE  /\ tip.at <= time
                      /\ tip.at = time \/ time < tip.at + SlotTtl
                      /\ "fork" \notin spoilt' =>
                           tip.slot <= Len(born') /\ Fresh(tip.slot, 0, tip.at - 1)'
    BY <1>4 DEF Block, Fork, TipInv, Fresh, Version
  <2>1. tip.at \in Nat /\ tip.slot \in Nat /\ tip.at <= time
    BY DEF TypeOK, Slots, TipInv
  <2>2. Len(born) \in Nat /\ Len(born') = Len(born) + 1 /\ born' = Append(born, time) /\ UNCHANGED tip
    BY <1>4 DEF Block, Fork, TypeOK
  <2>3. ASSUME "fork" \notin spoilt'
        PROVE  tip.slot <= Len(born) /\ Fresh(tip.slot, 0, tip.at - 1)
    BY <1>1, <2>3 DEF TipInv, Version
  <2>4. ASSUME "fork" \notin spoilt'
        PROVE  Fresh(tip.slot, 0, tip.at - 1)'
    <3> DEFINE t == tip.at - 1
               v == tip.slot
    <3>1. v \in Nat /\ t \in Int /\ Fresh(v, 0, t) /\ time + 0 > t
      BY <1>1, <2>1, <2>3, <2>4
    <3> HIDE DEF t, v
    <3>2. v < Len(born') => born'[v + 1] + 0 > t
      BY <2>2, <3>1, FreshKept DEF Fresh, Version
    <3> QED BY <2>2, <3>2 DEF t, v, Fresh, Version
  <2> QED BY <2>1, <2>2, <2>3, <2>4 DEF TipInv
<1>5. CASE TestSlot
  BY <1>1, <1>5, LastBlockSlotFresh DEF TestSlot
<1>6. CASE ReadGenesis
  <2>1. UNCHANGED <<time, born>> /\ (UNCHANGED tip \/ \E s \in Slots : LastBlockSlot(s))
    BY <1>6 DEF ReadGenesis
  <2> QED BY <1>1, <1>2, <2>1, LastBlockSlotFresh
<1>7. CASE ReadSlot
  <2>1. UNCHANGED <<time, born>> /\ LastBlockSlot(slot) /\ slot \in Slots
    BY <1>7, BoundAssumption DEF ReadSlot, TypeOK, Slots, Version
  <2> QED BY <1>1, <2>1, LastBlockSlotFresh
<1>8. CASE ReadUtxos
  <2>1. UNCHANGED <<time, born>> /\ (\E s \in Slots : LastBlockSlot(s))
    BY <1>8 DEF ReadUtxos
  <2> QED BY <1>1, <2>1, LastBlockSlotFresh
<1>9. CASE \/ Index \/ UNCHANGED vars
           \/ \E p \in Params : ReadMissing(p) \/ ReadCached(p) \/ ReadTesting(p)
           \/ TestSync \/ Fetch \/ FetchMinUtxo \/ QueryUtxos \/ RequestBreaks
  BY <1>2, <1>9 DEF Index, vars, ReadMissing, ReadCached, ReadTesting, TestSync, Fetch,
                    FetchMinUtxo, QueryUtxos, RequestBreaks
<1> QED BY <1>3, <1>4, <1>5, <1>6, <1>7, <1>8, <1>9 DEF Next

-----------------------------------------------------------------------------
(* The UTxO caches *)

\* Filling layers with an answer that is good for them keeps the caches good.
LEMMA FillHeld ==
  ASSUME TypeOK, StoreInv, NEW s \in Slots, NEW n \in Nat, NEW v \in Nat, NEW at0 \in Nat,
         Fill(s, n, v, at0), UNCHANGED <<time, ttl, wrapper, spoilt>>,
         at0 <= time,
         at0 = time \/ time - at0 < ttl["inner"],
         \A i \in 1..n : Layers[i] = "inner" \/ wrapper # "plain" => at0 = time,
         "fork" \notin spoilt /\ wrapper # "kupo" => s <= v
  PROVE  StoreInv'
<1> SUFFICES ASSUME NEW l \in {"outer", "inner"}, NEW k \in Slots, store'[l][k] # None
             PROVE  Held(l, k, store[l][k])'
  BY DEF StoreInv
<1> DEFINE e == [version |-> v, at |-> at0, inserted |-> time]
<1>1. e.version = v /\ e.at = at0 /\ e.inserted = time
  OBVIOUS
<1> HIDE DEF e
<1>2. store'[l][k] = IF k = s /\ \E i \in 1..n : Layers[i] = l THEN e ELSE store[l][k]
  BY DEF Fill, e, TypeOK
<1>3. CASE k = s /\ \E i \in 1..n : Layers[i] = l
  BY <1>1, <1>2, <1>3 DEF Held, TypeOK
<1>4. CASE ~(k = s /\ \E i \in 1..n : Layers[i] = l)
  <2>1. store'[l][k] = store[l][k]
    BY <1>2, <1>4
  <2>2. Held(l, k, store[l][k])
    BY <2>1 DEF StoreInv
  <2> QED BY <2>1, <2>2 DEF Held
<1> QED BY <1>3, <1>4

\* A layer that answers is the only one, or one of the two of a plain wrapper,
\* and only the layers before it are filled.
LEMMA LayersBefore ==
  ASSUME TypeOK, NEW i \in 1..Len(Layers), NEW j \in 1..(i - 1)
  PROVE  i = 2 /\ j = 1 /\ wrapper = "plain" /\ Layers[1] = "outer" /\ Layers[2] = "inner"
<1>1. i \in {1, 2} /\ i - 1 >= 1 /\ i \in Int
  BY LayerNames
<1>2. i = 2 /\ j = 1 /\ Len(Layers) = 2
  BY <1>1, LayerNames
<1>3. wrapper = "plain"
  BY <1>2 DEF Layers, TypeOK
<1> QED BY <1>2, <1>3 DEF Layers

LEMMA StoreStep ==
  ASSUME TypeOK, WorldInv, StoreInv, BusyInv, [Next]_vars
  PROVE  StoreInv'
<1> USE DEF setting, world, params, client
<1>1. spoilt \subseteq spoilt' /\ UNCHANGED <<ttl, wrapper>>
  BY Advances
<1>2. CASE UNCHANGED <<store, time>>
  BY <1>1, <1>2 DEF StoreInv, Held
<1>3. CASE Tick
  <2> SUFFICES ASSUME NEW l \in {"outer", "inner"}, NEW s \in Slots, store'[l][s] # None
               PROVE  Held(l, s, store[l][s])'
    BY DEF StoreInv
  <2>1. /\ store'[l][s] = store[l][s] /\ store[l][s] # None
        /\ time' < store[l][s].inserted + ttl[l]
    BY <1>3 DEF Tick, Expire, TypeOK
  <2>2. /\ Held(l, s, store[l][s]) /\ time' = time + 1 /\ UNCHANGED spoilt
        /\ time \in Nat
    BY <1>3, <2>1 DEF StoreInv, Tick, TypeOK
  <2>3. store[l][s].inserted \in Nat
    BY <2>1, EntryTyped
  <2> QED BY <1>1, <2>1, <2>2, <2>3 DEF Held
<1>4. CASE ReadUtxos
  <2>1. PICK s \in Slots :
          \/ \E i \in 1..Len(Layers) :
               /\ Valid(Layers[i], s)
               /\ Fill(s, i - 1, store[Layers[i]][s].version, store[Layers[i]][s].at)
          \/ UNCHANGED store
    BY <1>4 DEF ReadUtxos
  <2>2. UNCHANGED <<time, spoilt>>
    BY <1>4 DEF ReadUtxos
  <2>3. ASSUME NEW i \in 1..Len(Layers), Valid(Layers[i], s),
               Fill(s, i - 1, store[Layers[i]][s].version, store[Layers[i]][s].at)
        PROVE  StoreInv'
    <3> DEFINE e == store[Layers[i]][s]
    <3>1. Layers[i] \in {"outer", "inner"} /\ i - 1 \in Nat
      BY LayerNames
    <3>2. e \in Entries /\ e.version \in Nat /\ e.at \in Nat /\ e.inserted \in Nat
          /\ Held(Layers[i], s, e)
      BY <2>3, <3>1, EntryTyped DEF Valid, StoreInv
    <3>3. time \in Nat /\ ttl["inner"] \in Nat
      BY DEF TypeOK
    <3> HIDE DEF e
    <3>4. CASE i = 1
      <4>1. \A j \in 1..(i - 1) : FALSE
        BY <3>4
      <4>2. store' = store
        BY <2>3, <4>1 DEF Fill, TypeOK
      <4> QED BY <1>2, <2>2, <4>2
    <3>5. CASE i # 1
      <4>1. i = 2 /\ wrapper = "plain" /\ Layers[1] = "outer" /\ Layers[2] = "inner"
        BY <3>1, <3>5, LayersBefore
      <4>2. e.at = e.inserted /\ e.at <= time /\ (e.at = time \/ time < e.at + ttl["inner"])
            /\ ("fork" \notin spoilt => s <= e.version)
        BY <3>2, <4>1 DEF Held
      <4>3. \A j \in 1..1 : Layers[j] = "inner" \/ wrapper # "plain" => e.at = time
        BY <4>1
      <4>4. Fill(s, 1, e.version, e.at)
        BY <2>3, <4>1 DEF e
      <4>5. e.at = time \/ time - e.at < ttl["inner"]
        BY <3>2, <3>3, <4>2
      <4> QED BY <1>1, <2>2, <3>2, <4>2, <4>3, <4>4, <4>5, FillHeld
    <3> QED BY <3>4, <3>5
  <2> QED BY <1>2, <2>1, <2>2, <2>3
<1>5. CASE QueryUtxos
  <2> DEFINE v == IF wrapper = "kupo" THEN indexed ELSE Version
  <2>1. Fill(busy.key, Len(Layers), v, time) /\ UNCHANGED <<time, spoilt>>
        /\ busy # None /\ busy.step = "query"
    BY <1>5 DEF QueryUtxos
  <2>2. v \in Nat /\ time \in Nat /\ Len(Layers) \in Nat
    BY LayerNames DEF TypeOK, Version
  <2>3. busy.key \in Slots /\ ("fork" \notin spoilt /\ wrapper # "kupo" => busy.key <= v)
    BY <2>1 DEF BusyInv
  <2> HIDE DEF v
  <2> QED BY <1>1, <2>1, <2>2, <2>3, FillHeld
<1>6. CASE \/ Block \/ Fork \/ Index \/ UNCHANGED vars
           \/ \E p \in Params : ReadMissing(p) \/ ReadCached(p) \/ ReadTesting(p)
           \/ TestSlot \/ TestSync \/ Fetch \/ FetchMinUtxo \/ ReadGenesis \/ ReadSlot
           \/ RequestBreaks
  BY <1>2, <1>6 DEF Block, Fork, Index, vars, ReadMissing, ReadCached, ReadTesting,
                    TestSlot, TestSync, Fetch, FetchMinUtxo, ReadGenesis, ReadSlot,
                    RequestBreaks
<1> QED BY <1>3, <1>4, <1>5, <1>6 DEF Next

-----------------------------------------------------------------------------
(* The request under way *)

\* A request that goes on while the world moves has seen what it has seen.
LEMMA BusyKept ==
  ASSUME TypeOK, BusyInv,
         UNCHANGED <<busy, last, cached, readers, backend>>, spoilt \subseteq spoilt',
         busy # None => UNCHANGED asked, time <= time', time' \in Nat,
         UNCHANGED born \/ born' = Append(born, time)
  PROVE  BusyInv'
<1> SUFFICES ASSUME busy # None PROVE BusyInv'
  BY DEF BusyInv
<1>1. asked \in Nat /\ time \in Nat /\ busy.key \in Nat /\ asked' = asked
      /\ SlotTtl \in Nat \ {0} /\ asked <= time
  BY IntervalAssumption DEF TypeOK, BusyInv, Requests
<1>2. Len(born) \in Nat /\ Len(born') >= Len(born) /\ Len(born') \in Nat
  BY DEF TypeOK
<1>3. busy.step = "min_utxo" =>
        busy.key \in 1..Len(born') /\ (busy.key < Len(born') => born'[busy.key + 1] + 1 > asked)
  <2> SUFFICES ASSUME busy.step = "min_utxo"
               PROVE  /\ busy.key \in 1..Len(born')
                      /\ busy.key < Len(born') => born'[busy.key + 1] + 1 > asked
    OBVIOUS
  <2>1. busy.key \in 1..Len(born) /\ Fresh(busy.key, 1, asked) /\ time + 1 > asked
    BY <1>1 DEF BusyInv, Version
  <2>2. Fresh(busy.key, 1, asked)'
    BY <1>1, <2>1, FreshKept
  <2> QED BY <1>1, <1>2, <2>1, <2>2 DEF Fresh, Version
<1>4. busy.step = "query" /\ "fork" \notin spoilt' =>
        busy.key <= Len(born')
        /\ (busy.key < Len(born') => born'[busy.key + 1] + SlotTtl > asked)
  <2> SUFFICES ASSUME busy.step = "query", "fork" \notin spoilt'
               PROVE  /\ busy.key <= Len(born')
                      /\ busy.key < Len(born') => born'[busy.key + 1] + SlotTtl > asked
    OBVIOUS
  <2>1. busy.key <= Len(born) /\ Fresh(busy.key, SlotTtl, asked) /\ time + SlotTtl > asked
    BY <1>1 DEF BusyInv, Version
  <2>2. Fresh(busy.key, SlotTtl, asked)'
    BY <1>1, <2>1, FreshKept
  <2> QED BY <1>1, <1>2, <2>1, <2>2 DEF Fresh, Version
<1> QED BY <1>1, <1>3, <1>4 DEF BusyInv, Fresh, Version, Consumes

LEMMA BusyStep ==
  ASSUME TypeOK, WorldInv, TipInv, BusyInv, last <= time, [Next]_vars
  PROVE  BusyInv'
<1> USE DEF setting, world, params, client
<1>1. spoilt \subseteq spoilt' /\ UNCHANGED backend /\ time <= time' /\ time' \in Nat
      /\ (UNCHANGED born \/ born' = Append(born, time))
  BY Advances, TimeAdvances, TypeStep DEF TypeOK
<1>2. CASE busy' = None
  BY <1>2 DEF BusyInv
<1>3. CASE Tick \/ Block \/ Fork \/ Index
  <2>1. UNCHANGED <<busy, last, cached, readers>> /\ (busy # None => UNCHANGED asked)
    BY <1>3 DEF Tick, Block, Fork, Index, Taken
  <2> QED BY <1>1, <2>1, BusyKept
<1>4. CASE UNCHANGED vars
  <2>1. UNCHANGED <<busy, last, cached, readers, asked>>
    BY <1>4 DEF vars
  <2> QED BY <1>1, <2>1, BusyKept
<1>5. ASSUME NEW p \in Params, ReadMissing(p) \/ ReadTesting(p)
      PROVE  BusyInv'
  <2>1. /\ busy' \in {[op |-> p, step |-> "fetch", key |-> 0], [op |-> p, step |-> "tip", key |-> 0]}
        /\ busy'.step = "tip" => cached[p] # None
        /\ asked' = time /\ last' <= time /\ p \in readers' /\ Consumes(p)
        /\ UNCHANGED <<cached, time, backend>> /\ time \in Nat
    BY <1>5 DEF ReadMissing, ReadTesting, Begin, Ask, NoteTest, TypeOK
  <2> QED BY <2>1 DEF BusyInv, Params, Consumes
<1>6. CASE \E p \in Params : ReadCached(p)
  BY <1>2, <1>6 DEF ReadCached, ReturnCached, Return
<1>7. CASE TestSlot \/ TestSync
  <2>1. /\ busy # None /\ busy.step = "tip"
        /\ UNCHANGED <<last, time, asked, readers>>
        /\ busy' = [op |-> busy.op, step |-> "fetch", key |-> 0] \/ busy' = None
    BY <1>7 DEF TestSlot, TestSync, Ask, ReturnCached, Return
  <2>2. CASE busy' = [op |-> busy.op, step |-> "fetch", key |-> 0]
    BY <2>1, <2>2 DEF BusyInv
  <2> QED BY <1>2, <2>1, <2>2
<1>8. CASE Fetch
  <2>1. CASE TwoRequests(busy.op)
    <3>1. /\ busy # None /\ busy.op = "protocol_param"
          /\ busy' = [op |-> busy.op, step |-> "min_utxo", key |-> Version]
          /\ UNCHANGED <<last, time, asked, readers, born>>
      BY <1>8, <2>1 DEF Fetch, TwoRequests
    <3>2. Version \in Nat /\ Version >= 1
      BY BornTyped
    <3> QED BY <3>1, <3>2 DEF BusyInv, Fresh, Version
  <2>2. CASE ~TwoRequests(busy.op)
    BY <1>2, <1>8, <2>2 DEF Fetch, Fetched, Return
  <2> QED BY <2>1, <2>2
<1>9. CASE ReadGenesis
  <2>1. /\ busy' = [op |-> "genesis_param", step |-> "fetch", key |-> 0]
        /\ asked' = time /\ "genesis_param" \in readers'
        /\ UNCHANGED <<time, last>> /\ time \in Nat
    BY <1>9 DEF ReadGenesis, Begin, Ask, TypeOK
  <2> QED BY <2>1 DEF BusyInv
<1>10. CASE ReadUtxos
  <2>1. PICK s \in Slots :
          /\ LastBlockSlot(s)
          /\ busy' = None \/ busy' = [op |-> "utxos", step |-> "query", key |-> s]
    BY <1>10 DEF ReadUtxos, Return
  <2>2. UNCHANGED <<time, born, spoilt, last>> /\ asked' = time /\ time \in Nat
    BY <1>10 DEF ReadUtxos, TypeOK
  <2>3. "fork" \notin spoilt => s <= Version /\ Fresh(s, SlotTtl, time)
    BY <1>1, <2>1, <2>2, LastBlockSlotFresh
  <2>4. CASE busy' = [op |-> "utxos", step |-> "query", key |-> s]
    BY <2>2, <2>3, <2>4 DEF BusyInv, Params, Fresh, Version
  <2> QED BY <1>2, <2>1, <2>4
<1>11. CASE FetchMinUtxo \/ ReadSlot \/ QueryUtxos \/ RequestBreaks
  BY <1>2, <1>11 DEF FetchMinUtxo, Fetched, ReadSlot, QueryUtxos, Return, RequestBreaks
<1> QED BY <1>3, <1>4, <1>5, <1>6, <1>7, <1>8, <1>9, <1>10, <1>11 DEF Next

-----------------------------------------------------------------------------
(* The parameters *)

\* A request is not the absence of one.
LEMMA Asked ==
  ASSUME NEW op \in Params \cup {"utxos"}, NEW step \in {"fetch", "tip", "min_utxo", "query"},
         NEW key \in Nat
  PROVE  [op |-> op, step |-> step, key |-> key] # None
BY NoneAssumption DEF Requests, Params

\* Only the protocol parameters look at the tip as long as nothing disturbs them.
LEMMA OneReader ==
  ASSUME TypeOK, BusyInv, Undisturbed, busy # None, busy.op \in Params, Consumes(busy.op)
  PROVE  busy.op = "protocol_param"
BY DEF BusyInv, Undisturbed, Consumes, Params, TypeOK

\* What the contexts keep about the parameters stays true while the world moves
\* or a request goes from one step to another that promises no more.
LEMMA ParamsKept ==
  ASSUME TypeOK, ParamsInv, UNCHANGED <<last, known, cached>>, Undisturbed' => Undisturbed,
         time <= time', time' \in Nat,
         UNCHANGED born \/ born' = Append(born, time),
         \/ UNCHANGED busy
         \/ /\ busy' # None => busy'.op # "protocol_param" /\ busy'.step # "min_utxo"
            /\ busy # None => busy.op # "protocol_param"
  PROVE  ParamsInv'
<1>1. Len(born) \in Nat /\ Len(born') >= Len(born) /\ Len(born') \in Nat
  BY DEF TypeOK
<1>2. last' <= time'
  BY DEF TypeOK, ParamsInv
<1> SUFFICES ASSUME Undisturbed, Undisturbed'
             PROVE  /\ known' <= Len(born')
                    /\ busy' # None /\ busy'.step = "min_utxo" => known' <= busy'.key
                    /\ cached'["protocol_param"] # None =>
                         LET v == cached'["protocol_param"].version
                         IN  /\ ~(busy' # None /\ busy'.op = "protocol_param" /\ busy'.step # "tip")
                                  => known' <= v
                             /\ ~(busy' # None /\ busy'.op = "protocol_param") /\ v < Len(born')
                                  => born'[v + 1] + SlotTtl > last'
  BY <1>2 DEF ParamsInv, Fresh, Version
<1>3. known' <= Len(born')
  BY <1>1 DEF ParamsInv, Version, TypeOK
<1>4. busy' # None /\ busy'.step = "min_utxo" => known' <= busy'.key
  BY DEF ParamsInv
<1>5. ASSUME cached["protocol_param"] # None
      PROVE  /\ ~(busy' # None /\ busy'.op = "protocol_param" /\ busy'.step # "tip")
                  => known <= cached["protocol_param"].version
             /\ ~(busy' # None /\ busy'.op = "protocol_param")
                  => Fresh(cached["protocol_param"].version, SlotTtl, last)'
  <2>1. ~(busy' # None /\ busy'.op = "protocol_param" /\ busy'.step # "tip")
          => known <= cached["protocol_param"].version
    BY <1>5 DEF ParamsInv
  <2>2. ASSUME ~(busy' # None /\ busy'.op = "protocol_param")
        PROVE  Fresh(cached["protocol_param"].version, SlotTtl, last)'
    <3> DEFINE v == cached["protocol_param"].version
    <3>1. Fresh(v, SlotTtl, last)
      BY <1>5, <2>2 DEF ParamsInv
    <3>2. v \in Nat /\ last \in Nat /\ time \in Nat /\ SlotTtl \in Nat \ {0} /\ last <= time
      BY <1>5, IntervalAssumption DEF TypeOK, Params, ParamsInv
    <3>3. time + SlotTtl > last
      BY <3>2
    <3>4. v' = v
      OBVIOUS
    <3> HIDE DEF v
    <3>5. v < Len(born') => born'[v + 1] + SlotTtl > last
      BY <3>1, <3>2, <3>3, FreshKept DEF Fresh, Version
    <3> QED BY <3>4, <3>5 DEF Fresh, Version, v
  <2> QED BY <2>1, <2>2
<1> QED BY <1>3, <1>4, <1>5 DEF Fresh, Version

LEMMA ParamsStep ==
  ASSUME TypeOK, WorldInv, TipInv, BusyInv, ParamsInv, [Next]_vars
  PROVE  ParamsInv'
<1> USE DEF setting, world, params, client
<1>1. /\ spoilt \subseteq spoilt' /\ readers \subseteq readers' /\ UNCHANGED backend
      /\ time <= time' /\ time' \in Nat /\ time \in Nat
      /\ UNCHANGED born \/ born' = Append(born, time)
  BY Advances, TimeAdvances, TypeStep DEF TypeOK
<1>2. Undisturbed' => Undisturbed
  BY <1>1 DEF Undisturbed
<1>3. /\ last <= time /\ last \in Nat /\ known \in Nat /\ SlotTtl \in Nat \ {0} /\ Version \in Nat
      /\ "protocol_param" \in Params
  BY IntervalAssumption, BornTyped DEF TypeOK, ParamsInv, Params
<1>4. CASE Tick \/ Block \/ Fork \/ Index \/ UNCHANGED vars
  <2>1. UNCHANGED <<last, known, cached, busy>>
    BY <1>4 DEF Tick, Block, Fork, Index, vars
  <2> QED BY <1>1, <1>2, <2>1, ParamsKept
<1>5. CASE ReadSlot \/ ReadUtxos \/ QueryUtxos \/ ReadGenesis
  <2>1. UNCHANGED <<last, known, cached>>
    BY <1>5 DEF ReadSlot, ReadUtxos, QueryUtxos, ReadGenesis
  <2>2. /\ busy # None => busy.op # "protocol_param"
        /\ busy' = busy \/ (busy' # None => busy'.op # "protocol_param" /\ busy'.step # "min_utxo")
    BY <1>5 DEF ReadSlot, ReadUtxos, QueryUtxos, ReadGenesis, Begin, Ask, Return, BusyInv
  <2> QED BY <1>1, <1>2, <2>1, <2>2, ParamsKept
<1>6. CASE \E p \in Params : ReadCached(p)
  <2>1. UNCHANGED <<last, known, cached>> /\ busy = None /\ busy' = None
    BY <1>6 DEF ReadCached, Begin, ReturnCached, Return
  <2> QED BY <1>1, <1>2, <2>1, ParamsKept
<1>7. CASE RequestBreaks
  <2>1. ~Undisturbed' /\ UNCHANGED <<last, time>>
    BY <1>7 DEF RequestBreaks, Undisturbed
  <2> QED BY <1>3, <2>1 DEF ParamsInv
<1>8. ASSUME NEW p \in Params, ReadMissing(p)
      PROVE  ParamsInv'
  <2>1. UNCHANGED <<last, known, cached, time, born>> /\ p \in readers' /\ Consumes(p)
        /\ cached[p] = None /\ busy' = [op |-> p, step |-> "fetch", key |-> 0]
    BY <1>8 DEF ReadMissing, Begin, Ask
  <2>2. Undisturbed' => p = "protocol_param"
    BY <1>1, <2>1 DEF Undisturbed, Consumes, Params, TypeOK
  <2> QED BY <1>2, <1>3, <2>1, <2>2 DEF ParamsInv, Version
<1>9. ASSUME NEW p \in Params, ReadTesting(p)
      PROVE  ParamsInv'
  <2>1. UNCHANGED <<known, cached, time, born>> /\ last' = time /\ p \in readers' /\ Consumes(p)
        /\ busy = None /\ busy' = [op |-> p, step |-> "tip", key |-> 0]
    BY <1>9 DEF ReadTesting, Begin, NoteTest, Ask
  <2>2. Undisturbed' => p = "protocol_param"
    BY <1>1, <2>1 DEF Undisturbed, Consumes, Params, TypeOK
  <2>3. busy' # None
    BY <2>1, Asked
  <2>4. last' <= time'
    BY <1>1, <2>1
  <2> SUFFICES ASSUME Undisturbed' PROVE ParamsInv'
    BY <2>4 DEF ParamsInv
  <2>5. Undisturbed /\ busy'.op = "protocol_param" /\ busy'.step = "tip"
    BY <1>2, <2>1, <2>2
  <2>6. /\ known' <= Len(born')
        /\ cached["protocol_param"] # None => known <= cached["protocol_param"].version
    BY <2>1, <2>5 DEF ParamsInv, Version
  <2> QED BY <2>1, <2>3, <2>4, <2>5, <2>6 DEF ParamsInv, Version
<1>10. CASE TestSync
  <2>1. /\ busy # None /\ UNCHANGED <<last, known, cached, time, born>> /\ busy.step = "tip"
        /\ ~Undisturbed' \/ busy' = [op |-> busy.op, step |-> "fetch", key |-> 0]
    BY <1>10 DEF TestSync, Ask, Undisturbed
  <2>2. Undisturbed' => busy.op = "protocol_param"
    BY <1>2, <2>1, OneReader DEF BusyInv, TypeOK, Requests, Params
  <2>3. ~Undisturbed' \/ busy' # None
    BY <2>1, <2>2, Asked DEF Params
  <2> QED BY <1>2, <1>3, <2>1, <2>2, <2>3 DEF ParamsInv, Version
<1>11. CASE TestSlot
  <2>1. PICK s \in Slots :
          /\ LastBlockSlot(s)
          /\ \/ Newer(s) /\ busy' = [op |-> busy.op, step |-> "fetch", key |-> 0]
             \/ ~(known < s) /\ busy' = None /\ UNCHANGED known
    BY <1>11 DEF TestSlot, Ask, ReturnCached, Return
  <2>2. busy # None /\ busy.step = "tip" /\ UNCHANGED <<last, cached, time, born>>
    BY <1>11 DEF TestSlot
  <2> SUFFICES ASSUME Undisturbed' PROVE ParamsInv'
    BY <1>3, <2>2 DEF ParamsInv
  <2>3. Undisturbed /\ "fork" \notin spoilt /\ busy.op = "protocol_param"
    BY <1>2, <2>2, OneReader DEF BusyInv, Undisturbed, TypeOK, Requests, Params
  <2>4. s <= Version /\ Fresh(s, SlotTtl, time) /\ s \in Nat
    BY <1>1, <2>1, <2>2, <2>3, LastBlockSlotFresh DEF Slots
  <2>5. CASE Newer(s) /\ busy' = [op |-> busy.op, step |-> "fetch", key |-> 0]
    <3>1. busy' # None
      BY <2>3, <2>5, Asked DEF Params
    <3> QED BY <1>3, <2>2, <2>3, <2>4, <2>5, <3>1 DEF ParamsInv, Newer, Version
  <2>6. CASE ~(known < s) /\ busy' = None /\ UNCHANGED known
    <3> DEFINE v == cached["protocol_param"].version
    <3>1. ASSUME cached["protocol_param"] # None
          PROVE  known <= v /\ Fresh(v, SlotTtl, last)
      <4>1. v \in Nat /\ known <= v
        BY <1>3, <2>2, <2>3, <3>1 DEF TypeOK, ParamsInv
      <4>2. s <= v
        BY <1>3, <2>4, <2>6, <4>1
      <4>3. Fresh(v, SlotTtl, time)
        BY <1>1, <1>3, <2>4, <4>1, <4>2, FreshLater
      <4>4. v < Version => born[v + 1] \in Nat
        BY <4>1, BornTyped
      <4> QED BY <1>1, <1>3, <4>1, <4>3, <4>4 DEF Fresh
    <3> QED BY <1>3, <2>2, <2>3, <2>6, <3>1 DEF ParamsInv, Fresh, Version
  <2> QED BY <2>1, <2>5, <2>6
<1>12. CASE Fetch
  <2>1. busy # None /\ busy.step = "fetch" /\ UNCHANGED <<last, known, time, born, spoilt, readers>>
    BY <1>12 DEF Fetch
  <2>2. CASE TwoRequests(busy.op)
    <3>1. /\ busy' = [op |-> busy.op, step |-> "min_utxo", key |-> Version]
          /\ busy.op = "protocol_param" /\ UNCHANGED cached
      BY <1>12, <2>2 DEF Fetch, TwoRequests
    <3>2. busy' # None
      BY <1>3, <3>1, Asked
    <3> QED BY <1>2, <1>3, <2>1, <3>1, <3>2 DEF ParamsInv, Version
  <2>3. CASE ~TwoRequests(busy.op)
    <3>1. /\ busy' = None
          /\ cached' = IF Consumes(busy.op)
                       THEN [cached EXCEPT ![busy.op] = [version |-> Version, at |-> time]]
                       ELSE cached
      BY <1>12, <2>3 DEF Fetch, Fetched, Return
    <3>2. CASE ~Consumes(busy.op)
      <4>1. busy.op # "protocol_param" /\ UNCHANGED cached
        BY <3>1, <3>2 DEF Consumes
      <4> QED BY <1>1, <1>2, <2>1, <3>1, <4>1, ParamsKept
    <3>3. CASE Consumes(busy.op)
      <4> SUFFICES ASSUME Undisturbed' PROVE ParamsInv'
        BY <1>3, <2>1 DEF ParamsInv
      <4>1. busy.op \in Params
        BY <2>1 DEF BusyInv, TypeOK, Requests, Params
      <4>2. busy.op = "protocol_param" /\ Undisturbed
        BY <1>2, <2>1, <3>3, <4>1, OneReader
      <4>3. cached'["protocol_param"].version = Version
        BY <1>3, <3>1, <3>3, <4>2 DEF TypeOK
      <4> QED BY <1>3, <2>1, <3>1, <4>2, <4>3 DEF ParamsInv, Fresh, Version
    <3> QED BY <3>2, <3>3
  <2> QED BY <2>2, <2>3
<1>13. CASE FetchMinUtxo
  <2>1. /\ busy # None /\ busy.step = "min_utxo" /\ UNCHANGED <<last, known, time, born>>
        /\ Fetched(busy.op, busy.key, time) /\ busy' = None
    BY <1>13 DEF FetchMinUtxo, Fetched, Return
  <2>2. busy.op = "protocol_param" /\ busy.key \in 1..Version /\ Fresh(busy.key, 1, asked)
        /\ last <= asked
    BY <2>1 DEF BusyInv
  <2>3. cached'["protocol_param"].version = busy.key
    BY <1>3, <2>1, <2>2 DEF Fetched, Consumes, TypeOK
  <2>4. Fresh(busy.key, SlotTtl, last)
    <3>1. asked \in Nat /\ busy.key \in Nat
      BY <1>3, <2>2 DEF TypeOK
    <3>2. busy.key < Version => born[busy.key + 1] \in Nat
      BY <1>3, <3>1, BornTyped
    <3> QED BY <1>3, <2>2, <3>1, <3>2 DEF Fresh
  <2> SUFFICES ASSUME Undisturbed' PROVE ParamsInv'
    BY <1>3, <2>1 DEF ParamsInv
  <2>5. known <= Version /\ known <= busy.key
    BY <1>2, <2>1 DEF ParamsInv
  <2> QED BY <1>3, <2>1, <2>3, <2>4, <2>5 DEF ParamsInv, Fresh, Version
<1> QED BY <1>4, <1>5, <1>6, <1>7, <1>8, <1>9, <1>10, <1>11, <1>12, <1>13 DEF Next

-----------------------------------------------------------------------------
(* What is answered *)

\* UTxOs are answered by a read that finds them in a layer, or by a request.
LEMMA UtxosStep ==
  ASSUME TypeOK, WorldInv, TipInv, StoreInv, BusyInv, UtxosFresh, [Next]_vars
  PROVE  UtxosFresh'
<1> USE DEF setting, world, params, client
<1> SUFFICES ASSUME Answers("utxos")' PROVE UtxosFresh'
  BY DEF UtxosFresh
<1>1. CASE UNCHANGED vars
  BY <1>1 DEF vars, UtxosFresh, KeptAtMost, Answers, Outdated, Version
<1>2. CASE Tick \/ Block \/ Fork \/ Index \/ RequestBreaks \/ ReadGenesis \/ ReadSlot
  BY <1>2 DEF Tick, Block, Fork, Index, RequestBreaks, ReadGenesis, ReadSlot, Taken, Ask, Answers
<1>3. CASE \E p \in Params : ReadMissing(p) \/ ReadCached(p) \/ ReadTesting(p)
  BY <1>3 DEF ReadMissing, ReadCached, ReadTesting, Ask, ReturnCached, Return, Answers, Params
<1>4. CASE TestSlot \/ TestSync \/ Fetch \/ FetchMinUtxo
  <2>1. busy # None /\ busy.step # "query" /\ (answer' = None \/ answer'.op = busy.op)
    BY <1>4 DEF TestSlot, TestSync, Fetch, FetchMinUtxo, Fetched, Ask, ReturnCached, Return
  <2> QED BY <2>1 DEF BusyInv, Answers
<1>5. CASE QueryUtxos
  <2> DEFINE v == IF wrapper = "kupo" THEN indexed ELSE Version
  <2>1. /\ answer' = [op |-> "utxos", version |-> v, at |-> time]
        /\ UNCHANGED <<time, born, asked, wrapper, spoilt>>
        /\ busy # None
    BY <1>5 DEF QueryUtxos, Return
  <2>2. time \in Nat /\ asked \in Nat /\ asked <= time /\ Version \in Nat
    BY <2>1, BornTyped DEF TypeOK, BusyInv
  <2>3. wrapper # "kupo" => ~Outdated(SlotTtl)'
    BY <2>1, <2>2 DEF Outdated, Version
  <2> QED BY <2>1, <2>2, <2>3 DEF UtxosFresh, KeptAtMost
<1>6. CASE ReadUtxos
  <2>1. PICK s \in Slots :
          /\ LastBlockSlot(s)
          /\ \/ \E i \in 1..Len(Layers) :
                  /\ Valid(Layers[i], s)
                  /\ answer' = [op |-> "utxos", version |-> store[Layers[i]][s].version,
                                at |-> store[Layers[i]][s].at]
             \/ answer' = None
    BY <1>6 DEF ReadUtxos, Return
  <2>2. PICK i \in 1..Len(Layers) :
          /\ Valid(Layers[i], s)
          /\ answer' = [op |-> "utxos", version |-> store[Layers[i]][s].version,
                        at |-> store[Layers[i]][s].at]
    BY <2>1 DEF Answers
  <2>3. UNCHANGED <<time, born, ttl, wrapper, spoilt>> /\ asked' = time /\ time \in Nat
        /\ ttl["inner"] \in Nat /\ ttl["outer"] \in Nat
    BY <1>6 DEF ReadUtxos, TypeOK
  <2> DEFINE e == store[Layers[i]][s]
  <2>4. Layers[i] \in {"outer", "inner"}
    BY LayerNames
  <2>5. e.version \in Nat /\ e.at \in Nat /\ e.inserted \in Nat /\ Held(Layers[i], s, e)
    BY <2>2, <2>4, EntryTyped DEF Valid, StoreInv
  <2>6. answer'.version = e.version /\ answer'.at = e.at
    BY <2>2
  <2> HIDE DEF e
  <2>7. ASSUME "fork" \notin spoilt, wrapper # "kupo"
        PROVE  ~Outdated(SlotTtl)'
    <3>1. Fresh(s, SlotTtl, time) /\ s <= e.version /\ s \in Nat /\ SlotTtl \in Nat
      BY <2>1, <2>3, <2>5, <2>7, LastBlockSlotFresh, IntervalAssumption DEF Held, Slots
    <3>2. Fresh(e.version, SlotTtl, time)
      BY <2>3, <2>5, <3>1, FreshLater
    <3>3. e.version < Version => born[e.version + 1] \in Nat /\ Version \in Nat
      BY <2>5, BornTyped
    <3> QED BY <2>3, <2>6, <3>1, <3>2, <3>3 DEF Outdated, Fresh, Version
  <2>8. ASSUME e.at < time
        PROVE  time - e.at < KeptAtMost
    <3>1. CASE wrapper = "none"
      <4>1. Layers[i] = "inner"
        BY <3>1 DEF Layers
      <4> QED BY <2>3, <2>5, <2>8, <3>1, <4>1 DEF Held, KeptAtMost
    <3>2. CASE wrapper = "kupo"
      <4>1. Layers[i] = "outer"
        BY <3>2 DEF Layers
      <4> QED BY <2>3, <2>5, <2>8, <3>2, <4>1 DEF Held, KeptAtMost
    <3>3. CASE wrapper = "plain"
      <4>1. time - e.at < ttl["inner"] + ttl["outer"]
        BY <2>3, <2>4, <2>5, <2>8, <3>3 DEF Held
      <4> QED BY <3>3, <4>1 DEF KeptAtMost
    <3>4. wrapper \in {"none", "kupo", "plain"}
      BY <1>6 DEF TypeOK
    <3> QED BY ONLY <3>1, <3>2, <3>3, <3>4
  <2> QED BY <2>3, <2>6, <2>7, <2>8 DEF UtxosFresh, KeptAtMost
<1> QED BY <1>1, <1>2, <1>3, <1>4, <1>5, <1>6 DEF Next

\* Protocol parameters are answered from the cache, or by the last request.
LEMMA BoundedStep ==
  ASSUME TypeOK, WorldInv, TipInv, BusyInv, ParamsInv, ParamsBounded, [Next]_vars
  PROVE  ParamsBounded'
<1> USE DEF setting, world, params, client
<1> SUFFICES ASSUME Answers("protocol_param")', spoilt' = {},
                    backend' = "v6" => readers' = {"protocol_param"}
             PROVE  ~Outdated(interval + SlotTtl)'
  BY DEF ParamsBounded
<1>1. /\ Undisturbed /\ Undisturbed' /\ "fork" \notin spoilt
      /\ spoilt \subseteq spoilt' /\ spoilt = {}
  BY Advances DEF Undisturbed
<1>2. /\ SlotTtl \in Nat \ {0} /\ interval \in Nat /\ time \in Nat /\ last \in Nat
      /\ last <= time /\ asked \in Nat /\ Version \in Nat
  BY IntervalAssumption, BornTyped DEF TypeOK, ParamsInv
<1>3. CASE UNCHANGED vars
  BY <1>3 DEF vars, ParamsBounded, Answers, Outdated, Version
<1>4. CASE \/ Tick \/ Block \/ Fork \/ Index \/ RequestBreaks \/ ReadGenesis \/ ReadSlot
           \/ ReadUtxos \/ QueryUtxos
  BY <1>4 DEF Tick, Block, Fork, Index, RequestBreaks, ReadGenesis, ReadSlot, ReadUtxos,
              QueryUtxos, Taken, Ask, Return, Answers
<1>5. ASSUME NEW p \in Params, ReadMissing(p) \/ ReadTesting(p)
      PROVE  FALSE
  BY <1>5 DEF ReadMissing, ReadTesting, Ask, Answers
<1>6. ASSUME NEW p \in Params, ReadCached(p)
      PROVE  ~Outdated(interval + SlotTtl)'
  <2> DEFINE v == cached[p].version
  <2>1. /\ answer' = [op |-> p, version |-> v, at |-> cached[p].at]
        /\ busy = None /\ cached[p] # None /\ asked' = time /\ time - last < interval
        /\ UNCHANGED <<time, born, interval>>
    BY <1>6 DEF ReadCached, Begin, TestedLately, ReturnCached, Return
  <2>2. p = "protocol_param"
    BY <2>1 DEF Answers
  <2>3. v \in Nat /\ Fresh(v, SlotTtl, last)
    BY <1>1, <2>1, <2>2 DEF ParamsInv, TypeOK
  <2>4. v < Version => born[v + 1] \in Nat
    BY <2>3, BornTyped
  <2>5. answer'.version = v
    BY <2>1
  <2> HIDE DEF v
  <2> QED BY <1>2, <2>1, <2>3, <2>4, <2>5 DEF Outdated, Fresh, Version
<1>7. CASE TestSlot
  <2> DEFINE v == cached["protocol_param"].version
  <2>1. PICK s \in Slots :
          /\ LastBlockSlot(s)
          /\ answer' # None =>
               ~(known < s) /\ answer' = [op |-> busy.op, version |-> cached[busy.op].version,
                                         at |-> cached[busy.op].at]
    BY <1>7 DEF TestSlot, Ask, ReturnCached, Return
  <2>2. busy # None /\ busy.step = "tip" /\ UNCHANGED <<time, born, asked, interval>>
    BY <1>7 DEF TestSlot
  <2>3. ~(known < s) /\ busy.op = "protocol_param" /\ answer'.version = v
    BY <2>1 DEF Answers
  <2>4. s <= Version /\ Fresh(s, SlotTtl, time) /\ s \in Nat
    BY <1>1, <2>1, <2>2, LastBlockSlotFresh DEF Slots
  <2>5. v \in Nat /\ known <= v /\ known \in Nat /\ asked <= time
    BY <1>1, <2>2, <2>3 DEF ParamsInv, BusyInv, TypeOK, Params
  <2>6. Fresh(v, SlotTtl, time)
    BY <1>2, <2>3, <2>4, <2>5, FreshLater
  <2>7. v < Version => born[v + 1] \in Nat
    BY <2>5, BornTyped
  <2> HIDE DEF v
  <2> QED BY <1>2, <2>2, <2>3, <2>5, <2>6, <2>7 DEF Outdated, Fresh, Version
<1>8. CASE TestSync
  BY <1>1, <1>8 DEF TestSync, Ask, Answers
<1>9. CASE Fetch
  <2>1. answer' = None \/ answer' = [op |-> busy.op, version |-> Version, at |-> time]
    BY <1>9 DEF Fetch, Fetched, Return
  <2>2. UNCHANGED born
    BY <1>9 DEF Fetch
  <2> QED BY <1>2, <2>1, <2>2 DEF Answers, Outdated, Version
<1>10. CASE FetchMinUtxo
  <2>1. /\ answer' = [op |-> busy.op, version |-> busy.key, at |-> time]
        /\ busy # None /\ busy.step = "min_utxo" /\ UNCHANGED <<born, asked>>
    BY <1>10 DEF FetchMinUtxo, Fetched, Return
  <2>2. busy.key \in 1..Version /\ Fresh(busy.key, 1, asked)
    BY <2>1 DEF BusyInv
  <2>3. interval' \in Nat
    BY TypeStep DEF TypeOK
  <2>4. busy.key < Version => born[busy.key + 1] \in Nat
    BY <1>2, <2>2, BornTyped
  <2> QED BY <1>2, <2>1, <2>2, <2>3, <2>4 DEF Outdated, Fresh, Version
<1> QED BY <1>3, <1>4, <1>5, <1>6, <1>7, <1>8, <1>9, <1>10 DEF Next

-----------------------------------------------------------------------------
(* The theorems *)

\* A context starts with the slot it may have asked for, and nothing else cached.
LEMMA ContextInit == Init => ContextInv
<1> SUFFICES ASSUME Init PROVE ContextInv
  OBVIOUS
<1>1. PICK g \in Given :
        /\ interval = IF g # None THEN g ELSE IF backend = "v6" THEN Default ELSE Natural
        /\ tip = IF g = None /\ backend = "v5" THEN [slot |-> 1, at |-> time] ELSE None
  BY DEF Init
<1>2. interval \in Nat /\ KupoTtl \in Nat /\ Start \in Nat /\ SlotTtl \in Nat
      /\ MaxBlocks \in Nat /\ MaxBlocks >= 1
  BY <1>1, IntervalAssumption, BoundAssumption
<1>3. Len(born) = 1 /\ born[1] = Start /\ born \in Seq(Nat) /\ time = Start /\ slot = 1
  BY <1>2 DEF Init
<1>4. backend \in {"v5", "v6", "cli"} /\ wrapper \in {"none", "kupo", "plain"}
  BY BackendAssumption DEF Init
<1>5. tip \in [slot : Slots, at : Nat] \cup {None}
  BY <1>1, <1>2, <1>3 DEF Slots
<1>6. TypeOK
  BY <1>2, <1>3, <1>4, <1>5 DEF Init, TypeOK, Version, Requests, Params, Entries
<1>7. WorldInv
  BY <1>2, <1>3 DEF WorldInv, Version
<1>8. TipInv
  BY <1>1, <1>2, <1>3 DEF TipInv, Fresh, Version
<1>9. StoreInv /\ BusyInv
  BY DEF Init, StoreInv, BusyInv
<1>10. ParamsInv
  BY <1>2, <1>3 DEF Init, ParamsInv, Version, Params
<1>11. UtxosFresh /\ ParamsBounded
  BY DEF Init, UtxosFresh, ParamsBounded, Answers
<1> QED BY <1>6, <1>7, <1>8, <1>9, <1>10, <1>11 DEF ContextInv

\* The inductive invariant of the contexts holds in every run: types, the order of
\* arrivals, the age of the cached slot, of what the layers hold and of what the
\* request under way has seen (ogmios_v6.py:126-149, 241-251).
THEOREM ContextInvariant == Spec => []ContextInv
<1>1. Init => ContextInv
  BY ContextInit
<1>2. ContextInv /\ [Next]_vars => ContextInv'
  <2> SUFFICES ASSUME ContextInv, [Next]_vars PROVE ContextInv'
    OBVIOUS
  <2>1. last <= time
    BY DEF ContextInv, ParamsInv
  <2> QED BY <2>1, TypeStep, WorldStep, TipStep, StoreStep, BusyStep, ParamsStep, UtxosStep,
             BoundedStep DEF ContextInv
<1> QED BY <1>1, <1>2, PTL DEF Spec

\* UTxOs are those of the node at most the ttl of the slot ago, and were asked for
\* within the ttl of the caches they went through (ogmios_v6.py:241-251,
\* kupo.py:58-61).
THEOREM UtxosAreFresh == Spec => []UtxosFresh
<1>1. ContextInv => UtxosFresh
  BY DEF ContextInv
<1> QED BY <1>1, ContextInvariant, PTL

\* Protocol parameters are at most an interval and the ttl of the slot behind the
\* node as long as nothing else uses the one test of the tip (ogmios_v6.py:126-149).
THEOREM ParamsAreBounded == Spec => []ParamsBounded
<1>1. ContextInv => ParamsBounded
  BY DEF ContextInv
<1> QED BY <1>1, ContextInvariant, PTL

-----------------------------------------------------------------------------
(* Submission through cardano-cli *)

\* The id is asked for only when the node has the transaction; before the first
\* command it has not, and after it only an answer that got lost leaves it there.
SubmitInv ==
  /\ at \in Ends \cup Commands
  /\ at \in {"txid", "legacy_txid", "returned", "PyCardanoException"} => accepted
  /\ at \in {"era", "submit", "CardanoCliError"} => ~accepted
  /\ at \in {"legacy_submit", "TransactionFailed"} => ~accepted \/ lost

\* What the caller of submit_tx learns is true of the node, whatever fails and
\* whichever answers are lost (cardano_cli.py:500-556).
THEOREM SubmitTells == SubmitSpec => []OutcomeIsTrue
<1>1. SubmitInit => SubmitInv
  BY DEF SubmitInit, SubmitInv, Ends, Commands
<1>2. SubmitInv /\ [SubmitNext]_submitVars => SubmitInv'
  <2> SUFFICES ASSUME SubmitInv, [SubmitNext]_submitVars PROVE SubmitInv'
    OBVIOUS
  <2> USE DEF SubmitInv, GoTo, Ends, Commands
  <2>1. CASE QueryEra
    BY <2>1 DEF QueryEra
  <2>2. CASE SubmitAccepted
    BY <2>2 DEF SubmitAccepted, AfterFailure
  <2>3. CASE SubmitRefused
    BY <2>3 DEF SubmitRefused, AfterFailure
  <2>4. CASE GetTxId
    BY <2>4 DEF GetTxId
  <2>5. CASE UNCHANGED submitVars
    BY <2>5 DEF submitVars
  <2> QED BY <2>1, <2>2, <2>3, <2>4, <2>5 DEF SubmitNext
<1>3. SubmitInv => OutcomeIsTrue
  BY DEF SubmitInv, OutcomeIsTrue
<1> QED BY <1>1, <1>2, <1>3, PTL DEF SubmitSpec

-----------------------------------------------------------------------------
(* The UTxOs of an address *)

\* The loop over the tokens of an output.
LEMMA AssetsExist ==
  ASSUME NEW tokens, Len(tokens) \in Nat
  PROVE  \E assets :
           /\ assets[0] = [p \in Policies |-> [n \in Names |-> 0]]
           /\ \A i \in 1..Len(tokens) : assets[i] = SetToken(assets[i - 1], tokens[i])
           /\ ToMultiAsset(tokens) = assets[Len(tokens)]
<1> DEFINE none == [p \in Policies |-> [n \in Names |-> 0]]
           Value(f, i) == IF i = 0 THEN none ELSE SetToken(f[i - 1], tokens[i])
           N == Len(tokens)
           Solved(n) == \E f : f = [i \in 0..N |-> f[i]] /\ \A i \in 0..N : i < n => f[i] = Value(f, i)
           Equation(h) == h = [i \in 0..N |-> Value(h, i)]
<1>1. Solved(0)
  <2> DEFINE f == [i \in 0..N |-> none]
  <2>1. f = [i \in 0..N |-> f[i]] /\ \A i \in 0..N : ~(i < 0)
    OBVIOUS
  <2> QED BY <2>1
<1>2. ASSUME NEW n \in Nat, Solved(n)
      PROVE  Solved(n + 1)
  <2>1. PICK f : f = [i \in 0..N |-> f[i]] /\ \A i \in 0..N : i < n => f[i] = Value(f, i)
    BY <1>2
  <2> HIDE DEF none
  <2> DEFINE g == [i \in 0..N |-> IF i < n THEN f[i] ELSE Value(f, i)]
  <2>2. ASSUME NEW i \in 0..N, i < n + 1
        PROVE  g[i] = Value(g, i)
    <3>1. g[i] = Value(f, i)
      BY <2>1
    <3>2. CASE i = 0
      BY <3>1, <3>2
    <3>3. CASE i # 0
      <4>1. i - 1 \in 0..N /\ i - 1 < n
        BY <2>2, <3>3
      <4>2. g[i - 1] = f[i - 1]
        BY <4>1
      <4> HIDE DEF g
      <4> QED BY <3>1, <3>3, <4>2
    <3> QED BY <3>2, <3>3
  <2>3. g = [i \in 0..N |-> g[i]]
    OBVIOUS
  <2> QED BY <2>2, <2>3
<1>3. Solved(N + 1)
  <2> HIDE DEF Solved
  <2> SUFFICES ASSUME ~Solved(N + 1) PROVE FALSE
    OBVIOUS
  <2> DEFINE Unsolved == {n \in Nat : ~Solved(n)}
  <2>1. Unsolved \in SUBSET Nat /\ Unsolved # {}
    OBVIOUS
  <2>2. PICK n \in Unsolved : \A m \in Unsolved : n <= m
    BY <2>1, LeastMember
  <2>3. n - 1 \in Nat /\ n - 1 \notin Unsolved
    BY <1>1, <2>2
  <2> QED BY <1>2, <2>2, <2>3
<1>4. PICK f : f = [i \in 0..N |-> f[i]] /\ \A i \in 0..N : i < N + 1 => f[i] = Value(f, i)
  BY <1>3
<1>5. \E h : Equation(h)
  <2>1. \A i \in 0..N : f[i] = Value(f, i)
    BY <1>4
  <2> HIDE DEF Value
  <2>2. f = [i \in 0..N |-> Value(f, i)]
    BY <1>4, <2>1
  <2> QED BY <2>2
<1> DEFINE assets == CHOOSE h : Equation(h)
<1>6. ToMultiAsset(tokens) = assets[N]
  BY DEF ToMultiAsset
<1> HIDE DEF Equation
<1>7. Equation(assets)
  BY <1>5
<1> HIDE DEF assets
<1>8. \A i \in 0..N : assets[i] = Value(assets, i)
  BY <1>7 DEF Equation
<1>9. assets[0] = none
  BY <1>8
<1>10. ASSUME NEW i \in 1..N
       PROVE  assets[i] = SetToken(assets[i - 1], tokens[i])
  BY <1>8
<1> HIDE DEF none
<1> QED BY <1>6, <1>9, <1>10 DEF none

\* Every token is found under its policy and name, and nothing else.
LEMMA AssetsAreTokens ==
  ASSUME NEW o, Len(o.tokens) \in Nat,
         \A k \in 1..Len(o.tokens) : o.tokens[k].policy \in Policies /\ o.tokens[k].name \in Names,
         \A k, l \in 1..Len(o.tokens) :
           o.tokens[k].policy = o.tokens[l].policy /\ o.tokens[k].name = o.tokens[l].name => k = l,
         NEW p \in Policies, NEW n \in Names
  PROVE  ToMultiAsset(o.tokens)[p][n] = Quantity(o, p, n)
<1> DEFINE tokens == o.tokens
           N == Len(tokens)
           Is(k) == tokens[k].policy = p /\ tokens[k].name = n
<1>0. N \in Nat /\ \A k, l \in 1..N : Is(k) /\ Is(l) => k = l
  OBVIOUS
<1>1. PICK assets :
        /\ assets[0] = [q \in Policies |-> [m \in Names |-> 0]]
        /\ \A i \in 1..N : assets[i] = SetToken(assets[i - 1], tokens[i])
        /\ ToMultiAsset(tokens) = assets[N]
  BY AssetsExist
<1> DEFINE Right(i) ==
      /\ assets[i] = [q \in Policies |-> assets[i][q]]
      /\ \A q \in Policies : assets[i][q] = [m \in Names |-> assets[i][q][m]]
      /\ \A k \in 1..i : Is(k) => assets[i][p][n] = tokens[k].quantity
      /\ (\A k \in 1..i : ~Is(k)) => assets[i][p][n] = 0
<1>2. Right(0)
  BY <1>1
<1>3. ASSUME NEW i \in 1..N, Right(i - 1)
      PROVE  Right(i)
  <2> DEFINE m == assets[i - 1]
             t == tokens[i]
  <2>1. t.policy \in Policies /\ t.name \in Names
    OBVIOUS
  <2>2. assets[i] = [m EXCEPT ![t.policy][t.name] = t.quantity]
    BY <1>1 DEF SetToken
  <2>3. m = [q \in Policies |-> m[q]] /\ \A q \in Policies : m[q] = [x \in Names |-> m[q][x]]
    BY <1>3
  <2> HIDE DEF m
  <2>4. /\ assets[i] = [q \in Policies |-> assets[i][q]]
        /\ \A q \in Policies : assets[i][q] = [x \in Names |-> assets[i][q][x]]
        /\ assets[i][p][n] = IF Is(i) THEN t.quantity ELSE m[p][n]
    <3> HIDE DEF t
    <3>1. assets[i] = [m EXCEPT ![t.policy] = [m[t.policy] EXCEPT ![t.name] = t.quantity]]
      BY ONLY <2>2
    <3>2. \A q \in Policies : assets[i][q] = IF q = t.policy THEN [m[q] EXCEPT ![t.name] = t.quantity]
                                             ELSE m[q]
      BY ONLY <2>1, <2>3, <3>1
    <3>3. assets[i] = [q \in Policies |-> assets[i][q]]
      BY ONLY <2>3, <3>1
    <3>4. \A q \in Policies : assets[i][q] = [x \in Names |-> assets[i][q][x]]
      BY ONLY <2>3, <3>2
    <3>5. assets[i][p][n] = IF t.policy = p /\ t.name = n THEN t.quantity ELSE m[p][n]
      BY ONLY <2>1, <2>3, <3>2, p \in Policies, n \in Names
    <3> QED BY <3>3, <3>4, <3>5 DEF t
  <2>5. ASSUME NEW k \in 1..i, Is(k)
        PROVE  assets[i][p][n] = tokens[k].quantity
    <3>1. CASE k = i
      BY <2>4, <2>5, <3>1
    <3>2. CASE k # i
      <4>1. k \in 1..(i - 1) /\ k \in 1..N /\ ~Is(i)
        BY <1>0, <2>5, <3>2
      <4>2. m[p][n] = tokens[k].quantity
        BY <1>3, <2>5, <4>1 DEF m
      <4> QED BY <2>4, <4>1, <4>2
    <3> QED BY <3>1, <3>2
  <2>6. ASSUME \A k \in 1..i : ~Is(k)
        PROVE  assets[i][p][n] = 0
    <3>1. \A k \in 1..(i - 1) : ~Is(k)
      BY <2>6
    <3>2. m[p][n] = 0
      BY <1>3, <3>1 DEF m
    <3> QED BY <2>4, <2>6, <3>2
  <2> QED BY <2>4, <2>5, <2>6
<1> HIDE DEF Right
<1>4. Right(N)
  <2> SUFFICES ASSUME ~Right(N) PROVE FALSE
    OBVIOUS
  <2> DEFINE Wrong == {i \in 0..N : ~Right(i)}
  <2>1. Wrong \in SUBSET Nat /\ Wrong # {}
    BY <1>0
  <2>2. PICK i \in Wrong : \A j \in Wrong : i <= j
    BY <2>1, LeastMember
  <2>3. i \in 1..N /\ i - 1 \in 0..N /\ i - 1 \notin Wrong
    BY <1>0, <1>2, <2>2
  <2> QED BY <1>3, <2>2, <2>3
<1>5. /\ \A k \in 1..N : Is(k) => ToMultiAsset(tokens)[p][n] = tokens[k].quantity
      /\ (\A k \in 1..N : ~Is(k)) => ToMultiAsset(tokens)[p][n] = 0
  BY <1>1, <1>4 DEF Right
<1> DEFINE of == {k \in 1..N : Is(k)}
<1>6. Quantity(o, p, n) = IF of = {} THEN 0 ELSE tokens[CHOOSE k \in of : TRUE].quantity
  BY DEF Quantity
<1>7. CASE of = {}
  BY <1>5, <1>6, <1>7
<1>8. CASE of # {}
  <2>1. (CHOOSE k \in of : TRUE) \in of
    BY <1>8
  <2> QED BY <1>5, <1>6, <1>8, <2>1
<1> QED BY <1>7, <1>8

\* The loop over the outputs of an address.
LEMMA CollectedExists ==
  ASSUME NEW b, NEW outs, Len(outs) \in Nat
  PROVE  \E utxos :
           /\ utxos[0] = <<>>
           /\ \A i \in 1..Len(outs) :
                utxos[i] = IF b = "kupo" /\ outs[i].spent THEN utxos[i - 1]
                           ELSE Append(utxos[i - 1], ToUtxo(b, outs[i]))
           /\ Collected(b, outs) = utxos[Len(outs)]
<1> DEFINE none == <<>>
           Value(f, i) == IF i = 0 THEN none ELSE IF b = "kupo" /\ outs[i].spent THEN f[i - 1]
                          ELSE Append(f[i - 1], ToUtxo(b, outs[i]))
           N == Len(outs)
           Solved(n) == \E f : f = [i \in 0..N |-> f[i]] /\ \A i \in 0..N : i < n => f[i] = Value(f, i)
           Equation(h) == h = [i \in 0..N |-> Value(h, i)]
<1>1. Solved(0)
  <2> DEFINE f == [i \in 0..N |-> none]
  <2>1. f = [i \in 0..N |-> f[i]] /\ \A i \in 0..N : ~(i < 0)
    OBVIOUS
  <2> QED BY <2>1
<1>2. ASSUME NEW n \in Nat, Solved(n)
      PROVE  Solved(n + 1)
  <2>1. PICK f : f = [i \in 0..N |-> f[i]] /\ \A i \in 0..N : i < n => f[i] = Value(f, i)
    BY <1>2
  <2> HIDE DEF none
  <2> DEFINE g == [i \in 0..N |-> IF i < n THEN f[i] ELSE Value(f, i)]
  <2>2. ASSUME NEW i \in 0..N, i < n + 1
        PROVE  g[i] = Value(g, i)
    <3>1. g[i] = Value(f, i)
      BY <2>1
    <3>2. CASE i = 0
      BY <3>1, <3>2
    <3>3. CASE i # 0
      <4>1. i - 1 \in 0..N /\ i - 1 < n
        BY <2>2, <3>3
      <4>2. g[i - 1] = f[i - 1]
        BY <4>1
      <4> HIDE DEF g
      <4> QED BY <3>1, <3>3, <4>2
    <3> QED BY <3>2, <3>3
  <2>3. g = [i \in 0..N |-> g[i]]
    OBVIOUS
  <2> QED BY <2>2, <2>3
<1>3. Solved(N + 1)
  <2> HIDE DEF Solved
  <2> SUFFICES ASSUME ~Solved(N + 1) PROVE FALSE
    OBVIOUS
  <2> DEFINE Unsolved == {n \in Nat : ~Solved(n)}
  <2>1. Unsolved \in SUBSET Nat /\ Unsolved # {}
    OBVIOUS
  <2>2. PICK n \in Unsolved : \A m \in Unsolved : n <= m
    BY <2>1, LeastMember
  <2>3. n - 1 \in Nat /\ n - 1 \notin Unsolved
    BY <1>1, <2>2
  <2> QED BY <1>2, <2>2, <2>3
<1>4. PICK f : f = [i \in 0..N |-> f[i]] /\ \A i \in 0..N : i < N + 1 => f[i] = Value(f, i)
  BY <1>3
<1>5. \E h : Equation(h)
  <2>1. \A i \in 0..N : f[i] = Value(f, i)
    BY <1>4
  <2> HIDE DEF Value
  <2>2. f = [i \in 0..N |-> Value(f, i)]
    BY <1>4, <2>1
  <2> QED BY <2>2
<1> DEFINE utxos == CHOOSE h : Equation(h)
<1>6. Collected(b, outs) = utxos[N]
  BY DEF Collected
<1> HIDE DEF Equation
<1>7. Equation(utxos)
  BY <1>5
<1> HIDE DEF utxos
<1>8. \A i \in 0..N : utxos[i] = Value(utxos, i)
  BY <1>7 DEF Equation
<1>9. utxos[0] = none
  BY <1>8
<1>10. ASSUME NEW i \in 1..N
       PROVE  utxos[i] = IF b = "kupo" /\ outs[i].spent THEN utxos[i - 1]
                          ELSE Append(utxos[i - 1], ToUtxo(b, outs[i]))
  BY <1>8
<1> HIDE DEF none
<1> QED BY <1>6, <1>9, <1>10 DEF none

\* An output of the ledger that the context makes a UTxO of.
Kept(b, o) == ~(b = "kupo" /\ o.spent)

\* The UTxOs of a call are those of the outputs that are not spent, each once.
LEMMA CollectedOnce ==
  ASSUME NEW b, NEW outs, Len(outs) \in Nat,
         \A i, j \in 1..Len(outs) : outs[i].ref = outs[j].ref => i = j
  PROVE  LET utxos == Collected(b, outs) IN
         /\ Len(utxos) \in Nat
         /\ \A k \in 1..Len(utxos) :
              \E i \in 1..Len(outs) : Kept(b, outs[i]) /\ utxos[k] = ToUtxo(b, outs[i])
         /\ \A i \in 1..Len(outs) :
              Kept(b, outs[i]) => \E k \in 1..Len(utxos) : utxos[k] = ToUtxo(b, outs[i])
         /\ \A k, l \in 1..Len(utxos) : utxos[k].ref = utxos[l].ref => k = l
<1> DEFINE N == Len(outs)
           U(i) == ToUtxo(b, outs[i])
<1>1. PICK utxos :
        /\ utxos[0] = <<>>
        /\ \A i \in 1..N : utxos[i] = IF b = "kupo" /\ outs[i].spent THEN utxos[i - 1]
                                      ELSE Append(utxos[i - 1], U(i))
        /\ Collected(b, outs) = utxos[N]
  BY CollectedExists
<1>2. \A i \in 1..N : U(i).ref = outs[i].ref
  BY DEF ToUtxo
<1> HIDE DEF U
<1> DEFINE Right(n) ==
      /\ utxos[n] \in Seq({U(i) : i \in 1..N})
      /\ \A k \in 1..Len(utxos[n]) : \E i \in 1..n : Kept(b, outs[i]) /\ utxos[n][k] = U(i)
      /\ \A i \in 1..n : Kept(b, outs[i]) => \E k \in 1..Len(utxos[n]) : utxos[n][k] = U(i)
      /\ \A k, l \in 1..Len(utxos[n]) : utxos[n][k].ref = utxos[n][l].ref => k = l
<1>3. Right(0)
  BY <1>1
<1>4. ASSUME NEW n \in 1..N, Right(n - 1)
      PROVE  Right(n)
  <2> DEFINE s == utxos[n - 1]
             t == utxos[n]
  <2>1. CASE ~Kept(b, outs[n])
    <3>1. t = s
      BY <1>1, <2>1 DEF Kept
    <3>2. \A i \in 1..n : Kept(b, outs[i]) => i \in 1..(n - 1)
      BY <2>1
    <3> QED BY <1>4, <3>1, <3>2
  <2>2. CASE Kept(b, outs[n])
    <3>1. t = Append(s, U(n))
      BY <1>1, <2>2 DEF Kept
    <3>2. s \in Seq({U(i) : i \in 1..N}) /\ Len(s) \in Nat
      BY <1>4
    <3> DEFINE m == Len(s)
    <3>3. /\ t \in Seq({U(i) : i \in 1..N})
          /\ Len(t) = m + 1 /\ t[m + 1] = U(n)
          /\ \A k \in 1..m : t[k] = s[k]
      BY <3>1, <3>2
    <3>4. /\ \A k \in 1..m : \E i \in 1..(n - 1) : Kept(b, outs[i]) /\ s[k] = U(i)
          /\ \A i \in 1..(n - 1) : Kept(b, outs[i]) => \E k \in 1..m : s[k] = U(i)
          /\ \A k, l \in 1..m : s[k].ref = s[l].ref => k = l
      BY <1>4
    <3> HIDE DEF s, t, m
    <3>5. m \in Nat
      BY <3>2 DEF m
    <3>6. \A k \in 1..m : s[k].ref # U(n).ref
      <4> TAKE k \in 1..m
      <4>1. PICK i \in 1..(n - 1) : s[k] = U(i)
        BY <3>4
      <4>2. i \in 1..N /\ i # n
        OBVIOUS
      <4> QED BY <1>2, <4>1, <4>2
    <3>7. \A k \in 1..Len(t) : k \in 1..m \/ k = m + 1
      BY <3>3, <3>5
    <3>8. \A k \in 1..Len(t) : \E i \in 1..n : Kept(b, outs[i]) /\ t[k] = U(i)
      <4> TAKE k \in 1..Len(t)
      <4>1. CASE k \in 1..m
        <5>1. PICK i \in 1..(n - 1) : Kept(b, outs[i]) /\ s[k] = U(i)
          BY <3>4, <4>1
        <5> QED BY <3>3, <4>1, <5>1
      <4>2. CASE k = m + 1
        BY <2>2, <3>3, <4>2
      <4> QED BY <3>7, <4>1, <4>2
    <3>9. ASSUME NEW i \in 1..n, Kept(b, outs[i])
          PROVE  \E k \in 1..Len(t) : t[k] = U(i)
      <4>1. CASE i = n
        BY <3>3, <3>5, <4>1
      <4>2. CASE i # n
        <5>1. PICK k \in 1..m : s[k] = U(i)
          BY <3>4, <3>9, <4>2
        <5>2. k \in 1..Len(t) /\ t[k] = U(i)
          BY <3>3, <3>5, <5>1
        <5> QED BY <5>2
      <4> QED BY <4>1, <4>2
    <3>10. \A k, l \in 1..Len(t) : t[k].ref = t[l].ref => k = l
      BY <3>3, <3>4, <3>6, <3>7
    <3> QED BY <3>3, <3>8, <3>9, <3>10 DEF t
  <2> QED BY <2>1, <2>2
<1> HIDE DEF Right
<1>5. Right(N)
  <2> SUFFICES ASSUME ~Right(N) PROVE FALSE
    OBVIOUS
  <2> DEFINE Wrong == {i \in 0..N : ~Right(i)}
  <2>1. Wrong \in SUBSET Nat /\ Wrong # {}
    OBVIOUS
  <2>2. PICK i \in Wrong : \A j \in Wrong : i <= j
    BY <2>1, LeastMember
  <2>3. i \in 1..N /\ i - 1 \in 0..N /\ i - 1 \notin Wrong
    BY <1>3, <2>2
  <2> QED BY <1>4, <2>2, <2>3
<1> DEFINE s == Collected(b, outs)
<1>6. s = utxos[N]
  BY <1>1
<1>7. /\ s \in Seq({U(i) : i \in 1..N})
      /\ \A k \in 1..Len(s) : \E i \in 1..N : Kept(b, outs[i]) /\ s[k] = U(i)
      /\ \A i \in 1..N : Kept(b, outs[i]) => \E k \in 1..Len(s) : s[k] = U(i)
      /\ \A k, l \in 1..Len(s) : s[k].ref = s[l].ref => k = l
  <2> HIDE DEF s
  <2> QED BY <1>5, <1>6 DEF Right
<1>8. Len(s) \in Nat
  BY <1>7
<1> HIDE DEF s
<1> SUFFICES /\ Len(s) \in Nat
             /\ \A k \in 1..Len(s) : \E i \in 1..N : Kept(b, outs[i]) /\ s[k] = U(i)
             /\ \A i \in 1..N : Kept(b, outs[i]) => \E k \in 1..Len(s) : s[k] = U(i)
             /\ \A k, l \in 1..Len(s) : s[k].ref = s[l].ref => k = l
  BY DEF s, U
<1> QED BY <1>7, <1>8

\* A script that does not fail the call is the one on the ledger.
LEMMA ScriptKept ==
  ASSUME NEW b \in {"blockfrost", "v5", "v6", "cli", "kupo"},
         NEW s \in [kind : {"none", "native"} \cup Plutus, wraps : Nat],
         s.kind = "none" => s.wraps = 0,
         ToScript(b, s) # Raised
  PROVE  ToScript(b, s) = Unwrapped(s)
<1>1. s = [kind |-> s.kind, wraps |-> s.wraps]
  OBVIOUS
<1>2. Unwrapped(s) = [kind |-> s.kind, wraps |-> 0]
  BY <1>1 DEF Unwrapped
<1>3. CASE s.kind = "none"
  <2>1. ToScript(b, s) = s
    BY <1>3 DEF ToScript
  <2> QED BY <1>1, <1>2, <1>3, <2>1
<1>4. CASE s.kind # "none"
  BY <1>4 DEF ToScript, TryFixScript
<1> QED BY <1>3, <1>4

\* utxos: until it is called, or what has become of the call.
QueryInv ==
  /\ ledger \in Ledgers /\ service \in Services
  /\ \A i \in 1..Len(ledger) : service # "kupo" => ~ledger[i].spent
  /\ result \in {NoResult, Failure, Convert(service, ledger)}

\* A call that returns has returned the outputs of the address that are not spent,
\* each once and as it is on the ledger (kupo.py:158-206, ogmios_v6.py:272-317,
\* ogmios_v5.py:313-358, cardano_cli.py:420-470, blockfrost.py:190-246).
THEOREM QueriesTellTheLedger == QuerySpec => []UtxosAreLedgers
<1>1. QueryInit => QueryInv
  BY DEF QueryInit, QueryInv
<1>2. QueryInv /\ [Utxos]_queryVars => QueryInv'
  BY DEF QueryInv, Utxos, queryVars
<1>3. ASSUME QueryInv PROVE UtxosAreLedgers
  <2> DEFINE utxos == Collected(service, ledger)
             N == Len(ledger)
  <2> SUFFICES ASSUME Converted PROVE UtxosAreLedgers
    BY DEF UtxosAreLedgers
  <2>1. result = Convert(service, ledger)
    BY <1>3 DEF QueryInv, Converted, NoResult, Failure
  <2>2. result = [status |-> "ok", utxos |-> utxos] /\ \A k \in 1..Len(utxos) : ~Fails(utxos[k])
    BY <2>1 DEF Convert, Converted, Failure
  <2>3. Returned = utxos
    BY <2>2 DEF Returned
  <2>4. /\ service \in {"blockfrost", "v5", "v6", "cli", "kupo"}
        /\ N \in Nat
        /\ \A i, j \in 1..N : ledger[i].ref = ledger[j].ref => i = j
        /\ \A i \in 1..N : Kept(service, ledger[i]) <=> ~ledger[i].spent
    BY <1>3, LedgersAssumption DEF QueryInv, Kept
  <2>5. /\ Len(utxos) \in Nat
        /\ \A k \in 1..Len(utxos) :
             \E i \in 1..N : Kept(service, ledger[i]) /\ utxos[k] = ToUtxo(service, ledger[i])
        /\ \A i \in 1..N :
             Kept(service, ledger[i]) => \E k \in 1..Len(utxos) : utxos[k] = ToUtxo(service, ledger[i])
        /\ \A k, l \in 1..Len(utxos) : utxos[k].ref = utxos[l].ref => k = l
    BY <2>4, CollectedOnce
  <2> HIDE DEF utxos
  <2>6. \A i \in 1..N : ToUtxo(service, ledger[i]).ref = ledger[i].ref
    BY DEF ToUtxo
  <2>7. {utxos[k].ref : k \in 1..Len(utxos)}
          = {ledger[j].ref : j \in {i \in 1..N : ~ledger[i].spent}}
    <3>1. ASSUME NEW k \in 1..Len(utxos)
          PROVE  \E i \in 1..N : ~ledger[i].spent /\ utxos[k].ref = ledger[i].ref
      <4>1. PICK i \in 1..N : Kept(service, ledger[i]) /\ utxos[k] = ToUtxo(service, ledger[i])
        BY <2>5
      <4> QED BY <2>4, <2>6, <4>1
    <3>2. ASSUME NEW i \in 1..N, ~ledger[i].spent
          PROVE  \E k \in 1..Len(utxos) : utxos[k].ref = ledger[i].ref
      <4>1. PICK k \in 1..Len(utxos) : utxos[k] = ToUtxo(service, ledger[i])
        BY <2>4, <2>5, <3>2
      <4> QED BY <2>6, <4>1
    <3> DEFINE Got == {utxos[k].ref : k \in 1..Len(utxos)}
               Unspent == {i \in 1..N : ~ledger[i].spent}
               Want == {ledger[j].ref : j \in Unspent}
    <3>3. ASSUME NEW r \in Got PROVE r \in Want
      <4>1. PICK k \in 1..Len(utxos) : r = utxos[k].ref
        OBVIOUS
      <4>2. PICK i \in 1..N : ~ledger[i].spent /\ utxos[k].ref = ledger[i].ref
        BY <3>1
      <4>3. i \in Unspent /\ r = ledger[i].ref
        BY <4>1, <4>2
      <4> HIDE DEF Unspent
      <4> QED BY <4>3
    <3>4. ASSUME NEW r \in Want PROVE r \in Got
      <4>1. PICK i \in Unspent : r = ledger[i].ref
        OBVIOUS
      <4>2. PICK k \in 1..Len(utxos) : utxos[k].ref = ledger[i].ref
        BY <3>2
      <4> QED BY <4>1, <4>2
    <3> HIDE DEF Got, Want
    <3>5. Got = Want
      BY <3>3, <3>4
    <3> QED BY <3>5 DEF Got, Want
  <2>8. ASSUME NEW k \in 1..Len(utxos), NEW j \in 1..N, utxos[k].ref = ledger[j].ref
        PROVE  Same(utxos[k], ledger[j])
    <3> DEFINE o == ledger[j]
               u == utxos[k]
    <3>1. u = ToUtxo(service, o)
      <4>1. PICK i \in 1..N : u = ToUtxo(service, ledger[i])
        BY <2>5
      <4>2. i = j
        BY <2>4, <2>6, <2>8, <4>1
      <4> QED BY <4>1, <4>2
    <3>2. /\ o.datum \in {"none", "hash", "inline"} /\ o.resolved \in BOOLEAN
          /\ o.script \in [kind : {"none", "native"} \cup Plutus, wraps : Nat]
          /\ o.script.kind = "none" => o.script.wraps = 0
          /\ Len(o.tokens) \in Nat
          /\ \A m \in 1..Len(o.tokens) : o.tokens[m].policy \in Policies /\ o.tokens[m].name \in Names
          /\ \A m, l \in 1..Len(o.tokens) :
               o.tokens[m].policy = o.tokens[l].policy /\ o.tokens[m].name = o.tokens[l].name => m = l
      BY <1>3, LedgersAssumption DEF QueryInv
    <3>3. ~Fails(u)
      BY <2>2
    <3> HIDE DEF o, u
    <3>4. /\ u.coin = o.coin /\ u.assets = ToMultiAsset(o.tokens)
          /\ u.hash = HasDatumHash(service, o) /\ u.datum = HasDatum(service, o)
          /\ u.script = ToScript(service, o.script)
      BY <3>1 DEF ToUtxo
    <3>5. \A p \in Policies, n \in Names : u.assets[p][n] = Quantity(o, p, n)
      <4> TAKE p \in Policies, n \in Names
      <4>1. ToMultiAsset(o.tokens)[p][n] = Quantity(o, p, n)
        BY ONLY <3>2, AssetsAreTokens, p \in Policies, n \in Names
      <4> QED BY <3>4, <4>1
    <3>6. u.script = Unwrapped(o.script)
      BY <2>4, <3>2, <3>3, <3>4, ScriptKept DEF Fails
    <3>7. /\ u.hash \/ u.datum <=> o.datum # "none"
          /\ service # "kupo" => (u.hash <=> o.datum = "hash") /\ (u.datum <=> o.datum = "inline")
      BY <3>2, <3>4 DEF HasDatumHash, HasDatum
    <3> QED BY ONLY <3>4, <3>5, <3>6, <3>7 DEF Same, o, u
  <2>9. \A k \in 1..Len(utxos), j \in 1..N :
          utxos[k].ref = ledger[j].ref => Same(utxos[k], ledger[j])
    BY ONLY <2>8
  <2>10. \A k, l \in 1..Len(utxos) : utxos[k].ref = utxos[l].ref => k = l
    BY <2>5
  <2> QED BY ONLY <2>3, <2>7, <2>9, <2>10, Zenon DEF UtxosAreLedgers
<1> QED BY <1>1, <1>2, <1>3, PTL DEF QuerySpec

=============================================================================

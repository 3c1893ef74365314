----------------------------- MODULE TipContext -----------------------------
(***************************************************************************)
(* The chain contexts that decide by the tip of the chain when to ask      *)
(* again: OgmiosV5ChainContext, OgmiosV6ChainContext and                   *)
(* CardanoCliChainContext, and KupoChainContextExtension around one of     *)
(* them.  What they cache: the protocol parameters, in v6 the genesis      *)
(* parameters, the slot of the last block (for a second), and UTxOs under  *)
(* that slot.                                                              *)
(*                                                                         *)
(* The node and the indexer are external: a chain is a count of its        *)
(* changes (version), each with the time of its arrival.  What a service   *)
(* answers is the version it was at.  A request takes time: blocks arrive  *)
(* and the clock ticks between its beginning and its end.                  *)
(***************************************************************************)
EXTENDS Integers, Sequences

CONSTANTS
  Programs,   \* sets of properties a program reads
  Backends,   \* subset of {"v5", "v6", "cli"}
  Wrappers,   \* "none", "kupo" (with a URL), "plain" (Kupo without one)
  Given,      \* values of refetch_chain_tip_interval, or None
  Default,    \* DEFAULT_REFETCH_INTERVAL, in ticks
  Natural,    \* slot length / active slots coefficient, in ticks
  SlotTtl,    \* ttl of last_block_slot, in ticks
  KupoTtl,    \* Kupo's refetch_chain_tip_interval, in ticks
  Start,      \* time.time() when the context is made, in ticks
  None,
  MaxTime,    \* bound: ticks after the start
  MaxBlocks   \* bound: changes of the chain

ASSUME BackendAssumption ==
  /\ Backends \subseteq {"v5", "v6", "cli"} /\ Wrappers \subseteq {"none", "kupo", "plain"}
ASSUME IntervalAssumption ==
  /\ {Default, Natural, KupoTtl, Start} \subseteq Nat /\ SlotTtl \in Nat \ {0}
  /\ Programs \subseteq SUBSET {"protocol_param", "genesis_param", "utxos"}
  /\ Given \subseteq Nat \cup {None}

\* A request under way: what for, which step of it, and what it keeps for later.
Requests ==
  [op : {"protocol_param", "genesis_param", "utxos"},
   step : {"fetch", "tip", "min_utxo", "query"}, key : Nat]

ASSUME NoneAssumption == None \notin Int /\ None \notin Requests
ASSUME BoundAssumption == MaxTime \in Nat /\ MaxBlocks \in Nat \ {0}

VARIABLES
  backend, wrapper, program, \* which context is used, and what for
  time,       \* time.time(), larger than any interval at the start
  born,       \* born[v]: when version v of the chain reached the node
  slot,       \* slot of the tip
  indexed,    \* version the Kupo indexer has reached
  interval,   \* _refetch_chain_tip_interval
  last,       \* _last_chain_tip_fetch
  known,      \* _last_known_block_slot
  cached,     \* _protocol_param and _genesis_param: a version, or None
  tip,        \* the cache of last_block_slot: [slot, at], or None
  ttl,        \* ttl of the UTxO caches
  store,      \* the UTxO caches, by layer and slot
  busy,       \* None, or the request under way
  asked,      \* history: when the read began that goes on or has just returned
  answer,     \* what the last read returned, until the program has taken it
  readers,    \* history: which of the parameters were read
  spoilt      \* history: "fork", "failure", "synced" that have happened

world == <<time, born, slot, indexed>>
params == <<interval, last, known, cached, readers>>
client == <<params, tip, store, busy, asked, answer, spoilt>>
setting == <<backend, wrapper, program>>
vars == <<setting, ttl, world, client>>

Slots == 0..MaxBlocks
Params == {"protocol_param", "genesis_param"}
Version == Len(born)

-----------------------------------------------------------------------------
(* The world *)

\* The program has what was answered.
Taken ==
  /\ answer' = None
  /\ asked' = IF busy = None THEN 0 ELSE asked

\* Mutant: the slot is cached without a ttl.
ExpireStoreOnly ==
  /\ UNCHANGED tip
  /\ store' = [l \in DOMAIN store |-> [s \in Slots |->
                IF store[l][s] # None /\ time' < store[l][s].inserted + ttl[l]
                THEN store[l][s] ELSE None]]

\* The caches drop what is older than their ttl.
Expire ==
  /\ tip' = IF tip # None /\ time' < tip.at + SlotTtl THEN tip ELSE None
  /\ store' = [l \in DOMAIN store |-> [s \in Slots |->
                IF store[l][s] # None /\ time' < store[l][s].inserted + ttl[l]
                THEN store[l][s] ELSE None]]

Tick ==
  /\ time < Start + MaxTime
  /\ time' = time + 1
  /\ Expire
  /\ Taken
  /\ UNCHANGED <<setting, ttl, born, slot, indexed, params, busy, spoilt>>

Block ==
  /\ Version < MaxBlocks
  /\ born' = Append(born, time)
  /\ slot' = slot + 1
  /\ Taken
  /\ UNCHANGED <<setting, ttl, time, indexed, params, tip, store, busy, spoilt>>

\* The node changes to another fork, whose last block need not have a later slot.
Fork ==
  /\ Version < MaxBlocks
  /\ born' = Append(born, time)
  /\ slot' \in {s \in {slot - 1, slot} : s > 0}
  /\ spoilt' = spoilt \cup {"fork"}
  /\ Taken
  /\ UNCHANGED <<setting, ttl, time, indexed, params, tip, store, busy>>

Index ==
  /\ wrapper = "kupo"
  /\ indexed < Version
  /\ indexed' = indexed + 1
  /\ Taken
  /\ UNCHANGED <<setting, ttl, time, born, slot, params, tip, store, busy, spoilt>>

-----------------------------------------------------------------------------
(* last_block_slot and the chain tip test *)

TipKnown == tip # None

\* last_block_slot without and with a request.
LastBlockSlot(s) ==
  \/ TipKnown /\ s = tip.slot /\ UNCHANGED tip
  \/ ~TipKnown /\ s = slot /\ tip' = [slot |-> slot, at |-> time]

\* The program reads last_block_slot itself.
ReadSlot ==
  /\ busy = None
  /\ ~TipKnown
  /\ LastBlockSlot(slot)
  /\ Taken
  /\ UNCHANGED <<setting, ttl, world, params, store, busy, spoilt>>

Return(op, v, at) == answer' = [op |-> op, version |-> v, at |-> at] /\ busy' = None
Ask(op, step) == answer' = None /\ busy' = [op |-> op, step |-> step, key |-> 0]
ReturnCached(p) == Return(p, cached[p].version, cached[p].at)

Newer(s) == known < s /\ known' = s

Consumes(p) == p = "protocol_param" \/ backend = "v6"

Begin(p) ==
  /\ busy = None
  /\ p \in program
  /\ asked' = time
  /\ readers' = readers \cup {p}

\* Nothing is cached: the tip is not looked at.
ReadMissing(p) ==
  /\ Consumes(p)
  /\ Begin(p)
  /\ cached[p] = None
  /\ Ask(p, "fetch")
  /\ UNCHANGED <<setting, ttl, world, interval, last, known, cached, tip, store,
                 spoilt>>

TestedLately == time - last < interval

\* The tip has been looked at less than an interval ago.
ReadCached(p) ==
  /\ Consumes(p)
  /\ Begin(p)
  /\ cached[p] # None
  /\ TestedLately
  /\ ReturnCached(p)
  /\ UNCHANGED <<setting, ttl, world, interval, last, known, cached, tip, store,
                 spoilt>>

NoteTest == last' = time

\* The tip is asked for; that it has been asked for is noted first.
ReadTesting(p) ==
  /\ Consumes(p)
  /\ Begin(p)
  /\ cached[p] # None
  /\ ~TestedLately
  /\ NoteTest
  /\ Ask(p, "tip")
  /\ UNCHANGED <<setting, ttl, world, interval, known, cached, tip, store, spoilt>>

\* The Ogmios contexts compare the slot with the last known one.
TestSlot ==
  /\ busy # None /\ busy.step = "tip" /\ backend # "cli"
  /\ \E s \in Slots :
       /\ LastBlockSlot(s)
       /\ \/ Newer(s) /\ Ask(busy.op, "fetch")
          \/ ~(known < s) /\ ReturnCached(busy.op) /\ UNCHANGED known
  /\ UNCHANGED <<setting, ttl, world, interval, last, cached, store, asked, readers,
                 spoilt>>

\* Mutant: a node that is not synchronised keeps the parameters.
SyncTestReversed ==
  /\ busy # None /\ busy.step = "tip" /\ backend = "cli"
  /\ \/ Ask(busy.op, "fetch") /\ spoilt' = spoilt \cup {"synced"}
     \/ ReturnCached(busy.op) /\ UNCHANGED spoilt
  /\ UNCHANGED <<setting, ttl, world, interval, last, known, cached, tip, store,
                 asked, readers>>

\* cardano-cli asks whether the node is synchronised (syncProgress), and renews
\* the parameters of a node that is not.
TestSync ==
  /\ busy # None /\ busy.step = "tip" /\ backend = "cli"
  /\ \/ Ask(busy.op, "fetch") /\ UNCHANGED spoilt
     \/ ReturnCached(busy.op) /\ spoilt' = spoilt \cup {"synced"}
  /\ UNCHANGED <<setting, ttl, world, interval, last, known, cached, tip, store,
                 asked, readers>>

-----------------------------------------------------------------------------
(* The parameters *)

\* _fetch_protocol_param of v5 and cli makes a second request, for min_utxo.
TwoRequests(p) == p = "protocol_param" /\ backend # "v6"

\* The answer arrives.  genesis_param of v6 also computes the interval, once;
\* genesis_param of v5 has a cache that lives as long as the call.
Fetched(p, v, at) ==
  /\ cached' = IF Consumes(p) THEN [cached EXCEPT ![p] = [version |-> v, at |-> at]] ELSE cached
  /\ interval' = IF p = "genesis_param" /\ backend = "v6" /\ interval = Default
                 THEN Natural ELSE interval
  /\ Return(p, v, at)

Fetch ==
  /\ busy # None /\ busy.step = "fetch"
  /\ IF TwoRequests(busy.op)
     THEN /\ busy' = [op |-> busy.op, step |-> "min_utxo", key |-> Version]
          /\ answer' = None /\ UNCHANGED <<cached, interval>>
     ELSE Fetched(busy.op, Version, time)
  /\ UNCHANGED <<setting, ttl, world, last, known, tip, store, asked, readers, spoilt>>

FetchMinUtxo ==
  /\ busy # None /\ busy.step = "min_utxo"
  /\ Fetched(busy.op, busy.key, time)
  /\ UNCHANGED <<setting, ttl, world, last, known, tip, store, asked, readers, spoilt>>

\* genesis_param of v5 asks for the slot, then for the configuration; that of
\* cli reads a file.
ReadGenesis ==
  /\ ~Consumes("genesis_param")
  /\ Begin("genesis_param")
  /\ Ask("genesis_param", "fetch")
  /\ IF backend = "v5" THEN \E s \in Slots : LastBlockSlot(s) ELSE UNCHANGED tip
  /\ UNCHANGED <<setting, ttl, world, interval, last, known, cached, store, spoilt>>

\* Any request raises: what was noted before it stays noted.
RequestBreaks ==
  /\ busy # None
  /\ busy' = None
  /\ answer' = None
  /\ asked' = 0
  /\ spoilt' = spoilt \cup {"failure"}
  /\ UNCHANGED <<setting, ttl, world, interval, last, known, cached, tip, store,
                 readers>>

-----------------------------------------------------------------------------
(* utxos *)

Layers == IF wrapper = "none" THEN <<"inner">>
          ELSE IF wrapper = "kupo" THEN <<"outer">> ELSE <<"outer", "inner">>

Valid(l, s) == store[l][s] # None

\* The layers before the first that holds the key are filled with its answer.
Fill(s, upto, v, at) ==
  store' = [l \in {"outer", "inner"} |->
              [store[l] EXCEPT ![s] =
                 IF \E i \in 1..upto : Layers[i] = l
                 THEN [version |-> v, at |-> at, inserted |-> time] ELSE @]]

\* The key is the slot of the last block, asked for before the UTxOs are.
ReadUtxos ==
  /\ busy = None
  /\ "utxos" \in program
  /\ asked' = time
  /\ \E s \in Slots :
       /\ LastBlockSlot(s)
       /\ \/ \E i \in 1..Len(Layers) :
               /\ Valid(Layers[i], s)
               /\ \A j \in 1..(i - 1) : ~Valid(Layers[j], s)
               /\ Fill(s, i - 1, store[Layers[i]][s].version, store[Layers[i]][s].at)
               /\ Return("utxos", store[Layers[i]][s].version, store[Layers[i]][s].at)
          \/ /\ \A i \in 1..Len(Layers) : ~Valid(Layers[i], s)
             /\ busy' = [op |-> "utxos", step |-> "query", key |-> s]
             /\ answer' = None /\ UNCHANGED store
  /\ UNCHANGED <<setting, ttl, world, interval, last, known, cached, readers, spoilt>>

\* The UTxOs of the node, or of the indexer, are stored under the slot that was
\* read before they were asked for.
QueryUtxos ==
  /\ busy # None /\ busy.step = "query"
  /\ LET v == IF wrapper = "kupo" THEN indexed ELSE Version
     IN  Fill(busy.key, Len(Layers), v, time) /\ Return("utxos", v, time)
  /\ UNCHANGED <<setting, ttl, world, interval, last, known, cached, tip, asked,
                 readers, spoilt>>

-----------------------------------------------------------------------------

\* Of a wrapper only utxos differs: all else it passes on (kupo.py:63-88).
\* __init__: without a given interval, v5 and cli compute it from the genesis
\* parameters, for which v5 asks for the slot; v6 takes the default.
Init ==
  /\ backend \in Backends
  /\ program \in Programs
  /\ wrapper \in IF "utxos" \in program THEN Wrappers ELSE {"none"}
  /\ time = Start
  /\ born = <<Start>>
  /\ slot = 1
  /\ indexed = 1
  /\ \E g \in Given :
       /\ interval = IF g # None THEN g ELSE IF backend = "v6" THEN Default ELSE Natural
       /\ tip = IF g = None /\ backend = "v5" THEN [slot |-> 1, at |-> time] ELSE None
  /\ ttl = [inner |-> interval, outer |-> KupoTtl]
  /\ last = 0
  /\ known = 0
  /\ cached = [p \in Params |-> None]
  /\ store = [l \in {"outer", "inner"} |-> [s \in Slots |-> None]]
  /\ busy = None
  /\ asked = 0
  /\ answer = None
  /\ readers = {}
  /\ spoilt = {}

Next ==
  \/ Tick \/ Block \/ Fork \/ Index
  \/ \E p \in Params : ReadMissing(p) \/ ReadCached(p) \/ ReadTesting(p)
  \/ TestSlot \/ TestSync \/ Fetch \/ FetchMinUtxo \/ ReadGenesis
  \/ ReadSlot \/ ReadUtxos \/ QueryUtxos \/ RequestBreaks

Spec == Init /\ [][Next]_vars

-----------------------------------------------------------------------------
(* Properties *)

\* What is answered had been replaced on the chain for `age` ticks or more when
\* the read began.
Outdated(age) == answer.version < Version /\ born[answer.version + 1] + age <= asked

Answers(op) == busy = None /\ answer # None /\ answer.op = op

\* An answer passes through the caches of its layers, one after the other.
KeptAtMost == IF wrapper = "none" THEN ttl["inner"]
              ELSE IF wrapper = "kupo" THEN ttl["outer"] ELSE ttl["inner"] + ttl["outer"]

\* UTxOs are those of the node at most the ttl of the slot ago: whatever was
\* cached under a slot was asked for when the slot was known
\* (ogmios_v6.py:241-251, ogmios_v5.py:255-274, cardano_cli.py:407-420).  Forks,
\* which reuse slots, and a Kupo indexer, which lags, are excepted: with them, the
\* answer was asked for within the ttl of the caches it went through (kupo.py:58-61,
\* ogmios_v6.py:82-84).
UtxosFresh ==
  Answers("utxos") =>
    /\ "fork" \notin spoilt /\ wrapper # "kupo" => ~Outdated(SlotTtl)
    /\ answer.at < asked =>
         asked - answer.at < KeptAtMost

\* Protocol parameters are at most an interval and the ttl of the slot behind the
\* node, as long as nothing else has used the one test of the tip
\* (ogmios_v6.py:126-149): in v6 not genesis_param, no request has failed, no
\* fork has set the slot back, and a node of cli was not synchronised
\* (cardano_cli.py:281).
ParamsBounded ==
  /\ Answers("protocol_param") /\ spoilt = {}
  /\ backend = "v6" => readers = {"protocol_param"}
  => ~Outdated(interval + SlotTtl)

=============================================================================

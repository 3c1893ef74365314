-------------------------- MODULE BlockfrostContext --------------------------
(***************************************************************************)
(* BlockFrostChainContext of backend/blockfrost.py: the properties it      *)
(* caches for the length of an epoch, against a server that moves to the   *)
(* next epoch between any two requests, and the temporary files of its     *)
(* submit and evaluate calls.                                              *)
(*                                                                         *)
(* A cached value is modelled by its age: the epoch the server was in when *)
(* it answered.  All cached properties share one _epoch_info, the epoch    *)
(* whose end_time decides whether to ask again.                            *)
(***************************************************************************)
EXTENDS Integers

CONSTANTS
  Properties,   \* the cached properties the program reads
  EpochLength,  \* ticks of the clock in an epoch
  None,         \* no value, nobody
  ReadsFail,    \* the second request of a read may raise
  MaxTime,      \* bound: ticks of the clock
  MaxCalls      \* bound: submit and evaluate calls

ASSUME PropertiesAssumption == Properties \subseteq {"epoch", "genesis_param", "protocol_param"}
ASSUME LengthAssumption == EpochLength \in Nat \ {0}
ASSUME NoneAssumption ==
  None \notin Int \cup Properties \cup {"submit", "evaluate"}
ASSUME BoundAssumption == ReadsFail \in BOOLEAN /\ MaxTime \in Nat /\ MaxCalls \in Nat

VARIABLES
  time,      \* the clock, int(time.time())
  server,    \* the epoch the API server is in
  info,      \* the epoch of _epoch_info
  cached,    \* _epoch, _genesis_param, _protocol_param
  busy,      \* None, the property being fetched, "submit" or "evaluate"
  since,     \* history: the server's epoch when the last read began
  answer,    \* [property, value] of the last read, or None
  readers,   \* history: the properties read so far
  broken,    \* history: the properties whose last request failed
  files,     \* temporary files on disk
  escaped,   \* history: exceptions other than TransactionFailedException
  raised,    \* what the last submit or evaluate raised, or None
  calls      \* counter of the bound

cacheVars == <<info, cached, since, answer, readers, broken>>
fileVars == <<files, escaped, raised, calls>>
vars == <<time, server, busy, cacheVars, fileVars>>

Epochs == Nat
EndTime(e) == (e + 1) * EpochLength

-----------------------------------------------------------------------------
(* The world *)

Tick ==
  /\ time < MaxTime
  /\ time' = time + 1
  /\ UNCHANGED <<server, busy, cacheVars, fileVars>>

\* The first block of the next epoch reaches the server, at the end of the
\* epoch or later.
Rollover ==
  /\ time >= EndTime(server)
  /\ server' = server + 1
  /\ UNCHANGED <<time, busy, cacheVars, fileVars>>

-----------------------------------------------------------------------------
(* The cached properties *)

\* `not self._epoch`: epoch 0 counts as not cached.
Missing(p) == cached[p] \in (IF p = "epoch" THEN {None, 0} ELSE {None})

\* Mutant: the epoch is not over at its end_time.
EpochOverLate == time > EndTime(info)

EpochOver == time >= EndTime(info)

\* Nothing is cached: the property is fetched and _epoch_info is not looked at.
ReadMissing(p) ==
  /\ busy = None
  /\ Missing(p)
  /\ busy' = p
  /\ since' = server
  /\ readers' = readers \cup {p}
  /\ UNCHANGED <<time, server, info, cached, answer, broken, fileVars>>

\* _check_epoch_and_update is True: it has got the latest epoch from the server.
ReadOutdated(p) ==
  /\ busy = None
  /\ ~Missing(p)
  /\ EpochOver
  /\ info' = server
  /\ busy' = p
  /\ since' = server
  /\ readers' = readers \cup {p}
  /\ UNCHANGED <<time, server, cached, answer, broken, fileVars>>

ReadCached(p) ==
  /\ busy = None
  /\ ~Missing(p)
  /\ ~EpochOver
  /\ answer' = [property |-> p, value |-> cached[p]]
  /\ since' = server
  /\ readers' = readers \cup {p}
  /\ UNCHANGED <<time, server, busy, info, cached, broken, fileVars>>

\* The second request, for the property itself.
Fetch ==
  /\ busy \in Properties
  /\ cached' = [cached EXCEPT ![busy] = server]
  /\ answer' = [property |-> busy, value |-> server]
  /\ busy' = None
  /\ broken' = broken \ {busy}
  /\ UNCHANGED <<time, server, info, since, readers, fileVars>>

\* That request raises, and so does the read; _epoch_info keeps the epoch it
\* got.  (A failure of the first request changes nothing.)
FetchBreaks ==
  /\ ReadsFail
  /\ busy \in Properties
  /\ answer' = None
  /\ busy' = None
  /\ broken' = broken \cup {busy}
  /\ UNCHANGED <<time, server, info, cached, since, readers, fileVars>>

-----------------------------------------------------------------------------
(* submit_tx_cbor and evaluate_tx_cbor *)

\* The transaction is written to a temporary file that is kept when closed.
BeginCall(c) ==
  /\ busy = None
  /\ calls < MaxCalls
  /\ calls' = calls + 1
  /\ files' = files + 1
  /\ busy' = c
  /\ raised' = None
  /\ UNCHANGED <<time, server, cacheVars, escaped>>

\* The API answers; evaluate raises when the answer holds no result.
CallAnswered ==
  /\ busy \in {"submit", "evaluate"}
  /\ raised' \in {None} \cup (IF busy = "evaluate" THEN {"TransactionFailed"} ELSE {})
  /\ files' = files - 1
  /\ busy' = None
  /\ UNCHANGED <<time, server, cacheVars, escaped, calls>>

\* Mutant: submit does not remove the file.
CallRefusedKeepingFile ==
  /\ busy \in {"submit", "evaluate"}
  /\ IF busy = "submit"
     THEN raised' = "TransactionFailed" /\ UNCHANGED <<files, escaped>>
     ELSE escaped' = escaped + 1 /\ raised' = "ApiError" /\ UNCHANGED files
  /\ busy' = None
  /\ UNCHANGED <<time, server, cacheVars, calls>>

\* The API raises an ApiError: submit removes the file and raises a
\* TransactionFailedException, evaluate does neither.
CallRefused ==
  /\ busy \in {"submit", "evaluate"}
  /\ IF busy = "submit"
     THEN files' = files - 1 /\ raised' = "TransactionFailed" /\ UNCHANGED escaped
     ELSE escaped' = escaped + 1 /\ raised' = "ApiError" /\ UNCHANGED files
  /\ busy' = None
  /\ UNCHANGED <<time, server, cacheVars, calls>>

\* Any other exception, a lost connection for one.
CallBreaks ==
  /\ busy \in {"submit", "evaluate"}
  /\ escaped' = escaped + 1
  /\ raised' = "other"
  /\ busy' = None
  /\ UNCHANGED <<time, server, cacheVars, files, calls>>

-----------------------------------------------------------------------------

\* __init__ asks for the latest epoch.
Init ==
  /\ time = 0
  /\ server = 0
  /\ info = server
  /\ cached = [p \in Properties |-> None]
  /\ busy = None
  /\ since = 0
  /\ answer = None
  /\ readers = {}
  /\ broken = {}
  /\ files = 0
  /\ escaped = 0
  /\ raised = None
  /\ calls = 0

Next ==
  \/ Tick \/ Rollover
  \/ \E p \in Properties : ReadMissing(p) \/ ReadOutdated(p) \/ ReadCached(p)
  \/ Fetch \/ FetchBreaks
  \/ \E c \in {"submit", "evaluate"} : BeginCall(c)
  \/ CallAnswered \/ CallRefused \/ CallBreaks

Spec == Init /\ [][Next]_vars

-----------------------------------------------------------------------------
(* Properties *)

\* Every variable of the context keeps its type.
TypeOK ==
  /\ time \in Nat
  /\ server \in Epochs
  /\ info \in Epochs
  /\ cached \in [Properties -> Epochs \cup {None}]
  /\ busy \in Properties \cup {None, "submit", "evaluate"}
  /\ since \in Epochs
  /\ answer \in {None} \cup [property : Properties, value : Epochs]
  /\ readers \in SUBSET Properties
  /\ broken \in SUBSET Properties
  /\ files \in Nat
  /\ escaped \in Nat
  /\ raised \in {None, "TransactionFailed", "ApiError", "other"}
  /\ calls \in 0..MaxCalls

Answered == busy \notin Properties /\ answer # None

\* A read returns nothing older than the epoch the server was in when the read
\* began.
Current == answer.value >= since

\* So it is as long as the program reads one property only and no request for
\* it has failed since, although the server may be late and may move between
\* the two requests of a read (blockfrost.py:100-135).
SoleReaderIsCurrent ==
  Answered /\ readers = {answer.property} /\ answer.property \notin broken => Current

\* With several properties or failing requests, an answer is too old only if a
\* read of another property or a failed one has taken the one refresh of the
\* epoch: _epoch_info is ahead of the answer (blockfrost.py:100-105).
StaleOnlyIfOvertaken == Answered /\ ~Current => answer.value < info

\* An outdated answer has one of these two explanations, and no other: the only
\* property a program reads is current until a request for it fails, and any
\* other is outdated only where the shared refresh has overtaken it
\* (blockfrost.py:100-135).
StaleReadsExplained == SoleReaderIsCurrent /\ StaleOnlyIfOvertaken

\* The documented meaning of the properties (base.py:123,138: "Get current
\* protocol parameters", "Current epoch number").  The genesis parameters are
\* left out: they never change.  Two properties are enough to violate it, with no
\* request that fails.
ReadsAreCurrent == Answered /\ answer.property # "genesis_param" => Current

\* The server is in the epoch of _epoch_info as long as that has not ended:
\* that is why a read may skip the request (blockfrost.py:101).
SkippedRequestIsSound == ~EpochOver => server = info

\* submit and evaluate leave a temporary file behind exactly when an exception
\* other than the documented one leaves them (blockfrost.py:252-299).
FilesLeftByEscapes ==
  files = escaped + (IF busy \in {"submit", "evaluate"} THEN 1 ELSE 0)

\* The inductive invariant behind the properties above: epochs begin in time,
\* nothing is newer than the server, and what the only reader holds is as new as
\* _epoch_info unless it is being fetched or its last request failed.
ServerInTime == server > 0 => time >= EndTime(server - 1)
NothingAhead ==
  /\ info <= server
  /\ since <= server
  /\ \A p \in Properties : cached[p] # None => p \in readers /\ cached[p] <= server
SoleReaderKeepsUp ==
  /\ busy \in Properties => busy \in readers
  /\ \A p \in Properties :
       readers = {p} /\ busy # p /\ p \notin broken /\ cached[p] # None =>
         cached[p] >= info

ContextInv ==
  /\ TypeOK
  /\ ServerInTime
  /\ NothingAhead
  /\ SoleReaderKeepsUp
  /\ FilesLeftByEscapes
  /\ SoleReaderIsCurrent
  /\ StaleOnlyIfOvertaken

=============================================================================

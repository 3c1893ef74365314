--------------------------- MODULE BlockfrostProofs ---------------------------
(***************************************************************************)
(* Theorems about the cached properties of BlockfrostContext, for every    *)
(* length of an epoch and without bounds on the clock.                     *)
(***************************************************************************)
EXTENDS BlockfrostContext, TLAPS

USE DEF Epochs

\* An epoch ends no earlier than the epochs before it.
LEMMA EndTimeMonotone ==
  ASSUME NEW a \in Nat, NEW b \in Nat, a <= b
  PROVE  EndTime(a) <= EndTime(b) /\ EndTime(a) \in Nat
<1>1. EpochLength \in Nat
  BY LengthAssumption
<1>2. PICK d \in Nat : b = a + d
  <2>1. b - a \in Nat /\ b = a + (b - a)
    OBVIOUS
  <2> QED
    BY <2>1
<1>3. EndTime(b) = EndTime(a) + d * EpochLength
  BY <1>1, <1>2 DEF EndTime
<1>4. d * EpochLength \in Nat /\ EndTime(a) \in Nat
  BY <1>1 DEF EndTime
<1> QED
  BY <1>3, <1>4

\* While the epoch of _epoch_info lasts, the server has not left it.
LEMMA ServerStays ==
  ASSUME TypeOK, ServerInTime, NothingAhead, ~EpochOver
  PROVE  server = info
<1>1. info \in Nat /\ server \in Nat /\ time \in Nat /\ info <= server
  BY DEF TypeOK, NothingAhead
<1>2. SUFFICES ASSUME info < server PROVE FALSE
  BY <1>1
<1>3. server - 1 \in Nat /\ info <= server - 1 /\ server > 0
  BY <1>1, <1>2
<1>4. EndTime(info) <= EndTime(server - 1) /\ EndTime(info) \in Nat
  BY <1>1, <1>3, EndTimeMonotone
<1>5. time >= EndTime(server - 1) /\ EndTime(server - 1) \in Nat
  BY <1>3, EndTimeMonotone DEF ServerInTime
<1> QED
  BY <1>1, <1>4, <1>5 DEF EpochOver

LEMMA InitContext == Init => ContextInv
<1> SUFFICES ASSUME Init PROVE ContextInv
  OBVIOUS
<1> USE NoneAssumption, PropertiesAssumption, BoundAssumption DEF Init
<1>1. TypeOK
  BY DEF TypeOK
<1>2. ServerInTime /\ NothingAhead /\ SoleReaderKeepsUp
  BY DEF ServerInTime, NothingAhead, SoleReaderKeepsUp
<1>3. FilesLeftByEscapes
  BY DEF FilesLeftByEscapes
<1>4. SoleReaderIsCurrent /\ StaleOnlyIfOvertaken
  BY DEF SoleReaderIsCurrent, StaleOnlyIfOvertaken, Answered
<1> QED
  BY <1>1, <1>2, <1>3, <1>4 DEF ContextInv

\* Each action of the world and of the context keeps the invariant.
LEMMA NextContext == ContextInv /\ [Next]_vars => ContextInv'
<1> SUFFICES ASSUME ContextInv, [Next]_vars PROVE ContextInv'
  OBVIOUS
<1> USE NoneAssumption, PropertiesAssumption, BoundAssumption DEF ContextInv
<1> USE DEF TypeOK, ServerInTime, NothingAhead, SoleReaderKeepsUp, FilesLeftByEscapes,
            SoleReaderIsCurrent, StaleOnlyIfOvertaken, Answered, Current
<1>1. CASE Tick
  <2>1. EndTime(server - 1)' = EndTime(server - 1)
    BY <1>1 DEF Tick, EndTime
  <2>2. server > 0 => EndTime(server - 1) \in Nat
    BY EndTimeMonotone
  <2> QED
    BY <1>1, <2>1, <2>2 DEF Tick, cacheVars, fileVars
<1>2. CASE Rollover
  <2>1. server' > 0 /\ EndTime(server' - 1) = EndTime(server)
    BY <1>2 DEF Rollover, EndTime
  <2> QED
    BY <1>2, <2>1 DEF Rollover, cacheVars, fileVars
<1>3. ASSUME NEW p \in Properties, ReadMissing(p) PROVE ContextInv'
  BY <1>3 DEF ReadMissing, Missing, fileVars
<1>4. ASSUME NEW p \in Properties, ReadOutdated(p) PROVE ContextInv'
  BY <1>4 DEF ReadOutdated, Missing, fileVars
<1>5. ASSUME NEW p \in Properties, ReadCached(p) PROVE ContextInv'
  <2>1. server = info
    BY <1>5, ServerStays DEF ReadCached
  <2>2. cached[p] # None /\ cached[p] \in Nat
    BY <1>5 DEF ReadCached, Missing
  <2> QED
    BY <1>5, <2>1, <2>2 DEF ReadCached, fileVars
<1>6. CASE Fetch
  BY <1>6 DEF Fetch, fileVars
<1>7. CASE FetchBreaks
  BY <1>7 DEF FetchBreaks, fileVars
<1>8. ASSUME NEW c \in {"submit", "evaluate"}, BeginCall(c) PROVE ContextInv'
  BY <1>8 DEF BeginCall, cacheVars
<1>9. CASE CallAnswered
  BY <1>9 DEF CallAnswered, cacheVars
<1>10. CASE CallRefused
  BY <1>10 DEF CallRefused, cacheVars
<1>11. CASE CallBreaks
  BY <1>11 DEF CallBreaks, cacheVars
<1>12. CASE UNCHANGED vars
  BY <1>12 DEF vars, cacheVars, fileVars
<1> QED
  BY <1>1, <1>2, <1>3, <1>4, <1>5, <1>6, <1>7, <1>8, <1>9, <1>10, <1>11, <1>12
     DEF Next

\* The whole invariant of the context: types, the cache and the temporary files
\* (blockfrost.py:100-135, 252-299).
THEOREM ContextInvariant == Spec => []ContextInv
  BY InitContext, NextContext, PTL DEF Spec

\* A program that reads one cached property only, and whose last request did not
\* fail, never gets an outdated one; any other outdated answer has been overtaken:
\* a read has refreshed _epoch_info without refreshing the answer
\* (blockfrost.py:100-135).
THEOREM StaleReadsTheorem == Spec => []StaleReadsExplained
<1>1. ContextInv => StaleReadsExplained
  BY DEF ContextInv, StaleReadsExplained
<1> QED
  BY <1>1, ContextInvariant, PTL

\* A request that is skipped would have found the epoch unchanged
\* (blockfrost.py:101).
THEOREM SkippedRequestTheorem == Spec => []SkippedRequestIsSound
<1>1. ContextInv => SkippedRequestIsSound
  BY ServerStays DEF ContextInv, SkippedRequestIsSound
<1> QED
  BY <1>1, ContextInvariant, PTL

\* Temporary files stay behind only with an undocumented exception
\* (blockfrost.py:252-299).
THEOREM FilesTheorem == Spec => []FilesLeftByEscapes
<1>1. ContextInv => FilesLeftByEscapes
  BY DEF ContextInv
<1> QED
  BY <1>1, ContextInvariant, PTL

=============================================================================

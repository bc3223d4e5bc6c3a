---------------------------- MODULE ScannerProofs ----------------------------
(***************************************************************************)
(* Proofs about the acquisition scanner (Scanner.tla): type correctness,  *)
(* which includes that the search window never overflows, and the bound   *)
(* on how far the scan may run past its deadline, for every sample rate,  *)
(* every deadline and every set of cell ids.                               *)
(***************************************************************************)
EXTENDS Scanner, TLAPS

\* The configuration read at Init gives natural chunk and window sizes.
LEMMA ConfSizes ==
    ASSUME NEW c \in ScanConfig
    PROVE  /\ SearchBufferSize(c.srate_hz) \in Nat
           /\ SamplesPerIter(c.srate_hz) \in Nat
           /\ c.scan_duration_ms \in Nat
  <1>0. c.srate_hz \in SrateValues /\ c.scan_duration_ms \in DurationValues
    BY DEF ScanConfig
  <1>a. c.srate_hz \in SrateValues
    BY <1>0
  <1>b. c.scan_duration_ms \in DurationValues
    BY <1>0
  <1>c. SrateValues \subseteq Nat /\ DurationValues \subseteq Nat
    BY ScannerAssumption
  <1>1. c.srate_hz \in Nat /\ c.scan_duration_ms \in Nat
    BY <1>a, <1>b, <1>c
  <1>2. QED
    BY <1>1 DEF SearchBufferSize, SamplesPerIter

\* A copy into the window takes at most the room left in it.
LEMMA CopiedBounds ==
    ASSUME NEW pos \in Nat, NEW w \in Nat, NEW n \in Nat, pos <= w
    PROVE  /\ MinOf(n, w - pos) \in Nat
           /\ pos + MinOf(n, w - pos) <= w
  BY DEF MinOf

\* A saturated clock stays within 0..cap.
LEMMA LaterBounds ==
    ASSUME NEW c \in Nat, NEW d \in Nat, NEW cap \in Nat
    PROVE  MinOf(c + d, cap) \in 0..cap
  BY DEF MinOf

-----------------------------------------------------------------------------
\* The initial states of the scanner are well typed.
LEMMA ScannerTypeInit == Init => TypeOK
<1> SUFFICES ASSUME Init PROVE TypeOK
  OBVIOUS
<1>1. conf \in ScanConfig
  BY DEF Init
<1>2. Window \in Nat /\ conf.scan_duration_ms \in Nat
  BY <1>1, ConfSizes DEF Window
<1>3. [found |-> FALSE, pci |-> 0] \in SearchResult
  BY DEF SearchResult
<1>4. clock \in 0..(conf.scan_duration_ms + IterMs + 1)
      /\ search_buffer_pos \in 0..Window
  BY <1>2 DEF Init, IterMs, BackoffMs
<1>5. QED
  BY <1>1, <1>3, <1>4 DEF Init, TypeOK

\* Every step of the scanner, the signal included, preserves TypeOK.
LEMMA ScannerTypeStep == TypeOK /\ [Next]_vars => TypeOK'
<1> SUFFICES ASSUME TypeOK, [Next]_vars PROVE TypeOK'
  OBVIOUS
<1> DEFINE cap == conf.scan_duration_ms + IterMs + 1
<1>0. /\ Window \in Nat /\ Chunk \in Nat /\ cap \in Nat
      /\ search_buffer_pos \in Nat /\ search_buffer_pos <= Window
      /\ clock \in Nat
  BY ConfSizes DEF TypeOK, Window, Chunk, IterMs, BackoffMs
<1>1. CASE OpenSink
  BY <1>1 DEF OpenSink, TypeOK, Window
<1>2. CASE StartRxFail
  BY <1>2 DEF StartRxFail, Return, TypeOK, Window
<1>3. CASE StartRxOk
  BY <1>3, <1>0 DEF StartRxOk, TypeOK, Window
<1>4. CASE ScanExit
  BY <1>4 DEF ScanExit, StopRx, Return, TypeOK, Window
<1>5. CASE RecvError
  <2>1. clock' \in 0..cap
    BY <1>5, <1>0, LaterBounds DEF RecvError, Later, IterMs, BackoffMs
  <2>2. QED
    BY <1>5, <2>1 DEF RecvError, TypeOK, Window
<1>6. CASE RecvChunk
  <2>1. clock' \in 0..cap
    BY <1>6, <1>0, LaterBounds DEF RecvChunk, Later
  <2>2. search_buffer_pos' \in 0..Window /\ received' \in Nat
    <3>1. PICK nrecv \in 1..Chunk :
              /\ search_buffer_pos' = search_buffer_pos + Copied(nrecv)
              /\ received' = received + nrecv
      BY <1>6 DEF RecvChunk
    <3>2. /\ MinOf(nrecv, Window - search_buffer_pos) \in Nat
          /\ search_buffer_pos + MinOf(nrecv, Window - search_buffer_pos)
               <= Window
      <4>1. nrecv \in Nat
        BY <1>0
      <4>2. QED
        BY <1>0, <4>1, CopiedBounds
    <3>3. QED
      BY <1>0, <3>1, <3>2 DEF Copied, TypeOK
  <2>3. QED
    BY <1>6, <2>1, <2>2 DEF RecvChunk, TypeOK, Window
<1>7. CASE SearchMiss
  <2>1. clock' \in 0..cap
    BY <1>7, <1>0, LaterBounds DEF SearchMiss, Later
  <2>2. received' \in Nat /\ searched' \in Nat
    BY <1>7, <1>0 DEF SearchMiss, TypeOK
  <2>3. result' \in SearchResult
    BY <1>7 DEF SearchMiss, SearchResult
  <2>4. QED
    BY <1>7, <1>0, <2>1, <2>2, <2>3 DEF SearchMiss, TypeOK, Window
<1>8. CASE SearchFound
  <2>1. search_buffer_pos' \in 0..Window /\ received' \in Nat
    <3>1. PICK nrecv \in 1..Chunk :
              /\ search_buffer_pos' = search_buffer_pos + Copied(nrecv)
              /\ received' = received + nrecv
      BY <1>8 DEF SearchFound
    <3>2. /\ MinOf(nrecv, Window - search_buffer_pos) \in Nat
          /\ search_buffer_pos + MinOf(nrecv, Window - search_buffer_pos)
               <= Window
      <4>1. nrecv \in Nat
        BY <1>0
      <4>2. QED
        BY <1>0, <4>1, CopiedBounds
    <3>3. QED
      BY <1>0, <3>1, <3>2 DEF Copied, TypeOK
  <2>2. result' \in SearchResult
    BY <1>8 DEF SearchFound, SearchResult
  <2>3. pc' = "done" /\ sink_open' = FALSE /\ ret' = TRUE
        /\ rx_streaming' = FALSE
    BY <1>8 DEF SearchFound, Return, StopRx
  <2>4. UNCHANGED <<running, conf, clock, searched>>
    BY <1>8 DEF SearchFound
  <2>5. QED
    BY <2>1, <2>2, <2>3, <2>4 DEF TypeOK, Window
<1>9. CASE Cancel
  BY <1>9 DEF Cancel, TypeOK, Window
<1>10. CASE Terminated \/ UNCHANGED vars
  BY <1>10 DEF Terminated, vars, TypeOK, Window
<1>11. QED
  BY <1>1, <1>2, <1>3, <1>4, <1>5, <1>6, <1>7, <1>8, <1>9, <1>10
     DEF Next, Scan

\* Every reachable state of the scanner is well typed; in particular
\* search_buffer_pos never exceeds search_buffer_size, so the memcpy of
\* main.cpp:157 stays inside the window.
THEOREM ScannerTypeCorrect == Spec => []TypeOK
  BY ScannerTypeInit, ScannerTypeStep, PTL DEF Spec

-----------------------------------------------------------------------------
\* The deadline is checked at the top of every iteration and an iteration
\* lasts at most IterMs, so while the loop runs the clock is never more than
\* one iteration past scan_duration (the spec's "at or shortly after the
\* deadline").  ScanDeadline is inductive together with TypeOK.
THEOREM ScanDeadlineCorrect == Spec => []ScanDeadline
<1>1. Init => ScanDeadline
  BY DEF Init, ScanDeadline
<1>2. TypeOK /\ ScanDeadline /\ [Next]_vars => ScanDeadline'
  <2> SUFFICES ASSUME TypeOK, ScanDeadline, [Next]_vars PROVE ScanDeadline'
    OBVIOUS
  <2> DEFINE limit == conf.scan_duration_ms + IterMs
  <2>0. conf.scan_duration_ms \in Nat /\ clock \in Nat
    BY ConfSizes DEF TypeOK
  \* A step of the loop starts before the deadline and adds at most IterMs.
  <2>1. ASSUME NEW d \in 0..IterMs, ~TimedOut
        PROVE  Later(d) <= limit
    BY <2>0, <2>1 DEF Later, MinOf, TimedOut, IterMs, BackoffMs
  <2>2. CASE RecvError
    BY <2>2, <2>1 DEF RecvError, ScanDeadline, IterMs, BackoffMs
  <2>3. CASE RecvChunk
    BY <2>3, <2>1 DEF RecvChunk, ScanDeadline, IterMs, BackoffMs
  <2>4. CASE SearchMiss
    BY <2>4, <2>1 DEF SearchMiss, ScanDeadline, IterMs, BackoffMs
  <2>5. CASE StartRxOk
    BY <2>5, <2>0 DEF StartRxOk, ScanDeadline, IterMs, BackoffMs
  <2>6. CASE OpenSink \/ StartRxFail \/ ScanExit \/ SearchFound
    BY <2>6 DEF OpenSink, StartRxFail, ScanExit, SearchFound, Return,
                ScanDeadline
  <2>7. CASE Cancel \/ Terminated \/ UNCHANGED vars
    BY <2>7 DEF Cancel, Terminated, vars, ScanDeadline
  <2>8. QED
    BY <2>2, <2>3, <2>4, <2>5, <2>6, <2>7 DEF Next, Scan
<1>3. QED
  BY <1>1, <1>2, ScannerTypeCorrect, PTL DEF Spec

-----------------------------------------------------------------------------
\* StreamsInv holds initially and is preserved by every step.
LEMMA StreamsInit == Init => StreamsInv
  BY DEF Init, StreamsInv

LEMMA StreamsStep == StreamsInv /\ [Next]_vars => StreamsInv'
<1> SUFFICES ASSUME StreamsInv, [Next]_vars PROVE StreamsInv'
  OBVIOUS
<1>1. CASE OpenSink \/ StartRxOk
  BY <1>1 DEF OpenSink, StartRxOk, StreamsInv
<1>2. CASE StartRxFail \/ ScanExit \/ SearchFound
  BY <1>2 DEF StartRxFail, ScanExit, SearchFound, Return, StopRx, StreamsInv
<1>3. CASE RecvError \/ RecvChunk \/ SearchMiss
  BY <1>3 DEF RecvError, RecvChunk, SearchMiss, StreamsInv
<1>4. CASE Cancel \/ Terminated \/ UNCHANGED vars
  BY <1>4 DEF Cancel, Terminated, vars, StreamsInv
<1>5. QED
  BY <1>1, <1>2, <1>3, <1>4 DEF Next, Scan
=============================================================================

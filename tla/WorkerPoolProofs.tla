-------------------------- MODULE WorkerPoolProofs --------------------------
(* Proofs about WorkerPool, for every value of MAX_CONCURRENT_PER_QUEUE. *)
EXTENDS WorkerPool, TLAPS

\* While receive_tasks is under way, whatever it may still return fits beside
\* the coroutines counted when it was called and those created just before,
\* of which there are at most MaxConcurrent.
SlotBound ==
    /\ unstarted <= MaxConcurrent
    /\ in_flight + asked + unstarted <= 2 * MaxConcurrent
    /\ CounterIsExact

PoolInv == TypeOK /\ SlotBound

LEMMA PoolInductive == (Init => PoolInv) /\ (PoolInv /\ [Next]_vars => PoolInv')
  <1> USE MaxConcurrentAssumption DEF PoolInv, TypeOK, SlotBound, CounterIsExact
  <1>1. Init => PoolInv
    BY DEF Init
  <1>2. ASSUME PoolInv, [Next]_vars PROVE PoolInv'
    <2> USE <1>2
    <2>1. ASSUME NEW n \in 0..asked, Received(n) PROVE PoolInv'
      BY <2>1 DEF Received, Poll, Available
    <2>2. CASE ReceiveFails
      BY <2>2 DEF ReceiveFails
    <2>3. CASE Wake
      BY <2>3 DEF Wake, Poll, Available
    <2>4. CASE StartTask
      BY <2>4 DEF StartTask, HandleStarts
    <2>5. CASE StartJunk
      BY <2>5 DEF StartJunk, HandleStarts
    <2>6. CASE Processed
      BY <2>6 DEF Processed
    <2>7. CASE ProcessingEnds
      BY <2>7 DEF ProcessingEnds
    <2>8. CASE DeleteEnds
      BY <2>8 DEF DeleteEnds
    <2>9. CASE UNCHANGED vars
      BY <2>9 DEF vars
    <2> QED
      BY <2>1, <2>2, <2>3, <2>4, <2>5, <2>6, <2>7, <2>8, <2>9 DEF Next
  <1> QED
    BY <1>1, <1>2

\* Never more than twice the limit is handed out, whatever the order in which
\* coroutines end and messages arrive.
THEOREM PoolIsBounded == Spec => []AtMostTwice
  <1>1. PoolInv => AtMostTwice
    BY MaxConcurrentAssumption DEF PoolInv, TypeOK, SlotBound, CounterIsExact, AtMostTwice
  <1> QED
    BY <1>1, PoolInductive, PTL DEF Spec

\* in_flight of _run_queue_pool counts exactly the handle coroutines that have
\* started, through every early return and exception.
THEOREM CounterStaysExact == Spec => []CounterIsExact
  <1>1. PoolInv => CounterIsExact
    BY DEF PoolInv, SlotBound
  <1> QED
    BY <1>1, PoolInductive, PTL DEF Spec

=============================================================================

--------------------------- MODULE WaitGroupProofs ---------------------------
(***************************************************************************)
(* Theorems about the waitgroup of a pipe: it counts exactly what is still *)
(* to be released, so it never goes negative and cleanup begins only when  *)
(* nothing of the pipe is left.  The inductive invariant is CountInv:      *)
(* a live pipe's count is what the queue, the workers and the producer     *)
(* hold, and of any other pipe nobody holds anything.  The two have to be  *)
(* proved together: what is held is what keeps a pipe live, and only for a *)
(* live pipe is a release matched by something held.                       *)
(***************************************************************************)
EXTENDS CampaignManagerProofs, FunctionTheorems, FiniteSetTheorems

-----------------------------------------------------------------------------
(* Counting the elements of a queue that have a mark *)

Marked(q, M) == {i \in 1..Len(q) : q[i] \in M}

\* The marked places of a queue are finitely many.
LEMMA MarkedFinite ==
  ASSUME NEW S, NEW q \in Seq(S), NEW M
  PROVE  IsFiniteSet(Marked(q, M)) /\ Cardinality(Marked(q, M)) \in Nat
<1>1. IsFiniteSet(1..Len(q)) /\ Marked(q, M) \in SUBSET (1..Len(q))
  BY FS_Interval DEF Marked
<1> QED BY <1>1, FS_Subset, FS_CardinalityType

\* A send on a channel adds one place, marked if the element is.
LEMMA MarkedAppend ==
  ASSUME NEW S, NEW q \in Seq(S), NEW e \in S, NEW M
  PROVE  Cardinality(Marked(Append(q, e), M))
           = Cardinality(Marked(q, M)) + IF e \in M THEN 1 ELSE 0
<1> DEFINE n == Len(q) + 1
<1>1. /\ Len(Append(q, e)) = n /\ Append(q, e)[n] = e /\ n \in Nat
      /\ \A i \in 1..Len(q) : Append(q, e)[i] = q[i]
  OBVIOUS
<1>2. n \notin Marked(q, M)
  BY DEF Marked
<1>3. CASE e \in M
  <2>1. Marked(Append(q, e), M) = Marked(q, M) \cup {n}
    BY <1>1, <1>3 DEF Marked
  <2> QED BY <1>2, <1>3, <2>1, MarkedFinite, FS_AddElement
<1>4. CASE e \notin M
  <2>1. Marked(Append(q, e), M) = Marked(q, M)
    BY <1>1, <1>4 DEF Marked
  <2> QED BY <1>4, <2>1, MarkedFinite
<1> QED BY <1>3, <1>4

\* A receive takes the first place away; the other marks move up by one.
LEMMA MarkedTail ==
  ASSUME NEW S, NEW q \in Seq(S), q # <<>>, NEW M
  PROVE  Cardinality(Marked(Tail(q), M))
           = Cardinality(Marked(q, M)) - IF Head(q) \in M THEN 1 ELSE 0
<1> DEFINE rest == Marked(q, M) \ {1}
           back == [i \in rest |-> i - 1]
<1>1. /\ Len(q) \in Nat \ {0} /\ Len(Tail(q)) = Len(q) - 1 /\ Head(q) = q[1]
      /\ \A i \in 1..Len(Tail(q)) : Tail(q)[i] = q[i + 1]
      /\ Tail(q) \in Seq(S)
  OBVIOUS
<1>2. \A i \in rest : i \in 2..Len(q) /\ q[i] \in M
  BY <1>1 DEF Marked
<1>3. back \in [rest -> Marked(Tail(q), M)]
  <2> SUFFICES ASSUME NEW i \in rest PROVE i - 1 \in Marked(Tail(q), M)
    OBVIOUS
  <2>1. i - 1 \in 1..Len(Tail(q)) /\ (i - 1) + 1 = i
    BY <1>1, <1>2
  <2> QED BY <1>1, <1>2, <2>1 DEF Marked
<1>4. \A i, j \in rest : back[i] = back[j] => i = j
  BY <1>2
<1>5. \A k \in Marked(Tail(q), M) : \E i \in rest : back[i] = k
  <2> SUFFICES ASSUME NEW k \in Marked(Tail(q), M) PROVE \E i \in rest : back[i] = k
    OBVIOUS
  <2>1. k \in 1..Len(Tail(q)) /\ q[k + 1] \in M
    BY <1>1 DEF Marked
  <2>2. k + 1 \in rest /\ (k + 1) - 1 = k
    BY <1>1, <2>1 DEF Marked
  <2> QED BY <2>2
<1>6. ExistsBijection(rest, Marked(Tail(q), M))
  <2>1. back \in Bijection(rest, Marked(Tail(q), M))
    <3> HIDE DEF back, rest
    <3> QED BY <1>3, <1>4, <1>5, Fun_IsBij
  <2> QED BY <2>1 DEF ExistsBijection
<1>7. IsFiniteSet(Marked(q, M)) /\ Cardinality(Marked(q, M)) \in Nat
  BY MarkedFinite
<1>8. IsFiniteSet(rest)
        /\ Cardinality(rest) = Cardinality(Marked(q, M)) - IF 1 \in Marked(q, M) THEN 1 ELSE 0
  BY <1>7, FS_RemoveElement
<1>9. Cardinality(Marked(Tail(q), M)) = Cardinality(rest)
  <2> HIDE DEF rest
  <2> QED BY <1>6, <1>8, FS_Bijection
<1>10. 1 \in Marked(q, M) <=> Head(q) \in M
  BY <1>1 DEF Marked
<1> QED BY <1>7, <1>8, <1>9, <1>10

-----------------------------------------------------------------------------
(* What is still to be released *)

\* The messages of a pipe.
Of(p) == {m \in Message : m.pipe = p}
\* Counts held by queued messages, by workers, and by nextPipes.
InQueue(p) == Cardinality(Marked(campMsgQ, Of(p)))
Held(p) == Cardinality(Holders(p))
AtRun(p) == Cardinality(Marked(nextPipes, {p}))
\* The producer's count, when Run or the scan has the pipe in hand.
InHand(p) == (IF runPipe = p THEN 1 ELSE 0)
               + (IF scanPc = "enqueue" /\ scanAt = p THEN 1 ELSE 0)
Counted(p) == InQueue(p) + Held(p) + AtRun(p) + InHand(p)

\* The waitgroup of a live pipe counts what is held, and nothing is held of
\* another pipe.
CountInv ==
  \A p \in Pipes : /\ pipe[p].phase = "live" => pipe[p].wg = Counted(p)
                   /\ pipe[p].phase # "live" => Counted(p) = 0
                   /\ Alive(p) /\ pipe[p].phase # "live" => pipe[p].wg = 0

\* What is counted is a number.
LEMMA CountedType ==
  ASSUME TypeOK, NEW p \in Pipes
  PROVE  /\ InQueue(p) \in Nat /\ Held(p) \in Nat /\ AtRun(p) \in Nat /\ InHand(p) \in Nat
         /\ IsFiniteSet(Holders(p))
<1>1. Holders(p) \in SUBSET Workers
  BY DEF Holders
<1>2. IsFiniteSet(Holders(p)) /\ Held(p) \in Nat
  BY <1>1, ManagerAssumption, FS_Subset, FS_CardinalityType DEF Held
<1>3. InQueue(p) \in Nat
  BY MarkedFinite DEF InQueue, TypeOK
<1>4. AtRun(p) \in Nat
  BY MarkedFinite DEF AtRun, TypeOK
<1> QED BY <1>2, <1>3, <1>4 DEF InHand

\* So is their sum, in the state after a step too.
LEMMA CountedNat == TypeOK => \A p \in Pipes : Counted(p) \in Nat
BY CountedType DEF Counted

\* A pipe whose count is zero is nowhere.
LEMMA NothingHeld ==
  ASSUME TypeOK, NEW p \in Pipes, Counted(p) = 0
  PROVE  /\ \A i \in 1..Len(campMsgQ) : campMsgQ[i].pipe # p
         /\ Holders(p) = {} /\ Producing(p) = {} /\ runPipe # p
         /\ ~(scanPc = "enqueue" /\ scanAt = p)
<1>1. InQueue(p) = 0 /\ Held(p) = 0 /\ AtRun(p) = 0 /\ InHand(p) = 0
  <2>1. InQueue(p) \in Nat /\ Held(p) \in Nat /\ AtRun(p) \in Nat /\ InHand(p) \in Nat
    BY CountedType
  <2>2. InQueue(p) + Held(p) + AtRun(p) + InHand(p) = 0
    BY DEF Counted
  <2>3. InQueue(p) = 0
    BY <2>1, <2>2
  <2>4. Held(p) = 0
    BY <2>1, <2>2
  <2>5. AtRun(p) = 0
    BY <2>1, <2>2
  <2>6. InHand(p) = 0
    BY <2>1, <2>2
  <2> QED BY <2>3, <2>4, <2>5, <2>6
<1>2. Marked(campMsgQ, Of(p)) = {} /\ Marked(nextPipes, {p}) = {}
  BY <1>1, MarkedFinite, FS_EmptySet DEF InQueue, AtRun, TypeOK
<1>3. Holders(p) = {}
  BY <1>1, CountedType, FS_EmptySet DEF Held
<1>4. \A i \in 1..Len(campMsgQ) : campMsgQ[i].pipe # p
  BY <1>2 DEF Marked, Of, TypeOK
<1>5. Producing(p) = {}
  BY <1>2 DEF Marked, Producing
<1>6. runPipe # p /\ ~(scanPc = "enqueue" /\ scanAt = p)
  BY <1>1 DEF InHand
<1> QED BY <1>3, <1>4, <1>5, <1>6

\* Whatever is held belongs to a live pipe.
LEMMA HeldIsLive ==
  ASSUME TypeOK, CountInv, NEW p \in Pipes,
         \/ \E i \in 1..Len(campMsgQ) : campMsgQ[i].pipe = p
         \/ Holders(p) # {} \/ Producing(p) # {} \/ runPipe = p
         \/ scanPc = "enqueue" /\ scanAt = p
  PROVE  pipe[p].phase = "live"
BY NothingHeld DEF CountInv

\* Giving a count back takes one from the pipe and none from another.
LEMMA ReleasedCount ==
  ASSUME pipe \in PipeTable, NEW p \in Pipes, NEW q \in Pipes
  PROVE  /\ pipe[q].wg \in Int
         /\ Released(pipe, p)[q].wg = pipe[q].wg - IF q = p THEN 1 ELSE 0
         /\ StoppedAndReleased(p)[q].wg = pipe[q].wg - IF q = p THEN 1 ELSE 0
         /\ q # p => Released(pipe, p)[q] = pipe[q] /\ StoppedAndReleased(p)[q] = pipe[q]
BY DEF Released, StoppedAndReleased, PipeTable, PipeValue

\* Offering a pipe to nextPipes either adds it there or gives its count back.
LEMMA EnqueueCount ==
  ASSUME TypeOK, NEW p \in Pipes, EnqueueOrRelease(p), NEW q \in Pipes
  PROVE  AtRun(q)' - AtRun(q) = pipe'[q].wg - pipe[q].wg + IF q = p THEN 1 ELSE 0
<1>1. AtRun(q) \in Nat /\ pipe[q].wg \in Int
  BY CountedType, ReleasedCount DEF TypeOK
<1>2. CASE nextPipes' = Append(nextPipes, p) /\ UNCHANGED pipe
  <2>1. AtRun(q)' = AtRun(q) + IF p \in {q} THEN 1 ELSE 0
    BY <1>2, MarkedAppend DEF AtRun, TypeOK
  <2> QED BY <1>1, <1>2, <2>1
<1>3. CASE pipe' = StoppedAndReleased(p) /\ UNCHANGED nextPipes
  <2>1. AtRun(q)' = AtRun(q)
    BY <1>3 DEF AtRun
  <2>2. pipe'[q].wg = pipe[q].wg - IF q = p THEN 1 ELSE 0
    BY <1>3, ReleasedCount DEF TypeOK
  <2> QED BY <1>1, <2>1, <2>2
<1> QED BY <1>2, <1>3 DEF EnqueueOrRelease

-----------------------------------------------------------------------------
(* Steps that keep the books *)

\* A step that changes no phase and adds to a waitgroup what it adds to what is
\* held keeps the invariant.
LEMMA BalancedStep ==
  ASSUME TypeOK, TypeOK', CountInv, SamePipes(pipe'),
         \A q \in Pipes : /\ Counted(q)' - Counted(q) = pipe'[q].wg - pipe[q].wg
                          /\ pipe[q].phase # "live" => pipe'[q].wg = pipe[q].wg
  PROVE  CountInv'
<1> SUFFICES ASSUME NEW q \in Pipes
             PROVE  /\ pipe'[q].phase = "live" => pipe'[q].wg = Counted(q)'
                    /\ pipe'[q].phase # "live" => Counted(q)' = 0
                    /\ Alive(q)' /\ pipe'[q].phase # "live" => pipe'[q].wg = 0
  BY DEF CountInv
<1>1. Counted(q) \in Nat
  BY CountedNat
<1>2. Counted(q)' \in Nat
  <2>1. (\A p \in Pipes : Counted(p) \in Nat)'
    BY CountedNat, PTL
  <2> QED BY <2>1
<1>3. pipe'[q].phase = pipe[q].phase /\ (Alive(q)' <=> Alive(q))
  BY DEF SamePipes, Alive
<1>4. pipe[q].wg \in Int /\ pipe'[q].wg \in Int
  BY DEF TypeOK, PipeTable, PipeValue
<1> QED BY <1>1, <1>2, <1>3, <1>4 DEF CountInv

\* A step that touches nothing that is counted.
LEMMA QuietStep ==
  ASSUME TypeOK, TypeOK', CountInv, SamePipes(pipe'),
         \A q \in Pipes : pipe'[q].wg = pipe[q].wg /\ Holders(q)' = Holders(q),
         UNCHANGED <<campMsgQ, nextPipes, runPipe>>,
         scanPc' = "enqueue" <=> scanPc = "enqueue",
         scanPc = "enqueue" => scanAt' = scanAt
  PROVE  CountInv'
<1>1. ASSUME NEW q \in Pipes
      PROVE  Counted(q)' - Counted(q) = pipe'[q].wg - pipe[q].wg
  <2>1. InQueue(q)' = InQueue(q) /\ Held(q)' = Held(q) /\ AtRun(q)' = AtRun(q)
    BY DEF InQueue, Held, AtRun
  <2>2. InHand(q)' = InHand(q)
    BY DEF InHand
  <2>3. Counted(q)' = Counted(q) /\ Counted(q) \in Nat
    BY <2>1, <2>2, CountedNat DEF Counted
  <2>4. pipe[q].wg \in Int
    BY DEF TypeOK, PipeTable, PipeValue
  <2> QED BY <2>3, <2>4
<1> QED BY <1>1, BalancedStep

\* Such a step that leaves the workers where they are.
LEMMA QuietPipes ==
  ASSUME TypeOK, TypeOK', CountInv, SamePipes(pipe'),
         \A q \in Pipes : pipe'[q].wg = pipe[q].wg,
         UNCHANGED <<campMsgQ, nextPipes, runPipe, worker>>,
         scanPc' = "enqueue" <=> scanPc = "enqueue",
         scanPc = "enqueue" => scanAt' = scanAt
  PROVE  CountInv'
BY QuietStep DEF Holders

-----------------------------------------------------------------------------
(* scanCampaigns *)

\* newPipe: nothing was held of the pipe, and the scan holds the producer's count.
LEMMA ScanNewPipeCount ==
  ASSUME TypeOK, TypeOK', PipeMapInv, CountInv,
         NEW c \in Campaigns, NEW p \in Pipes, ScanNewPipe(c, p)
  PROVE  CountInv'
<1>1. /\ pipe[p].phase = "unused" /\ scanPc = "make" /\ scanPc' = "enqueue" /\ scanAt' = p
      /\ pipe' = [pipe EXCEPT ![p] = NewPipe(c)]
      /\ UNCHANGED <<campMsgQ, nextPipes, runPipe, worker>>
  BY DEF ScanNewPipe, Fresh, ByScan, runVars
<1>2. /\ pipe'[p].phase = "live" /\ pipe'[p].wg = 1
      /\ \A q \in Pipes : q # p => pipe'[q] = pipe[q]
  BY <1>1 DEF NewPipe, PipeAt, TypeOK, PipeTable
<1>3. ASSUME NEW q \in Pipes
      PROVE  Counted(q) \in Nat /\ Counted(q)' = Counted(q) + IF q = p THEN 1 ELSE 0
  <2>1. InQueue(q)' = InQueue(q) /\ Held(q)' = Held(q) /\ AtRun(q)' = AtRun(q)
    BY <1>1 DEF InQueue, Held, AtRun, Holders
  <2>2. InHand(q)' = InHand(q) + IF q = p THEN 1 ELSE 0
    BY <1>1 DEF InHand
  <2>3. InQueue(q) \in Nat /\ Held(q) \in Nat /\ AtRun(q) \in Nat /\ InHand(q) \in Nat
    BY CountedType
  <2> QED BY <2>1, <2>2, <2>3 DEF Counted
<1>4. Counted(p) = 0
  BY <1>1 DEF CountInv
<1>5. \A q \in Pipes : q # p => (Alive(q)' <=> Alive(q))
  BY <1>2 DEF Alive
<1> QED BY <1>2, <1>3, <1>4, <1>5 DEF CountInv

\* The scan hands the producer's count to nextPipes, or gives it back.
LEMMA ScanEnqueueCount ==
  ASSUME TypeOK, TypeOK', PipeMapInv, CountInv, ScanEnqueue
  PROVE  CountInv'
<1>1. /\ scanPc = "enqueue" /\ scanPc' = "make" /\ scanAt \in Pipes /\ EnqueueOrRelease(scanAt)
      /\ UNCHANGED <<campMsgQ, runPipe, worker>>
  BY DEF ScanEnqueue, ByScan, runVars, PipeMapInv, PipesHaveCampaigns
<1>2. pipe[scanAt].phase = "live"
  BY <1>1, HeldIsLive
<1>3. SamePipes(pipe')
  BY <1>1, EnqueueType
<1>4. ASSUME NEW q \in Pipes
      PROVE  /\ Counted(q)' - Counted(q) = pipe'[q].wg - pipe[q].wg
             /\ pipe[q].phase # "live" => pipe'[q].wg = pipe[q].wg
  <2>1. InQueue(q)' = InQueue(q) /\ Held(q)' = Held(q)
    BY <1>1 DEF InQueue, Held, Holders
  <2>2. InHand(q)' = InHand(q) - IF q = scanAt THEN 1 ELSE 0
    BY <1>1 DEF InHand
  <2>3. AtRun(q)' - AtRun(q) = pipe'[q].wg - pipe[q].wg + IF q = scanAt THEN 1 ELSE 0
    BY <1>1, EnqueueCount
  <2>4. InQueue(q) \in Nat /\ Held(q) \in Nat /\ AtRun(q) \in Nat /\ InHand(q) \in Nat
    BY CountedType
  <2>5. pipe'[q].wg \in Int /\ pipe[q].wg \in Int
    BY DEF TypeOK, PipeTable, PipeValue
  <2>6. AtRun(q)' \in Int
    BY <2>3, MarkedFinite DEF AtRun, TypeOK
  <2>7. Counted(q)' - Counted(q) = pipe'[q].wg - pipe[q].wg
    BY <2>1, <2>2, <2>3, <2>4, <2>5, <2>6 DEF Counted
  <2>8. q # scanAt => pipe'[q].wg = pipe[q].wg
    BY <1>1, ReleasedCount, SMTT(30) DEF EnqueueOrRelease, TypeOK
  <2> QED BY <1>2, <2>7, <2>8
<1> QED BY <1>3, <1>4, BalancedStep

\* Every step of the scan keeps the count.
LEMMA ScanCount ==
  ASSUME TypeOK, TypeOK', PipeMapInv, CountInv, Scan
  PROVE  CountInv'
<1> USE DEF chanVars, runVars, ByScan
<1>0. SamePipes(pipe)
  BY DEF SamePipes
<1>1. CASE ScanTick
  BY <1>0, <1>1, QuietPipes DEF ScanTick
<1>2. ASSUME NEW c \in Campaigns, ScanLoad(c) PROVE CountInv'
  BY <1>0, <1>2, QuietPipes DEF ScanLoad
<1>3. CASE ScanReset
  <2>1. SamePipes(pipe') /\ \A q \in Pipes : pipe'[q].wg = pipe[q].wg
    BY <1>3, SMTT(30) DEF ScanReset, SamePipes, TypeOK, PipeTable, PipeValue
  <2> QED BY <1>3, <2>1, QuietPipes DEF ScanReset
<1>4. ASSUME NEW t \in Tenants, ScanSelect(t) PROVE CountInv'
  BY <1>0, <1>4, QuietPipes DEF ScanSelect
<1>5. CASE ScanUpdate
  BY <1>0, <1>5, QuietPipes DEF ScanUpdate
<1>6. CASE ScanError
  BY <1>0, <1>6, QuietPipes DEF ScanError
<1>7. ASSUME NEW c \in Campaigns, ScanUnknownMessenger(c) PROVE CountInv'
  BY <1>0, <1>7, QuietPipes DEF ScanUnknownMessenger
<1>8. ASSUME NEW c \in Campaigns, ScanPipeError(c) PROVE CountInv'
  BY <1>0, <1>8, QuietPipes DEF ScanPipeError
<1>9. CASE ScanDone
  BY <1>0, <1>9, QuietPipes DEF ScanDone
<1> QED BY <1>1, <1>2, <1>3, <1>4, <1>5, <1>6, <1>7, <1>8, <1>9, ScanNewPipeCount,
           ScanEnqueueCount DEF Scan

-----------------------------------------------------------------------------
(* Run and NextSubscribers *)

\* Taking a pipe from nextPipes takes one count from there.
LEMMA ReceiveCount ==
  ASSUME TypeOK, NEW p \in Pipes, RunReceive(p), NEW q \in Pipes
  PROVE  /\ AtRun(q)' = AtRun(q) - IF q = p THEN 1 ELSE 0
         /\ Producing(p) # {}
<1>1. nextPipes \in Seq(Pipes) /\ nextPipes # <<>> /\ p = Head(nextPipes) /\ nextPipes' = Tail(nextPipes)
  BY DEF RunReceive, TypeOK
<1>2. AtRun(q)' = AtRun(q) - IF p \in {q} THEN 1 ELSE 0
  BY <1>1, MarkedTail DEF AtRun
<1>3. 1 \in 1..Len(nextPipes) /\ nextPipes[1] = p
  BY <1>1
<1>4. 1 \in Producing(p)
  BY <1>3 DEF Producing
<1> QED BY <1>2, <1>4

\* Run takes a pipe and keeps it, or gives its count back.
LEMMA ReceiveStep ==
  ASSUME TypeOK, TypeOK', CountInv, NEW p \in Pipes, RunReceive(p), SamePipes(pipe'),
         UNCHANGED <<worker, scanPc, scanAt>>,
         \/ runPipe' = p /\ pipe' = pipe
         \/ /\ runPipe' = None
            /\ pipe' = Released(pipe, p) \/ pipe' = StoppedAndReleased(p)
  PROVE  CountInv'
<1>1. pipe[p].phase = "live"
  BY ReceiveCount, HeldIsLive
<1>2. p # None /\ runPipe = None /\ campMsgQ' = campMsgQ
  BY ManagerAssumption DEF RunReceive
<1>3. ASSUME NEW q \in Pipes
      PROVE  /\ Counted(q)' - Counted(q) = pipe'[q].wg - pipe[q].wg
             /\ pipe[q].phase # "live" => pipe'[q].wg = pipe[q].wg
  <2>0. q # None
    BY ManagerAssumption
  <2>1. InQueue(q)' = InQueue(q) /\ Held(q)' = Held(q)
    BY <1>2 DEF InQueue, Held, Holders
  <2>2. AtRun(q)' = AtRun(q) - IF q = p THEN 1 ELSE 0
    BY ReceiveCount
  <2>3. InQueue(q) \in Nat /\ Held(q) \in Nat /\ AtRun(q) \in Nat /\ InHand(q) \in Nat
    BY CountedType
  <2>4. pipe[q].wg \in Int
    BY DEF TypeOK, PipeTable, PipeValue
  <2>5. CASE runPipe' = p /\ pipe' = pipe
    <3>1. InHand(q)' = InHand(q) + IF q = p THEN 1 ELSE 0
      BY <1>2, <2>0, <2>5 DEF InHand
    <3>2. Counted(q)' = Counted(q) /\ Counted(q) \in Nat
      BY <2>1, <2>2, <2>3, <3>1 DEF Counted
    <3> QED BY <2>4, <2>5, <3>2
  <2>6. CASE runPipe' = None /\ (pipe' = Released(pipe, p) \/ pipe' = StoppedAndReleased(p))
    <3>1. InHand(q)' = InHand(q)
      BY <1>2, <2>6 DEF InHand
    <3>2. pipe'[q].wg = pipe[q].wg - IF q = p THEN 1 ELSE 0
      BY <2>6, ReleasedCount DEF TypeOK
    <3>3. Counted(q)' = Counted(q) - (IF q = p THEN 1 ELSE 0) /\ Counted(q) \in Nat
      BY <2>1, <2>2, <2>3, <3>1 DEF Counted
    <3> QED BY <1>1, <2>4, <3>2, <3>3
  <2> QED BY <2>5, <2>6
<1> QED BY <1>3, BalancedStep

\* newMessage counts the message that goes on campMsgQ.
LEMMA RunPushCount ==
  ASSUME TypeOK, TypeOK', CountInv, NEW s \in Subs, RunPush(s)
  PROVE  CountInv'
<1> DEFINE p == runPipe
           m == [pipe |-> p, sub |-> s]
<1>1. /\ p \in Pipes /\ m \in Message /\ campMsgQ' = Append(campMsgQ, m)
      /\ pipe' = [pipe EXCEPT ![p].wg = @ + 1]
      /\ UNCHANGED <<nextPipes, runPipe, worker, scanPc, scanAt>>
  BY DEF RunPush, ByRun, scanVars, TypeOK, Message
<1>2. pipe[p].phase = "live"
  BY <1>1, HeldIsLive
<1>3. SamePipes(pipe')
  BY <1>1, SMTT(30) DEF SamePipes, TypeOK, PipeTable, PipeValue
<1>4. ASSUME NEW q \in Pipes
      PROVE  /\ Counted(q)' - Counted(q) = pipe'[q].wg - pipe[q].wg
             /\ pipe[q].phase # "live" => pipe'[q].wg = pipe[q].wg
  <2>1. Held(q)' = Held(q) /\ AtRun(q)' = AtRun(q) /\ InHand(q)' = InHand(q)
    BY <1>1 DEF Held, Holders, AtRun, InHand
  <2>2. m \in Of(q) <=> q = p
    BY <1>1 DEF Of
  <2>3. Cardinality(Marked(campMsgQ', Of(q)))
          = Cardinality(Marked(campMsgQ, Of(q))) + IF m \in Of(q) THEN 1 ELSE 0
    <3> HIDE DEF m
    <3> QED BY <1>1, MarkedAppend DEF TypeOK
  <2>4. InQueue(q)' = InQueue(q) + IF q = p THEN 1 ELSE 0
    BY <2>2, <2>3 DEF InQueue
  <2>5. InQueue(q) \in Nat /\ Held(q) \in Nat /\ AtRun(q) \in Nat /\ InHand(q) \in Nat
    BY CountedType
  <2>6. pipe[q].wg \in Int /\ pipe'[q].wg = pipe[q].wg + IF q = p THEN 1 ELSE 0
    <3>1. pipe[q].wg \in Int
      BY DEF TypeOK, PipeTable, PipeValue
    <3>2. q = p => pipe'[q].wg = pipe[q].wg + 1
      BY <1>1 DEF TypeOK, PipeTable, PipeValue
    <3>3. q # p => pipe'[q].wg = pipe[q].wg
      BY <1>1 DEF TypeOK, PipeTable
    <3> QED BY <3>1, <3>2, <3>3
  <2>7. Counted(q)' = Counted(q) + (IF q = p THEN 1 ELSE 0) /\ Counted(q) \in Nat
    BY <2>1, <2>4, <2>5 DEF Counted
  <2> QED BY <1>2, <2>6, <2>7
<1> QED BY <1>3, <1>4, BalancedStep

\* Run hands the producer's count back to nextPipes, or gives it back.
LEMMA RunRequeueCount ==
  ASSUME TypeOK, TypeOK', PipeMapInv, CountInv, RunRequeue
  PROVE  CountInv'
<1>1. /\ runPipe \in Pipes /\ runPipe' = None /\ EnqueueOrRelease(runPipe)
      /\ UNCHANGED <<campMsgQ, worker, scanPc, scanAt>>
  BY DEF RunRequeue, ByRun, scanVars, TypeOK
<1>2. pipe[runPipe].phase = "live"
  BY <1>1, HeldIsLive
<1>3. SamePipes(pipe')
  BY <1>1, EnqueueType
<1>4. ASSUME NEW q \in Pipes
      PROVE  /\ Counted(q)' - Counted(q) = pipe'[q].wg - pipe[q].wg
             /\ pipe[q].phase # "live" => pipe'[q].wg = pipe[q].wg
  <2>0. q # None
    BY ManagerAssumption
  <2>1. InQueue(q)' = InQueue(q) /\ Held(q)' = Held(q)
    BY <1>1 DEF InQueue, Held, Holders
  <2>2. InHand(q)' = InHand(q) - IF q = runPipe THEN 1 ELSE 0
    BY <1>1, <2>0 DEF InHand
  <2>3. AtRun(q)' - AtRun(q) = pipe'[q].wg - pipe[q].wg + IF q = runPipe THEN 1 ELSE 0
    BY <1>1, EnqueueCount
  <2>4. InQueue(q) \in Nat /\ Held(q) \in Nat /\ AtRun(q) \in Nat /\ InHand(q) \in Nat
    BY CountedType
  <2>5. pipe'[q].wg \in Int /\ pipe[q].wg \in Int
    BY DEF TypeOK, PipeTable, PipeValue
  <2>6. AtRun(q)' \in Int
    BY <2>3, MarkedFinite DEF AtRun, TypeOK
  <2>7. Counted(q)' - Counted(q) = pipe'[q].wg - pipe[q].wg
    BY <2>1, <2>2, <2>3, <2>4, <2>5, <2>6 DEF Counted
  <2>8. q # runPipe => pipe'[q].wg = pipe[q].wg
    BY <1>1, ReleasedCount, SMTT(30) DEF EnqueueOrRelease, TypeOK
  <2> QED BY <1>2, <2>7, <2>8
<1> QED BY <1>3, <1>4, BalancedStep

\* Every step of Run keeps the count.
LEMMA RunCount ==
  ASSUME TypeOK, TypeOK', PipeMapInv, CountInv, Run
  PROVE  CountInv'
<1> USE DEF ByRun, scanVars
<1>0. SamePipes(pipe)
  BY DEF SamePipes
<1>1. ASSUME NEW p \in Pipes, RunFetch(p) PROVE CountInv'
  BY <1>0, <1>1, ReceiveStep DEF RunFetch
<1>2. ASSUME NEW p \in Pipes, RunExhausted(p) \/ RunError(p) PROVE CountInv'
  <2>1. runPipe' = None /\ RunReceive(p) /\ UNCHANGED <<worker, scanPc, scanAt>>
    BY <1>2 DEF RunExhausted, RunError, RunReceive, runVars
  <2>2. pipe' = Released(pipe, p) \/ pipe' = StoppedAndReleased(p)
    BY <1>2 DEF RunExhausted, RunError
  <2>3. SamePipes(pipe')
    BY <2>2, ReleasedType DEF TypeOK
  <2> QED BY <2>1, <2>2, <2>3, ReceiveStep
<1>3. ASSUME NEW s \in Subs, RunRenderError(s) PROVE CountInv'
  BY <1>0, <1>3, QuietPipes DEF RunRenderError, chanVars
<1> QED BY <1>1, <1>2, <1>3, RunPushCount, RunRequeueCount DEF Run

-----------------------------------------------------------------------------
(* worker *)

\* A worker that takes a message, or releases one, changes the messages held of
\* its pipe by one.
LEMMA HolderGained ==
  ASSUME TypeOK, NEW w \in Workers, NEW p, NEW q \in Pipes,
         w \notin Holders(q), worker'[w].pipe = p, worker'[w].pc \in {"check", "push"},
         \A v \in Workers : v # w => worker'[v] = worker[v]
  PROVE  Held(q)' = Held(q) + IF q = p THEN 1 ELSE 0
<1>1. Holders(q)' = IF q = p THEN Holders(q) \cup {w} ELSE Holders(q)
  BY DEF Holders
<1>2. IsFiniteSet(Holders(q))
  BY CountedType
<1>3. Cardinality(Holders(q) \cup {w}) = Cardinality(Holders(q)) + 1
  BY <1>2, FS_AddElement
<1>4. Held(q) \in Nat
  BY CountedType
<1> QED BY <1>1, <1>3, <1>4 DEF Held

\* The worker that gives a message up is the only one that does.
LEMMA HolderLost ==
  ASSUME TypeOK, NEW w \in Workers, NEW q \in Pipes,
         worker[w].pc \in {"check", "push"}, worker'[w].pc \notin {"check", "push"},
         \A v \in Workers : v # w => worker'[v] = worker[v]
  PROVE  Held(q)' = Held(q) - IF q = worker[w].pipe THEN 1 ELSE 0
<1>1. Holders(q)' = IF q = worker[w].pipe THEN Holders(q) \ {w} ELSE Holders(q)
  BY DEF Holders
<1>2. q = worker[w].pipe => w \in Holders(q)
  BY DEF Holders
<1>3. IsFiniteSet(Holders(q))
  BY CountedType
<1>4. w \in Holders(q) => Cardinality(Holders(q) \ {w}) = Cardinality(Holders(q)) - 1
  BY <1>3, FS_RemoveElement
<1>5. Held(q) \in Nat
  BY CountedType
<1> QED BY <1>1, <1>2, <1>4, <1>5 DEF Held

\* A message moves from the queue to a worker.
LEMMA WorkerTakeCount ==
  ASSUME TypeOK, TypeOK', CountInv, NEW w \in Workers, WorkerTake(w)
  PROVE  CountInv'
<1> DEFINE m == Head(campMsgQ)
<1>1. /\ campMsgQ \in Seq(Message) /\ campMsgQ # <<>> /\ campMsgQ' = Tail(campMsgQ)
      /\ worker[w].pc = "idle"
      /\ worker' = [worker EXCEPT ![w] = [pc |-> "check", pipe |-> m.pipe, sub |-> m.sub]]
      /\ UNCHANGED <<pipe, nextPipes, runPipe, scanPc, scanAt>>
  BY DEF WorkerTake, WorkerAt, ByWorker, scanVars, runVars, TypeOK
<1>2. m \in Message
  BY <1>1
<1>3. /\ worker'[w].pc = "check" /\ worker'[w].pipe = m.pipe
      /\ \A v \in Workers : v # w => worker'[v] = worker[v]
  BY <1>1 DEF TypeOK
<1>4. SamePipes(pipe')
  BY <1>1 DEF SamePipes
<1>5. ASSUME NEW q \in Pipes
      PROVE  /\ Counted(q)' - Counted(q) = pipe'[q].wg - pipe[q].wg
             /\ pipe[q].phase # "live" => pipe'[q].wg = pipe[q].wg
  <2>1. AtRun(q)' = AtRun(q) /\ InHand(q)' = InHand(q)
    BY <1>1 DEF AtRun, InHand
  <2>2. m \in Of(q) <=> q = m.pipe
    BY <1>2 DEF Of
  <2>3. InQueue(q)' = InQueue(q) - IF q = m.pipe THEN 1 ELSE 0
    BY <1>1, <2>2, MarkedTail DEF InQueue
  <2>4. w \notin Holders(q)
    BY <1>1 DEF Holders
  <2>5. Held(q)' = Held(q) + IF q = m.pipe THEN 1 ELSE 0
    <3> HIDE DEF m
    <3> QED BY <1>3, <2>4, HolderGained
  <2>6. InQueue(q) \in Nat /\ Held(q) \in Nat /\ AtRun(q) \in Nat /\ InHand(q) \in Nat
    BY CountedType
  <2>7. Counted(q)' = Counted(q) /\ Counted(q) \in Nat
    BY <2>1, <2>3, <2>5, <2>6 DEF Counted
  <2>8. pipe[q].wg \in Int
    BY DEF TypeOK, PipeTable, PipeValue
  <2> QED BY <1>1, <2>7, <2>8
<1> QED BY <1>4, <1>5, BalancedStep

\* Dropping a message and pushing one each give one count back.
LEMMA WorkerReleaseCount ==
  ASSUME TypeOK, TypeOK', CountInv, NEW w \in Workers,
         worker[w].pc \in {"check", "push"}, worker'[w].pc \notin {"check", "push"},
         \A v \in Workers : v # w => worker'[v] = worker[v],
         pipe' = Released(pipe, worker[w].pipe),
         UNCHANGED <<campMsgQ, nextPipes, runPipe, scanPc, scanAt>>
  PROVE  CountInv'
<1> DEFINE p == worker[w].pipe
<1>1. p \in Pipes
  BY WorkerType
<1>2. pipe[p].phase = "live"
  <2>1. w \in Holders(p)
    BY DEF Holders
  <2> QED BY <1>1, <2>1, HeldIsLive
<1>3. SamePipes(pipe')
  BY <1>1, ReleasedType DEF TypeOK
<1>4. ASSUME NEW q \in Pipes
      PROVE  /\ Counted(q)' - Counted(q) = pipe'[q].wg - pipe[q].wg
             /\ pipe[q].phase # "live" => pipe'[q].wg = pipe[q].wg
  <2>1. InQueue(q)' = InQueue(q) /\ AtRun(q)' = AtRun(q) /\ InHand(q)' = InHand(q)
    BY DEF InQueue, AtRun, InHand
  <2>2. Held(q)' = Held(q) - IF q = p THEN 1 ELSE 0
    BY HolderLost
  <2>3. pipe[q].wg \in Int /\ pipe'[q].wg = pipe[q].wg - IF q = p THEN 1 ELSE 0
    BY <1>1, ReleasedCount DEF TypeOK
  <2>4. InQueue(q) \in Nat /\ Held(q) \in Nat /\ AtRun(q) \in Nat /\ InHand(q) \in Nat
    BY CountedType
  <2>5. Counted(q)' = Counted(q) - (IF q = p THEN 1 ELSE 0) /\ Counted(q) \in Nat
    BY <2>1, <2>2, <2>4 DEF Counted
  <2> QED BY <1>2, <2>3, <2>5
<1> QED BY <1>3, <1>4, BalancedStep

\* Any other step of a worker, between two places where it holds a message or
\* between two where it does not.
LEMMA WorkerQuiet ==
  ASSUME TypeOK, TypeOK', CountInv, NEW w \in Workers, SamePipes(pipe'),
         \A q \in Pipes : pipe'[q].wg = pipe[q].wg,
         worker[w].pc \in {"check", "push"} <=> worker'[w].pc \in {"check", "push"},
         worker[w].pc \in {"check", "push"} => worker'[w].pipe = worker[w].pipe,
         \A v \in Workers : v # w => worker'[v] = worker[v],
         UNCHANGED <<campMsgQ, nextPipes, runPipe, scanPc, scanAt>>
  PROVE  CountInv'
<1>1. \A q \in Pipes : Holders(q)' = Holders(q)
  BY DEF Holders
<1> QED BY <1>1, QuietStep

\* Where a worker's step leaves it.
LEMMA WorkerMoves ==
  ASSUME TypeOK, NEW w \in Workers
  PROVE  /\ \A pc : WorkerTo(w, pc) => /\ worker'[w].pc = pc /\ worker'[w].pipe = worker[w].pipe
                                       /\ \A v \in Workers : v # w => worker'[v] = worker[v]
         /\ WorkerRest(w) => /\ worker'[w].pc = "idle"
                             /\ \A v \in Workers : v # w => worker'[v] = worker[v]
<1>1. worker[w].pc # "idle" \/ worker[w] = Resting
  BY DEF TypeOK, WorkerState
<1> QED BY DEF WorkerTo, WorkerRest, Resting, TypeOK, WorkerState

\* Every step of a worker keeps the count.
LEMMA WorkerCount ==
  ASSUME TypeOK, TypeOK', CountInv, NEW w \in Workers, Worker(w)
  PROVE  CountInv'
<1> USE DEF ByWorker, scanVars, runVars, WorkerAt
<1>0. SamePipes(pipe)
  BY DEF SamePipes
<1>1. CASE WorkerDrop(w)
  BY <1>1, WorkerMoves, WorkerReleaseCount DEF WorkerDrop
<1>2. CASE WorkerAccept(w)
  BY <1>0, <1>2, WorkerMoves, WorkerQuiet DEF WorkerAccept
<1>3. ASSUME NEW ok \in BOOLEAN, WorkerPush(w, ok) PROVE CountInv'
  BY <1>3, WorkerMoves, WorkerReleaseCount DEF WorkerPush
<1>4. CASE WorkerOnError(w)
  <2>1. SamePipes(pipe') /\ \A q \in Pipes : pipe'[q].wg = pipe[q].wg
    BY <1>4, ZenonT(60) DEF WorkerOnError, SamePipes, TypeOK, PipeTable, PipeValue
  <2> QED BY <1>4, <2>1, WorkerMoves, WorkerQuiet DEF WorkerOnError
<1>5. CASE WorkerLoad(w)
  BY <1>0, <1>5, WorkerMoves, WorkerQuiet DEF WorkerLoad
<1>6. CASE WorkerStore(w)
  <2>1. SamePipes(pipe') /\ \A q \in Pipes : pipe'[q].wg = pipe[q].wg
    BY <1>6, SMTT(30) DEF WorkerStore, SamePipes, TypeOK, PipeTable, PipeValue
  <2>2. worker[w].pc = "store" /\ WorkerTo(w, "sent")
          /\ UNCHANGED <<campMsgQ, nextPipes, runPipe, scanPc, scanAt>>
    BY <1>6 DEF WorkerStore
  <2> QED BY <2>1, <2>2, WorkerMoves, WorkerQuiet
<1>7. CASE WorkerSent(w)
  <2>1. SamePipes(pipe') /\ \A q \in Pipes : pipe'[q].wg = pipe[q].wg
    BY <1>7, SMTT(30) DEF WorkerSent, SamePipes, TypeOK, PipeTable, PipeValue
  <2> QED BY <1>7, <2>1, WorkerMoves, WorkerQuiet DEF WorkerSent
<1> QED BY <1>1, <1>2, <1>3, <1>4, <1>5, <1>6, <1>7, WorkerTakeCount DEF Worker

-----------------------------------------------------------------------------
(* cleanup, requests and the environment *)

\* wg.Wait() returns when nothing is held any more; no later phase needs a count.
LEMMA CleanupCount ==
  ASSUME TypeOK, TypeOK', CountInv, NEW p \in Pipes, Cleanup(p)
  PROVE  CountInv'
<1>1. UNCHANGED <<campMsgQ, nextPipes, runPipe, worker, scanPc, scanAt>>
  BY DEF Cleanup, CleanupWake, CleanupCounts, CleanupPaused, CleanupNoErrors, CleanupExhausted,
         CleanupNothingMore, CleanupFinish, CleanupDelete, ByCleanup, scanVars, runVars
<1>2. \A q \in Pipes : Counted(q)' = Counted(q)
  BY <1>1 DEF Counted, InQueue, Held, Holders, AtRun, InHand
<1>3. PICK from \in {"live", "counts", "errors", "status", "finish", "delete"},
           to \in {"counts", "errors", "status", "finish", "delete", "gone"} :
        CleanupStep(p, from, to) /\ (from = "live" => pipe[p].wg = 0)
  BY DEF Cleanup, CleanupWake, CleanupCounts, CleanupPaused, CleanupNoErrors, CleanupExhausted,
         CleanupNothingMore, CleanupFinish, CleanupDelete
<1>4. /\ pipe[p].phase = from /\ pipe'[p].phase = to /\ pipe'[p].wg = pipe[p].wg
      /\ \A q \in Pipes : q # p => pipe'[q] = pipe[q]
  BY <1>3 DEF CleanupStep, TypeOK, PipeTable, PipeValue
<1>5. ASSUME NEW q \in Pipes, q # p PROVE Alive(q)' <=> Alive(q)
  BY <1>4, <1>5 DEF Alive
<1>6. Alive(p) /\ to # "live"
  BY <1>4 DEF Alive
<1> QED BY <1>2, <1>3, <1>4, <1>5, <1>6 DEF CountInv

\* A request stops a pipe at most.
LEMMA RequestCount ==
  ASSUME TypeOK, TypeOK', CountInv, Request
  PROVE  CountInv'
<1>1. UNCHANGED <<campMsgQ, nextPipes, runPipe, worker, scanPc, scanAt>>
  BY DEF Request, RequestStep, RequestCheck, RequestWrite, RequestNoRow, RequestStop,
         RequestCommit, RequestDelete, ByRequest, chanVars, scanVars, runVars
<1>2. pipe' = pipe \/ \E p : pipe' = [pipe EXCEPT ![p].stopped = TRUE]
  BY DEF Request, RequestStep, RequestCheck, RequestWrite, RequestNoRow, RequestStop,
         RequestCommit, RequestDelete
<1>3. pipe \in [Pipes -> PipeValue]
  BY DEF TypeOK, PipeTable
<1>4. \A q \in Pipes : /\ pipe'[q].wg = pipe[q].wg
                       /\ pipe'[q].camp = pipe[q].camp /\ pipe'[q].phase = pipe[q].phase
  BY <1>2, <1>3 DEF PipeValue
<1> QED BY <1>1, <1>4, QuietPipes DEF SamePipes

\* A crash empties the channels and the workers' hands.
LEMMA CrashCount ==
  ASSUME TypeOK, TypeOK', Crash
  PROVE  CountInv'
<1>1. /\ campMsgQ' = <<>> /\ nextPipes' = <<>> /\ runPipe' = None /\ scanPc' = "idle"
      /\ worker' = [w \in Workers |-> Resting]
  BY DEF Crash
<1>2. ASSUME NEW p \in Pipes PROVE ~Alive(p)'
  BY DEF Crash, Alive, TypeOK, PipeTable, PipeValue
<1>3. ASSUME NEW p \in Pipes PROVE Counted(p)' = 0
  <2>1. Marked(campMsgQ', Of(p)) = {} /\ Marked(nextPipes', {p}) = {}
    BY <1>1 DEF Marked
  <2>2. Holders(p)' = {}
    BY <1>1 DEF Holders, Resting
  <2>3. InQueue(p)' = 0 /\ AtRun(p)' = 0 /\ Held(p)' = 0
    BY <2>1, <2>2, FS_EmptySet DEF InQueue, AtRun, Held
  <2>4. InHand(p)' = 0
    BY <1>1, ManagerAssumption DEF InHand
  <2> QED BY <2>3, <2>4 DEF Counted
<1> QED BY <1>2, <1>3 DEF CountInv, Alive

-----------------------------------------------------------------------------
(* The theorems *)

\* Initially there is no pipe and nothing is held.
LEMMA InitCount == Init => CountInv
<1> SUFFICES ASSUME Init, NEW p \in Pipes
             PROVE  pipe[p].phase = "unused" /\ Counted(p) = 0
  BY DEF CountInv, Alive
<1>1. /\ campMsgQ = <<>> /\ nextPipes = <<>> /\ runPipe = None /\ scanPc = "idle"
      /\ worker = [w \in Workers |-> Resting] /\ pipe[p].phase = "unused"
  BY DEF Init, PipeAt
<1>2. Marked(campMsgQ, Of(p)) = {} /\ Marked(nextPipes, {p}) = {}
  BY <1>1 DEF Marked
<1>3. Holders(p) = {}
  BY <1>1 DEF Holders, Resting
<1>4. InQueue(p) = 0 /\ AtRun(p) = 0 /\ Held(p) = 0
  BY <1>2, <1>3, FS_EmptySet DEF InQueue, AtRun, Held
<1>5. InHand(p) = 0
  BY <1>1, ManagerAssumption DEF InHand
<1> QED BY <1>1, <1>4, <1>5 DEF Counted

\* Every step keeps the count.
LEMMA NextCount ==
  TypeOK /\ TypeOK' /\ PipeMapInv /\ CountInv /\ [Next]_vars => CountInv'
<1> SUFFICES ASSUME TypeOK, TypeOK', PipeMapInv, CountInv, [Next]_vars PROVE CountInv'
  OBVIOUS
<1>0. SamePipes(pipe)
  BY DEF SamePipes
<1>1. CASE Scan
  BY <1>1, ScanCount
<1>2. CASE Run
  BY <1>2, RunCount
<1>3. ASSUME NEW w \in Workers, Worker(w) PROVE CountInv'
  BY <1>3, WorkerCount
<1>4. ASSUME NEW p \in Pipes, Cleanup(p) PROVE CountInv'
  BY <1>4, CleanupCount
<1>5. CASE Request
  BY <1>5, RequestCount
<1>6. CASE Environment
  <2>1. ASSUME NEW c \in Campaigns, TimePasses(c) PROVE CountInv'
    BY <1>0, <2>1, QuietPipes DEF TimePasses, chanVars, scanVars, runVars
  <2> QED BY <1>6, <2>1, CrashCount DEF Environment
<1>7. CASE UNCHANGED vars
  BY <1>0, <1>7, QuietPipes DEF vars, chanVars, scanVars, runVars
<1> QED BY <1>1, <1>2, <1>3, <1>4, <1>5, <1>6, <1>7 DEF Next

\* The count is right in every reachable state, next to what the map proof shows.
THEOREM CountCorrect == Spec => [](TypeOK /\ PipeMapInv /\ CountInv)
<1>1. Spec => [](TypeOK /\ PipeMapInv)
  BY PipeMapCorrect
<1> QED BY <1>1, InitCount, NextCount, PTL DEF Spec

\* The waitgroup of a pipe counts what is still to be released: its messages in the
\* queue and with the workers, and the producer's one while the scan, nextPipes or
\* Run has the pipe, for any number of pipes, workers and messages in flight.
THEOREM WaitGroupCorrect == Spec => []WaitGroupCounts
<1>1. ASSUME TypeOK, CountInv PROVE WaitGroupCounts
  <2> SUFFICES ASSUME NEW p \in Pipes, Alive(p)
               PROVE  pipe[p].wg = Cardinality({i \in 1..Len(campMsgQ) : campMsgQ[i].pipe = p})
                        + Cardinality(Holders(p)) + Cardinality(Producing(p))
                        + (IF runPipe = p THEN 1 ELSE 0)
                        + (IF scanPc = "enqueue" /\ scanAt = p THEN 1 ELSE 0)
    BY DEF WaitGroupCounts
  <2>1. pipe[p].wg = Counted(p)
    BY <1>1 DEF CountInv
  <2>2. {i \in 1..Len(campMsgQ) : campMsgQ[i].pipe = p} = Marked(campMsgQ, Of(p))
    BY <1>1 DEF Marked, Of, TypeOK
  <2>3. Producing(p) = Marked(nextPipes, {p})
    BY DEF Producing, Marked
  <2>4. InQueue(p) \in Nat /\ Held(p) \in Nat /\ AtRun(p) \in Nat
    BY <1>1, CountedType
  <2>5. Counted(p) = InQueue(p) + Held(p) + AtRun(p) + (IF runPipe = p THEN 1 ELSE 0)
                       + (IF scanPc = "enqueue" /\ scanAt = p THEN 1 ELSE 0)
    BY <2>4 DEF Counted, InHand
  <2> QED BY <2>1, <2>2, <2>3, <2>5 DEF InQueue, Held, AtRun
<1>2. TypeOK /\ CountInv => WaitGroupCounts
  BY <1>1
<1> QED BY <1>2, CountCorrect, PTL

\* sync.WaitGroup panics on a negative counter: no interleaving of the batch loop,
\* the workers, stops and errors makes one.
THEOREM WaitGroupNeverNegative == Spec => [](\A p \in Pipes : Alive(p) => pipe[p].wg >= 0)
<1>1. ASSUME TypeOK, CountInv, NEW p \in Pipes, Alive(p) PROVE pipe[p].wg >= 0
  <2>1. Counted(p) \in Nat
    BY <1>1, CountedNat
  <2> QED BY <1>1, <2>1 DEF CountInv
<1>2. TypeOK /\ CountInv => \A p \in Pipes : Alive(p) => pipe[p].wg >= 0
  BY <1>1
<1> QED BY <1>2, CountCorrect, PTL

\* From cleanup on nothing of the pipe is left to fetch, queued or about to be sent:
\* the counts that cleanup writes to the database are final.
THEOREM DrainedCorrect == Spec => []DrainedBeforeCleanup
<1>1. ASSUME TypeOK, CountInv PROVE DrainedBeforeCleanup
  <2> SUFFICES ASSUME NEW p \in Pipes, pipe[p].phase \in CleanupPhases \cup {"gone"}
               PROVE  Pending(p) = {} /\ runPipe # p /\ Producing(p) = {}
    BY DEF DrainedBeforeCleanup
  <2>1. Counted(p) = 0
    BY <1>1 DEF CountInv, CleanupPhases
  <2>2. /\ \A i \in 1..Len(campMsgQ) : campMsgQ[i].pipe # p
        /\ Holders(p) = {} /\ Producing(p) = {} /\ runPipe # p
    BY <1>1, <2>1, NothingHeld
  <2> QED BY <2>2 DEF Pending, Queued
<1>2. TypeOK /\ CountInv => DrainedBeforeCleanup
  BY <1>1
<1> QED BY <1>2, CountCorrect, PTL
=============================================================================

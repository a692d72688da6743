---------------------------- MODULE DeliveryProofs ----------------------------
(***************************************************************************)
(* Theorems about who is sent to: a pipe attempts a subscriber at most     *)
(* once, only a cleanup makes a campaign repeat a message, and the         *)
(* checkpoint passes nobody.  The inductive invariant has three parts.     *)
(* UniqueInv says that a message is in one place: the batch, the queue or  *)
(* with one worker.  LedgerInv relates what is pending and attempted to    *)
(* the checkpoint in the database: of a live pipe both lie at or below it, *)
(* so that the next batch, which lies above, is new.  RecordInv says that  *)
(* an id recorded as sent, to which a cleanup may set the checkpoint back, *)
(* is one of a message that was sent.                                      *)
(***************************************************************************)
EXTENDS WaitGroupProofs

-----------------------------------------------------------------------------
(* The invariant *)

OnceQueued == \A i, j \in 1..Len(campMsgQ) : campMsgQ[i] = campMsgQ[j] => i = j
OnceHeld ==
  \A p \in Pipes : \A v, w \in Holders(p) : worker[v].sub = worker[w].sub => v = w
HeldNotQueued ==
  \A p \in Pipes : \A w \in Holders(p) : worker[w].sub \notin Queued(p)
BatchIsNew ==
  \A p \in Pipes : runPipe = p =>
    \A s \in batch : s \notin Queued(p) /\ \A w \in Holders(p) : worker[w].sub # s
UniqueInv == OnceQueued /\ OnceHeld /\ HeldNotQueued /\ BatchIsNew

\* A pipe that does not exist yet has sent nothing.
FreshIsBlank ==
  \A p \in Pipes : pipe[p].phase = "unused" => delivered[p] = {} /\ failed[p] = {}
PendingNotAttempted == \A p \in Pipes : Pending(p) \cap Attempted(p) = {}
\* What a live pipe has fetched lies at or below the checkpoint.
PendingBelow ==
  \A p \in Pipes : pipe[p].phase = "live" =>
    \A s \in Pending(p) : s <= row[pipe[p].camp].lastSub
\* So does what it has attempted, until its cleanup sets the checkpoint back.
AttemptedBelow ==
  \A p \in Pipes : \A s \in Attempted(p) :
    \/ s <= row[pipe[p].camp].lastSub
    \/ pipe[p].phase \notin {"live", "counts"} /\ s \in rewound[pipe[p].camp]
\* What another pipe of the campaign has delivered, and this one has delivered or
\* is about to, has been set back over.
RepeatsRewound ==
  \A c \in Campaigns : \A p, q \in PipesOf(c) :
    p # q => (delivered[p] \cup Pending(p)) \cap delivered[q] \subseteq rewound[c]
LedgerInv ==
  /\ FreshIsBlank /\ PendingNotAttempted /\ PendingBelow /\ AttemptedBelow
  /\ RepeatsRewound /\ CheckpointAccounts

\* The id that a cleanup sets the checkpoint to is one of a message that was sent:
\* a worker records what it has sent, and what is recorded has been sent.
Recording(w) == worker[w].pc \in {"load", "store", "sent"}
RecordInv ==
  /\ \A w \in Workers : Recording(w) => worker[w].sub \in delivered[worker[w].pipe]
  /\ \A p \in Pipes : pipe[p].lastID # 0 => pipe[p].lastID \in delivered[p]

DeliveryInv == UniqueInv /\ LedgerInv /\ RecordInv

-----------------------------------------------------------------------------
(* Facts about what is pending *)

\* Only a live pipe has anything pending.
LEMMA PendingIsLive ==
  ASSUME TypeOK, CountInv, NEW p \in Pipes, Pending(p) # {}
  PROVE  pipe[p].phase = "live"
<1>1. PICK s : s \in Pending(p)
  OBVIOUS
<1>2. CASE s \in Queued(p)
  <2>1. PICK i \in 1..Len(campMsgQ) : campMsgQ[i] = [pipe |-> p, sub |-> s]
    BY <1>2 DEF Queued
  <2>2. campMsgQ[i].pipe = p
    BY <2>1
  <2> QED BY <2>2, HeldIsLive
<1>3. CASE Holders(p) # {} \/ runPipe = p
  BY <1>3, HeldIsLive
<1> QED BY <1>1, <1>2, <1>3 DEF Pending

\* Live pipes have campaigns, and each a campaign of its own.
LEMMA LiveIsAlone ==
  ASSUME PipeMapInv, NEW p \in Pipes, NEW q \in Pipes,
         pipe[p].phase \in {"live", "counts"}, pipe[q].phase \in {"live", "counts"}
  PROVE  pipe[p].camp \in Campaigns /\ (pipe[p].camp = pipe[q].camp => p = q)
BY DEF PipeMapInv, PipesHaveCampaigns, OnePipePerCampaign, Alive

\* Pending and attempted subscribers are subscribers, and checkpoints are numbers.
LEMMA LedgerType ==
  ASSUME TypeOK
  PROVE  /\ \A p \in Pipes : Pending(p) \subseteq Subs /\ Attempted(p) \subseteq Subs
         /\ Subs \subseteq Nat /\ \A c \in Campaigns : row[c].lastSub \in Nat
<1>1. Subs \subseteq Nat
  BY ManagerAssumption
<1>2. ASSUME NEW c \in Campaigns PROVE row[c].lastSub \in Nat
  <2>1. row[c] \in Row
    BY DEF TypeOK, CampaignTable
  <2>2. row[c].lastSub \in Subs \cup {0}
    BY <2>1 DEF Row
  <2>3. CASE row[c].lastSub \in Subs
    BY <1>1, <2>3
  <2>4. CASE row[c].lastSub = 0
    BY <2>4
  <2> QED BY <2>2, <2>3, <2>4
<1>3. ASSUME NEW p \in Pipes PROVE Pending(p) \subseteq Subs
  <2>1. \A w \in Holders(p) : worker[w].sub \in Subs
    BY WorkerType DEF Holders
  <2> QED BY <2>1 DEF Pending, Queued, TypeOK
<1>4. \A p \in Pipes : Attempted(p) \subseteq Subs
  BY DEF Attempted, TypeOK
<1> QED BY <1>1, <1>2, <1>3, <1>4

\* Steps that move no message leave everything pending where it is.
LEMMA SamePlaces ==
  ASSUME UNCHANGED <<campMsgQ, runPipe, batch, worker>>
  PROVE  /\ UniqueInv => UniqueInv'
         /\ \A p \in Pipes : Pending(p)' = Pending(p)
<1>1. \A p \in Pipes : Queued(p)' = Queued(p) /\ Holders(p)' = Holders(p)
  BY DEF Queued, Holders
<1>2. \A p \in Pipes : Pending(p)' = Pending(p)
  BY <1>1 DEF Pending
<1>3. UniqueInv => UniqueInv'
  BY <1>1 DEF UniqueInv, OnceQueued, OnceHeld, HeldNotQueued, BatchIsNew
<1> QED BY <1>2, <1>3

-----------------------------------------------------------------------------
(* Steps that fetch and attempt nothing *)

\* What is no longer pending afterwards has a reason, no pipe is made, and the
\* checkpoint stays.
LEMMA CalmStep ==
  ASSUME TypeOK, PipeMapInv, LedgerInv,
         \A q \in Pipes :
           /\ pipe'[q].camp = pipe[q].camp
           /\ pipe'[q].phase = "unused" => pipe[q].phase = "unused"
           /\ pipe'[q].phase = "live" => pipe[q].phase = "live"
           /\ pipe'[q].phase \in {"live", "counts"} => pipe[q].phase \in {"live", "counts"}
           /\ Pending(q)' \subseteq Pending(q)
           /\ Pending(q) \subseteq Pending(q)' \cup Unrenderable \cup lost'[pipe[q].camp],
         \A c \in Campaigns : row'[c].lastSub = row[c].lastSub /\ lost[c] \subseteq lost'[c],
         UNCHANGED <<delivered, failed, rewound>>
  PROVE  LedgerInv'
<1>1. FreshIsBlank'
  BY DEF LedgerInv, FreshIsBlank
<1>2. \A p \in Pipes : Attempted(p)' = Attempted(p)
  BY DEF Attempted
<1>3. PendingNotAttempted'
  BY <1>2 DEF LedgerInv, PendingNotAttempted
<1>4. \A p \in Pipes : pipe[p].phase # "unused" => pipe[p].camp \in Campaigns
  BY DEF PipeMapInv, PipesHaveCampaigns
<1>5. PendingBelow'
  BY <1>4 DEF LedgerInv, PendingBelow
<1>6. AttemptedBelow'
  <2> SUFFICES ASSUME NEW p \in Pipes, NEW s \in Attempted(p)
               PROVE  \/ s <= row'[pipe[p].camp].lastSub
                      \/ pipe'[p].phase \notin {"live", "counts"} /\ s \in rewound[pipe[p].camp]
    BY <1>2 DEF AttemptedBelow
  <2>1. pipe[p].camp \in Campaigns
    BY <1>4 DEF LedgerInv, FreshIsBlank, Attempted
  <2> QED BY <2>1 DEF LedgerInv, AttemptedBelow
<1>7. \A c \in Campaigns : PipesOf(c)' = PipesOf(c)
  BY DEF PipesOf
<1>8. RepeatsRewound'
  <2> SUFFICES ASSUME NEW c \in Campaigns, NEW p \in PipesOf(c), NEW q \in PipesOf(c), p # q
               PROVE  (delivered[p] \cup Pending(p)') \cap delivered[q] \subseteq rewound[c]
    BY <1>7 DEF RepeatsRewound
  <2>1. Pending(p)' \subseteq Pending(p)
    BY DEF PipesOf
  <2> QED BY <2>1 DEF LedgerInv, RepeatsRewound
<1>9. CheckpointAccounts'
  <2> SUFFICES ASSUME NEW c \in Campaigns, NEW s \in Audience[c], s <= row'[c].lastSub
               PROVE  s \in Accounted(c)' \cup UNION {Pending(p)' : p \in PipesOf(c)}
    BY <1>7 DEF CheckpointAccounts
  <2>1. s \in Accounted(c) \cup UNION {Pending(p) : p \in PipesOf(c)}
    BY DEF LedgerInv, CheckpointAccounts
  <2>2. \A p \in PipesOf(c) : Attempted(p)' = Attempted(p)
    BY <1>2 DEF PipesOf
  <2>3. Accounted(c)' = Unrenderable \cup lost'[c] \cup UNION {Attempted(p) : p \in PipesOf(c)}
    BY <1>7, <2>2 DEF Accounted
  <2>4. CASE s \in Accounted(c)
    BY <2>3, <2>4 DEF Accounted
  <2>5. ASSUME NEW p \in PipesOf(c), s \in Pending(p)
        PROVE  s \in Accounted(c)' \cup UNION {Pending(q)' : q \in PipesOf(c)}
    <3>1. s \in Pending(p)' \cup Unrenderable \cup lost'[c]
      BY <2>5 DEF PipesOf
    <3> QED BY <2>3, <3>1
  <2> QED BY <2>1, <2>4, <2>5
<1> QED BY <1>1, <1>3, <1>5, <1>6, <1>8, <1>9 DEF LedgerInv

-----------------------------------------------------------------------------
(* Where a message is *)

\* A worker's receive takes the first message from the queue.
LEMMA QueueTaken ==
  ASSUME TypeOK, OnceQueued, campMsgQ # <<>>, campMsgQ' = Tail(campMsgQ),
         NEW p \in Pipes, NEW s \in Subs, Head(campMsgQ) = [pipe |-> p, sub |-> s]
  PROVE  /\ OnceQueued'
         /\ \A q \in Pipes : Queued(q) = Queued(q)' \cup (IF q = p THEN {s} ELSE {})
         /\ s \notin Queued(p)'
<1>1. /\ campMsgQ \in Seq(Message) /\ Len(campMsgQ) \in Nat \ {0}
      /\ Len(campMsgQ') = Len(campMsgQ) - 1 /\ campMsgQ[1] = [pipe |-> p, sub |-> s]
      /\ \A i \in 1..Len(campMsgQ') : campMsgQ'[i] = campMsgQ[i + 1]
  <2>1. campMsgQ \in Seq(Message) /\ Len(campMsgQ) \in Nat \ {0} /\ Head(campMsgQ) = campMsgQ[1]
    BY DEF TypeOK
  <2>2. Len(Tail(campMsgQ)) = Len(campMsgQ) - 1
    BY <2>1
  <2>3. \A i \in 1..Len(Tail(campMsgQ)) : Tail(campMsgQ)[i] = campMsgQ[i + 1]
    BY <2>1
  <2> QED BY <2>1, <2>2, <2>3
<1>3. \A i \in 1..Len(campMsgQ') : i + 1 \in 1..Len(campMsgQ) /\ i + 1 # 1
  BY <1>1
<1>4. \A i \in 2..Len(campMsgQ) : i - 1 \in 1..Len(campMsgQ') /\ campMsgQ'[i - 1] = campMsgQ[i]
  BY <1>1
<1>5. OnceQueued'
  <2> SUFFICES ASSUME NEW i \in 1..Len(campMsgQ'), NEW j \in 1..Len(campMsgQ'),
                      campMsgQ'[i] = campMsgQ'[j]
               PROVE  i = j
    BY DEF OnceQueued
  <2>1. campMsgQ[i + 1] = campMsgQ[j + 1]
    BY <1>1
  <2>2. i + 1 = j + 1
    BY <1>3, <2>1 DEF OnceQueued
  <2> QED BY <2>2
<1>6. ASSUME NEW q \in Pipes, NEW t \in Queued(q)'
      PROVE  t \in Queued(q)
  <2>1. t \in Subs /\ \E i \in 1..Len(campMsgQ') : campMsgQ'[i] = [pipe |-> q, sub |-> t]
    BY DEF Queued
  <2>2. PICK i \in 1..Len(campMsgQ') : campMsgQ'[i] = [pipe |-> q, sub |-> t]
    BY <2>1
  <2>3. campMsgQ[i + 1] = [pipe |-> q, sub |-> t] /\ i + 1 \in 1..Len(campMsgQ)
    BY <1>1, <1>3, <2>2
  <2> QED BY <2>1, <2>3 DEF Queued
<1>7. ASSUME NEW q \in Pipes, NEW t \in Queued(q), t \notin Queued(q)'
      PROVE  q = p /\ t = s
  <2>1. PICK i \in 1..Len(campMsgQ) : campMsgQ[i] = [pipe |-> q, sub |-> t]
    BY DEF Queued
  <2>2. t \in Subs
    BY DEF Queued
  <2>3. i \notin 2..Len(campMsgQ)
    BY <1>4, <1>7, <2>1, <2>2 DEF Queued
  <2>4. i = 1
    BY <1>1, <2>3
  <2> QED BY <1>1, <2>1, <2>4
<1>8. s \in Queued(p)
  <2>1. 1 \in 1..Len(campMsgQ) /\ campMsgQ[1] = [pipe |-> p, sub |-> s]
    BY <1>1
  <2> QED BY <2>1 DEF Queued
<1>9. s \notin Queued(p)'
  <2> SUFFICES ASSUME s \in Queued(p)' PROVE FALSE
    OBVIOUS
  <2>1. PICK i \in 1..Len(campMsgQ') : campMsgQ'[i] = [pipe |-> p, sub |-> s]
    BY DEF Queued
  <2>2. campMsgQ[i + 1] = campMsgQ[1] /\ 1 \in 1..Len(campMsgQ)
    BY <1>1, <2>1
  <2>3. i + 1 = 1
    BY <1>3, <2>2 DEF OnceQueued
  <2> QED BY <1>3, <2>1, <2>3
<1> QED BY <1>5, <1>6, <1>7, <1>8, <1>9

\* Run's send adds a message to the queue.
LEMMA QueueAdded ==
  ASSUME TypeOK, OnceQueued, NEW p \in Pipes, NEW s \in Subs, s \notin Queued(p),
         campMsgQ' = Append(campMsgQ, [pipe |-> p, sub |-> s])
  PROVE  /\ OnceQueued'
         /\ \A q \in Pipes : Queued(q)' = Queued(q) \cup (IF q = p THEN {s} ELSE {})
<1> DEFINE m == [pipe |-> p, sub |-> s]
           n == Len(campMsgQ) + 1
<1>1. /\ campMsgQ \in Seq(Message) /\ Len(campMsgQ) \in Nat
      /\ Len(campMsgQ') = n /\ campMsgQ'[n] = m /\ n \in 1..n
      /\ \A i \in 1..Len(campMsgQ) : campMsgQ'[i] = campMsgQ[i] /\ i \in 1..n /\ i # n
      /\ \A i \in 1..n : i = n \/ i \in 1..Len(campMsgQ)
  BY SMTT(30) DEF TypeOK
<1>2. \A i \in 1..Len(campMsgQ) : campMsgQ[i] # m
  BY DEF Queued
<1>3. OnceQueued'
  <2> HIDE DEF m, n
  <2> QED BY <1>1, <1>2 DEF OnceQueued
<1>4. ASSUME NEW q \in Pipes, NEW t \in Subs
      PROVE  t \in Queued(q)' <=> t \in Queued(q) \/ (q = p /\ t = s)
  <2>1. m = [pipe |-> q, sub |-> t] <=> q = p /\ t = s
    OBVIOUS
  <2>2. t \in Queued(q)' <=> \E i \in 1..n : campMsgQ'[i] = [pipe |-> q, sub |-> t]
    BY <1>1 DEF Queued
  <2>3. t \in Queued(q) <=> \E i \in 1..Len(campMsgQ) : campMsgQ[i] = [pipe |-> q, sub |-> t]
    BY DEF Queued
  <2> HIDE DEF m, n
  <2> QED BY <1>1, <2>1, <2>2, <2>3
<1>5. \A q \in Pipes : Queued(q) \subseteq Subs /\ Queued(q)' \subseteq Subs
  BY DEF Queued
<1> QED BY <1>3, <1>4, <1>5

\* Steps that only put messages away.
LEMMA FewerPlaces ==
  ASSUME UniqueInv, UNCHANGED campMsgQ,
         \A p \in Pipes : runPipe' = p => runPipe = p /\ batch' \subseteq batch,
         \A p \in Pipes : \A w \in Holders(p)' :
           w \in Holders(p) /\ worker'[w].sub = worker[w].sub
  PROVE  UniqueInv' /\ \A p \in Pipes : Pending(p)' \subseteq Pending(p)
<1>1. \A p \in Pipes : Queued(p)' = Queued(p)
  BY DEF Queued
<1>2. OnceQueued'
  BY DEF UniqueInv, OnceQueued
<1>3. OnceHeld'
  BY DEF UniqueInv, OnceHeld
<1>4. HeldNotQueued'
  BY <1>1 DEF UniqueInv, HeldNotQueued
<1>5. BatchIsNew'
  BY <1>1 DEF UniqueInv, BatchIsNew
<1>6. ASSUME NEW p \in Pipes PROVE Pending(p)' \subseteq Pending(p)
  <2>1. \A w \in Holders(p)' : w \in Holders(p) /\ worker'[w].sub = worker[w].sub
    OBVIOUS
  <2> QED BY <1>1, <2>1 DEF Pending
<1> QED BY <1>2, <1>3, <1>4, <1>5, <1>6 DEF UniqueInv

\* A worker that gives its message up: it is nowhere else.
LEMMA MessageReleased ==
  ASSUME TypeOK, UniqueInv, NEW w \in Workers, NEW p \in Pipes, NEW s \in Subs,
         worker[w].pipe = p, worker[w].sub = s,
         worker[w].pc \in {"check", "push"}, worker'[w].pc \notin {"check", "push"},
         \A v \in Workers : v # w => worker'[v] = worker[v],
         UNCHANGED <<campMsgQ, runPipe, batch>>
  PROVE  /\ UniqueInv' /\ s \in Pending(p) /\ s \notin Pending(p)'
         /\ \A q \in Pipes : /\ Pending(q)' \subseteq Pending(q)
                             /\ q # p => Pending(q)' = Pending(q)
                             /\ Pending(q) \subseteq Pending(q)' \cup {s}
<1>1. \A q : Holders(q)' = Holders(q) \ {w}
  BY DEF Holders
<1>2. w \in Holders(p) /\ \A q \in Pipes : q # p => w \notin Holders(q)
  BY DEF Holders
<1>3. \A q : Queued(q)' = Queued(q)
  BY DEF Queued
<1>4. \A q : \A v \in Holders(q)' : v \in Workers /\ v # w /\ worker'[v].sub = worker[v].sub
  BY <1>1 DEF Holders
<1>5. UniqueInv' /\ \A q \in Pipes : Pending(q)' \subseteq Pending(q)
  BY <1>1, <1>4, FewerPlaces
<1>6. s \in Pending(p)
  BY <1>2 DEF Pending
<1>7. s \notin Pending(p)'
  <2>1. s \notin Queued(p)'
    BY <1>2, <1>3 DEF UniqueInv, HeldNotQueued
  <2>2. \A v \in Holders(p)' : worker'[v].sub # s
    BY <1>1, <1>2, <1>4 DEF UniqueInv, OnceHeld
  <2>3. runPipe' = p => s \notin batch'
    BY <1>2 DEF UniqueInv, BatchIsNew
  <2> QED BY <2>1, <2>2, <2>3 DEF Pending
<1>8. ASSUME NEW q \in Pipes PROVE Pending(q) \subseteq Pending(q)' \cup {s}
  <2>1. \A v \in Holders(q) : v = w \/ (v \in Holders(q)' /\ worker'[v].sub = worker[v].sub)
    BY <1>1, <1>4
  <2>2. {worker[v].sub : v \in Holders(q)} \subseteq {worker'[v].sub : v \in Holders(q)'} \cup {s}
    BY <2>1
  <2> QED BY <1>3, <2>2 DEF Pending
<1>9. ASSUME NEW q \in Pipes, q # p PROVE Pending(q)' = Pending(q)
  <2>1. Holders(q)' = Holders(q) /\ \A v \in Holders(q) : worker'[v].sub = worker[v].sub
    BY <1>1, <1>2, <1>4, <1>9
  <2>2. {worker[v].sub : v \in Holders(q)} = {worker'[v].sub : v \in Holders(q)'}
    BY <2>1
  <2> QED BY <1>3, <2>2 DEF Pending
<1> QED BY <1>5, <1>6, <1>7, <1>8, <1>9

\* A message moves from the queue to a worker.
LEMMA MessageTaken ==
  ASSUME TypeOK, UniqueInv, NEW w \in Workers, WorkerTake(w)
  PROVE  UniqueInv' /\ \A q \in Pipes : Pending(q)' = Pending(q)
<1>1. PICK p \in Pipes, s \in Subs : Head(campMsgQ) = [pipe |-> p, sub |-> s]
  <2>1. campMsgQ # <<>> /\ campMsgQ \in Seq(Message)
    BY DEF WorkerTake, TypeOK
  <2>2. Head(campMsgQ) \in Message
    BY <2>1
  <2> QED BY <2>2 DEF Message
<1>2. /\ worker[w].pc = "idle" /\ campMsgQ # <<>> /\ campMsgQ' = Tail(campMsgQ)
      /\ worker' = [worker EXCEPT ![w] = [pc |-> "check", pipe |-> p, sub |-> s]]
      /\ UNCHANGED <<runPipe, batch>>
  <2>1. Head(campMsgQ).pipe = p /\ Head(campMsgQ).sub = s
    BY <1>1
  <2> QED BY <2>1 DEF WorkerTake, WorkerAt, ByWorker, runVars
<1>3. /\ worker'[w].pc = "check" /\ worker'[w].pipe = p /\ worker'[w].sub = s
      /\ \A v \in Workers : v # w => worker'[v] = worker[v]
  BY <1>2 DEF TypeOK
<1>4. /\ OnceQueued' /\ s \notin Queued(p)'
      /\ \A q \in Pipes : Queued(q) = Queued(q)' \cup (IF q = p THEN {s} ELSE {})
  BY <1>1, <1>2, QueueTaken DEF UniqueInv
<1>5. \A q \in Pipes : Holders(q)' = Holders(q) \cup (IF q = p THEN {w} ELSE {})
  BY <1>2, <1>3 DEF Holders
<1>6. \A q \in Pipes : w \notin Holders(q)
                       /\ \A v \in Holders(q) : worker'[v].sub = worker[v].sub
  BY <1>2, <1>3 DEF Holders
<1>7. s \in Queued(p)
  BY <1>4
<1>8. OnceHeld'
  <2> SUFFICES ASSUME NEW q \in Pipes, NEW u \in Holders(q)', NEW v \in Holders(q)',
                      worker'[u].sub = worker'[v].sub
               PROVE  u = v
    BY DEF OnceHeld
  <2>1. \A x \in Holders(p) : worker[x].sub # s
    BY <1>7 DEF UniqueInv, HeldNotQueued
  <2>2. CASE u \in Holders(q) /\ v \in Holders(q)
    BY <1>6, <2>2 DEF UniqueInv, OnceHeld
  <2>3. CASE q = p /\ (u = w \/ v = w)
    BY <1>3, <1>5, <1>6, <2>1, <2>3
  <2> QED BY <1>5, <2>2, <2>3
<1>9. HeldNotQueued'
  <2> SUFFICES ASSUME NEW q \in Pipes, NEW v \in Holders(q)'
               PROVE  worker'[v].sub \notin Queued(q)'
    BY DEF HeldNotQueued
  <2>1. CASE v \in Holders(q)
    BY <1>4, <1>6, <2>1 DEF UniqueInv, HeldNotQueued
  <2>2. CASE q = p /\ v = w
    BY <1>3, <1>4, <2>2
  <2> QED BY <1>5, <2>1, <2>2
<1>10. BatchIsNew'
  <2> SUFFICES ASSUME NEW q \in Pipes, runPipe = q, NEW t \in batch
               PROVE  t \notin Queued(q)' /\ \A v \in Holders(q)' : worker'[v].sub # t
    BY <1>2 DEF BatchIsNew
  <2>1. t \notin Queued(q) /\ \A v \in Holders(q) : worker[v].sub # t
    BY DEF UniqueInv, BatchIsNew
  <2> QED BY <1>3, <1>4, <1>5, <1>6, <1>7, <2>1
<1>11. ASSUME NEW q \in Pipes PROVE Pending(q)' = Pending(q)
  <2>1. {worker'[v].sub : v \in Holders(q)'}
          = {worker[v].sub : v \in Holders(q)} \cup (IF q = p THEN {s} ELSE {})
    BY <1>3, <1>5, <1>6
  <2> QED BY <1>2, <1>4, <2>1 DEF Pending
<1> QED BY <1>4, <1>8, <1>9, <1>10, <1>11 DEF UniqueInv

\* A message moves from the batch to the queue.
LEMMA MessagePushed ==
  ASSUME TypeOK, UniqueInv, NEW s \in Subs, RunPush(s)
  PROVE  UniqueInv' /\ \A q \in Pipes : Pending(q)' = Pending(q)
<1>1. /\ runPipe \in Pipes /\ s \in batch /\ batch' = batch \ {s}
      /\ campMsgQ' = Append(campMsgQ, [pipe |-> runPipe, sub |-> s])
      /\ UNCHANGED <<runPipe, worker>>
  BY DEF RunPush, NextInBatch, ByRun, TypeOK
<1>2. s \notin Queued(runPipe) /\ \A v \in Holders(runPipe) : worker[v].sub # s
  BY <1>1 DEF UniqueInv, BatchIsNew
<1>3. /\ OnceQueued'
      /\ \A q \in Pipes : Queued(q)' = Queued(q) \cup (IF q = runPipe THEN {s} ELSE {})
  BY <1>1, <1>2, QueueAdded DEF UniqueInv
<1>4. \A q \in Pipes : Holders(q)' = Holders(q)
  BY <1>1 DEF Holders
<1>5. OnceHeld'
  BY <1>1, <1>4 DEF UniqueInv, OnceHeld
<1>6. HeldNotQueued'
  BY <1>1, <1>2, <1>3, <1>4 DEF UniqueInv, HeldNotQueued
<1>7. BatchIsNew'
  BY <1>1, <1>3, <1>4 DEF UniqueInv, BatchIsNew
<1>8. ASSUME NEW q \in Pipes PROVE Pending(q)' = Pending(q)
  BY <1>1, <1>3, <1>4 DEF Pending
<1> QED BY <1>3, <1>5, <1>6, <1>7, <1>8 DEF UniqueInv

\* Run skips a message that does not render.
LEMMA MessageSkipped ==
  ASSUME TypeOK, UniqueInv, NEW s \in Subs, RunRenderError(s)
  PROVE  /\ UniqueInv'
         /\ \A q \in Pipes : /\ Pending(q)' \subseteq Pending(q)
                             /\ Pending(q) \subseteq Pending(q)' \cup Unrenderable
<1>1. /\ s \in Unrenderable /\ batch' = batch \ {s}
      /\ UNCHANGED <<runPipe, worker, campMsgQ>>
  BY DEF RunRenderError, ByRun, chanVars
<1>2. \A q \in Pipes : Holders(q)' = Holders(q) /\ Queued(q)' = Queued(q)
  BY <1>1 DEF Holders, Queued
<1>3. UniqueInv' /\ \A q \in Pipes : Pending(q)' \subseteq Pending(q)
  BY <1>1, <1>2, FewerPlaces
<1>4. ASSUME NEW q \in Pipes PROVE Pending(q) \subseteq Pending(q)' \cup Unrenderable
  BY <1>1, <1>2 DEF Pending
<1> QED BY <1>3, <1>4

-----------------------------------------------------------------------------
(* Fetching a batch *)

\* A batch leaves out nobody between the checkpoint and its end.
LEMMA BatchIsInitial ==
  ASSUME TypeOK, NEW c \in Campaigns, NEW top \in NextBatch(c),
         NEW s \in Remaining(c), s <= top
  PROVE  s \in NextBatch(c)
<1> DEFINE upTo(x) == {t \in Remaining(c) : t <= x}
<1>1. row[c].maxSub \in Nat /\ Subs \subseteq Nat
  <2>1. row[c] \in Row /\ Subs \subseteq Nat
    BY ManagerAssumption DEF TypeOK, CampaignTable
  <2>2. row[c].maxSub \in Subs \cup {0}
    BY <2>1 DEF Row
  <2>3. CASE row[c].maxSub \in Subs
    BY <2>1, <2>3
  <2>4. CASE row[c].maxSub = 0
    BY <2>1, <2>4
  <2> QED BY <2>2, <2>3, <2>4
<1>2. Remaining(c) \subseteq Nat /\ top \in Remaining(c)
  BY <1>1, NextBatchType DEF NextBatch
<1>3. Remaining(c) \subseteq 0..row[c].maxSub
  BY <1>1, <1>2 DEF Remaining
<1>4. IsFiniteSet(upTo(top))
  <2>1. IsFiniteSet(0..row[c].maxSub)
    BY <1>1, FS_Interval
  <2>2. upTo(top) \subseteq 0..row[c].maxSub
    BY <1>3
  <2> QED BY <2>1, <2>2, FS_Subset
<1>5. upTo(s) \subseteq upTo(top)
  BY <1>2
<1>6. /\ IsFiniteSet(upTo(s)) /\ Cardinality(upTo(s)) <= Cardinality(upTo(top))
      /\ Cardinality(upTo(s)) \in Nat /\ Cardinality(upTo(top)) \in Nat
  <2> HIDE DEF upTo
  <2> QED BY <1>4, <1>5, FS_Subset, FS_CardinalityType
<1>7. Cardinality(upTo(top)) <= BatchSize
  BY DEF NextBatch
<1>8. Cardinality(upTo(s)) <= BatchSize
  <2> HIDE DEF upTo
  <2> QED BY <1>6, <1>7, ManagerAssumption
<1> QED BY <1>8 DEF NextBatch

\* A batch is new: it lies above the checkpoint, and all that the pipe has pending
\* or has attempted lies at or below it.
LEMMA FetchStep ==
  ASSUME TypeOK, PipeMapInv, CountInv, UniqueInv, LedgerInv, NEW p \in Pipes, RunFetch(p)
  PROVE  UniqueInv' /\ LedgerInv'
<1>1. pipe[p].phase = "live"
  BY ReceiveCount, HeldIsLive DEF RunFetch
<1>2. PICK c \in Campaigns : c = pipe[p].camp
  BY <1>1 DEF PipeMapInv, PipesHaveCampaigns
<1>3. PICK top \in NextBatch(c) :
        /\ IsTop(top, NextBatch(c)) /\ row' = [row EXCEPT ![c].lastSub = top]
        /\ batch' = NextBatch(c) /\ runPipe = None /\ runPipe' = p
        /\ UNCHANGED <<pipe, campMsgQ, worker, delivered, failed, lost, rewound>>
  BY <1>2 DEF RunFetch, RunReceive, ByRun, histVars
<1>4. /\ Subs \subseteq Nat /\ NextBatch(c) \subseteq Subs /\ Remaining(c) \subseteq Subs
      /\ row[c].lastSub \in Nat
  BY LedgerType, NextBatchType
<1>5. /\ row'[c].lastSub = top /\ top \in Nat
      /\ \A d \in Campaigns : d # c => row'[d].lastSub = row[d].lastSub
      /\ row'[c].maxSub = row[c].maxSub
  BY <1>3, <1>4 DEF TypeOK, CampaignTable, Row
<1>6. ASSUME NEW s \in NextBatch(c)
      PROVE  /\ s \in Nat /\ s \in Audience[c] /\ row[c].lastSub < s /\ s <= top
             /\ s <= row[c].maxSub
  BY <1>3, <1>4 DEF NextBatch, Remaining, IsTop
<1>7. \A q \in Pipes : q # None /\ Queued(q)' = Queued(q) /\ Holders(q)' = Holders(q)
                       /\ Attempted(q)' = Attempted(q)
  BY <1>3, ManagerAssumption DEF Queued, Holders, Attempted
<1>8. /\ Pending(p)' = Pending(p) \cup NextBatch(c)
      /\ \A q \in Pipes : q # p => Pending(q)' = Pending(q)
  BY <1>3, <1>7 DEF Pending
<1>9. \A s \in NextBatch(c) : s \notin Pending(p)
  <2>1. \A s \in Pending(p) : s \in Nat /\ s <= row[c].lastSub
    BY <1>1, <1>2, <1>4, LedgerType DEF LedgerInv, PendingBelow
  <2> QED BY <1>4, <1>6, <2>1
<1>10. UniqueInv'
  <2>1. OnceQueued'
    BY <1>3 DEF UniqueInv, OnceQueued
  <2>2. OnceHeld'
    BY <1>3, <1>7 DEF UniqueInv, OnceHeld
  <2>3. HeldNotQueued'
    BY <1>3, <1>7 DEF UniqueInv, HeldNotQueued
  <2>4. BatchIsNew'
    BY <1>3, <1>7, <1>9 DEF BatchIsNew, Pending
  <2> QED BY <2>1, <2>2, <2>3, <2>4 DEF UniqueInv
<1>11. \A s \in Nat : s <= row[c].lastSub => s <= top
  BY <1>3, <1>4, <1>5, <1>6
<1>12. \A q \in Pipes : /\ pipe[q].phase # "unused" => pipe[q].camp \in Campaigns
                        /\ Pending(q) \subseteq Nat /\ Attempted(q) \subseteq Nat
  BY <1>4, LedgerType DEF PipeMapInv, PipesHaveCampaigns
<1>13. FreshIsBlank'
  BY <1>3 DEF LedgerInv, FreshIsBlank
<1>14. \A q \in Pipes : \A s \in Attempted(q) : s \in Nat /\
         (\/ s <= row[pipe[q].camp].lastSub
          \/ pipe[q].phase \notin {"live", "counts"} /\ s \in rewound[pipe[q].camp])
  BY <1>12 DEF LedgerInv, AttemptedBelow
<1>15. PendingNotAttempted'
  <2>1. \A s \in NextBatch(c) : s \notin Attempted(p)
    BY <1>1, <1>2, <1>4, <1>6, <1>14
  <2> QED BY <1>7, <1>8, <2>1 DEF LedgerInv, PendingNotAttempted
<1>16. PendingBelow'
  <2> SUFFICES ASSUME NEW q \in Pipes, pipe[q].phase = "live", NEW s \in Pending(q)'
               PROVE  s <= row'[pipe[q].camp].lastSub
    BY <1>3 DEF PendingBelow
  <2>1. CASE s \in Pending(q)
    <3>1. s \in Nat /\ s <= row[pipe[q].camp].lastSub /\ pipe[q].camp \in Campaigns
      BY <1>12, <2>1 DEF LedgerInv, PendingBelow
    <3> QED BY <1>5, <1>11, <3>1
  <2>2. CASE q = p /\ s \in NextBatch(c)
    BY <1>2, <1>5, <1>6, <2>2
  <2> QED BY <1>8, <2>1, <2>2
<1>17. AttemptedBelow'
  <2> SUFFICES ASSUME NEW q \in Pipes, NEW s \in Attempted(q)
               PROVE  \/ s <= row'[pipe[q].camp].lastSub
                      \/ pipe[q].phase \notin {"live", "counts"} /\ s \in rewound[pipe[q].camp]
    BY <1>3, <1>7 DEF AttemptedBelow
  <2>1. pipe[q].camp \in Campaigns
    BY <1>12 DEF LedgerInv, FreshIsBlank, Attempted
  <2> QED BY <1>5, <1>11, <1>14, <2>1
<1>18. \A d : PipesOf(d)' = PipesOf(d) /\ PipesOf(d) \subseteq Pipes
  BY <1>3 DEF PipesOf
<1>19. RepeatsRewound'
  <2> SUFFICES ASSUME NEW d \in Campaigns, NEW q \in PipesOf(d), NEW r \in PipesOf(d), q # r,
                      NEW s \in delivered[q] \cup Pending(q)', s \in delivered[r]
               PROVE  s \in rewound[d]
    BY <1>3, <1>18 DEF RepeatsRewound
  <2>1. CASE s \in delivered[q] \cup Pending(q)
    BY <2>1 DEF LedgerInv, RepeatsRewound
  <2>2. CASE q = p /\ s \in NextBatch(c)
    <3>1. d = c /\ pipe[r].camp = c /\ r \in Pipes /\ s \in Attempted(r)
      BY <1>2, <2>2 DEF PipesOf, Attempted
    <3> QED BY <1>4, <1>6, <1>14, <2>2, <3>1
  <2> QED BY <1>8, <1>18, <2>1, <2>2
<1>20. CheckpointAccounts'
  <2> SUFFICES ASSUME NEW d \in Campaigns, NEW s \in Audience[d], s <= row'[d].lastSub
               PROVE  s \in Accounted(d)' \cup UNION {Pending(q)' : q \in PipesOf(d)}
    BY <1>18 DEF CheckpointAccounts
  <2>1. Accounted(d)' = Accounted(d)
    BY <1>3, <1>7, <1>18 DEF Accounted
  <2>2. UNION {Pending(q) : q \in PipesOf(d)} \subseteq UNION {Pending(q)' : q \in PipesOf(d)}
    BY <1>8, <1>18
  <2>3. CASE s <= row[d].lastSub
    BY <2>1, <2>2, <2>3 DEF LedgerInv, CheckpointAccounts
  <2>4. CASE d = c /\ ~(s <= row[c].lastSub)
    <3>1. s \in Subs /\ s <= top /\ top <= row[c].maxSub /\ top \in Nat /\ row[c].maxSub \in Nat
      <4>1. row[c] \in Row
        BY DEF TypeOK, CampaignTable
      <4>2. row[c].maxSub \in Subs \cup {0}
        BY <4>1 DEF Row
      <4>3. row[c].maxSub \in Nat
        BY <1>4, <4>2
      <4> QED BY <1>3, <1>5, <1>6, <2>4, <4>3, ManagerAssumption
    <3>2. s <= row[c].maxSub /\ row[c].lastSub < s
      BY <1>4, <2>4, <3>1
    <3>3. s \in Remaining(c)
      BY <2>4, <3>2 DEF Remaining
    <3>4. s \in NextBatch(c)
      BY <1>3, <3>1, <3>3, BatchIsInitial
    <3>5. p \in PipesOf(c) /\ s \in Pending(p)'
      BY <1>2, <1>8, <3>4 DEF PipesOf
    <3> QED BY <2>4, <3>5
  <2> QED BY <1>5, <2>3, <2>4
<1> QED BY <1>10, <1>13, <1>15, <1>16, <1>17, <1>19, <1>20 DEF LedgerInv

-----------------------------------------------------------------------------
(* Sending a message *)

\* A worker's Push: the message leaves what is pending for what is attempted, and
\* no other pipe of the campaign has it pending.
LEMMA AttemptStep ==
  ASSUME TypeOK, PipeMapInv, CountInv, UniqueInv, LedgerInv,
         NEW w \in Workers, NEW ok \in BOOLEAN, WorkerPush(w, ok)
  PROVE  UniqueInv' /\ LedgerInv'
<1>1. PICK p \in Pipes, s \in Subs : worker[w].pipe = p /\ worker[w].sub = s
  BY WorkerType DEF WorkerPush, WorkerAt
<1>2. /\ worker[w].pc = "push" /\ worker'[w].pc \notin {"check", "push"}
      /\ \A v \in Workers : v # w => worker'[v] = worker[v]
      /\ pipe' = Released(pipe, p)
      /\ delivered' = [delivered EXCEPT ![p] = IF ok THEN @ \cup {s} ELSE @]
      /\ failed' = [failed EXCEPT ![p] = IF ok THEN @ ELSE @ \cup {s}]
      /\ UNCHANGED <<row, campMsgQ, runPipe, batch, lost, rewound>>
  BY <1>1, WorkerMoves DEF WorkerPush, WorkerAt, ByWorker, runVars
<1>3. /\ UniqueInv' /\ s \in Pending(p) /\ s \notin Pending(p)'
      /\ \A q \in Pipes : /\ Pending(q)' \subseteq Pending(q)
                          /\ q # p => Pending(q)' = Pending(q)
                          /\ Pending(q) \subseteq Pending(q)' \cup {s}
  BY <1>1, <1>2, MessageReleased
<1>4. \A q \in Pipes : pipe'[q].camp = pipe[q].camp /\ pipe'[q].phase = pipe[q].phase
  BY <1>2, ReleasedType DEF SamePipes, TypeOK
<1>5. /\ \A q \in Pipes : q # p => delivered'[q] = delivered[q] /\ failed'[q] = failed[q]
      /\ delivered[p] \subseteq delivered'[p] /\ delivered'[p] \subseteq delivered[p] \cup {s}
      /\ failed[p] \subseteq failed'[p] /\ failed'[p] \subseteq failed[p] \cup {s}
      /\ s \in delivered'[p] \cup failed'[p]
  BY <1>2 DEF TypeOK
<1>6. /\ Attempted(p)' = Attempted(p) \cup {s}
      /\ \A q \in Pipes : q # p => Attempted(q)' = Attempted(q)
  BY <1>5 DEF Attempted
<1>7. pipe[p].phase = "live"
  BY <1>3, PendingIsLive
<1>8. PICK c \in Campaigns : c = pipe[p].camp
  BY <1>7 DEF PipeMapInv, PipesHaveCampaigns
<1>9. s <= row[c].lastSub
  BY <1>3, <1>7, <1>8 DEF LedgerInv, PendingBelow
<1>10. \A d : PipesOf(d)' = PipesOf(d) /\ PipesOf(d) \subseteq Pipes
  BY <1>4 DEF PipesOf
<1>11. FreshIsBlank'
  BY <1>4, <1>5, <1>7 DEF LedgerInv, FreshIsBlank
<1>12. PendingNotAttempted'
  BY <1>3, <1>6 DEF LedgerInv, PendingNotAttempted
<1>13. PendingBelow'
  BY <1>2, <1>3, <1>4 DEF LedgerInv, PendingBelow
<1>14. AttemptedBelow'
  BY <1>2, <1>4, <1>6, <1>8, <1>9 DEF LedgerInv, AttemptedBelow
<1>15. RepeatsRewound'
  <2> SUFFICES ASSUME NEW d \in Campaigns, NEW q \in PipesOf(d), NEW r \in PipesOf(d), q # r,
                      NEW t \in delivered'[q] \cup Pending(q)', t \in delivered'[r]
               PROVE  t \in rewound[d]
    BY <1>2, <1>10 DEF RepeatsRewound
  <2>1. q \in Pipes /\ r \in Pipes
    BY <1>10
  <2>2. t \in delivered[q] \cup Pending(q)
    BY <1>3, <1>5, <2>1
  <2>3. CASE t \in delivered[r]
    BY <2>2, <2>3 DEF LedgerInv, RepeatsRewound
  <2>4. CASE r = p /\ t = s
    <3>1. t \notin Pending(q)
      <4> SUFFICES ASSUME t \in Pending(q) PROVE FALSE
        OBVIOUS
      <4>1. pipe[q].phase = "live"
        BY <2>1, PendingIsLive
      <4> QED BY <1>7, <2>1, <2>4, <4>1, LiveIsAlone DEF PipesOf
    <3>2. t \in delivered[q] /\ t \in delivered[p] \cup Pending(p)
      BY <1>3, <2>2, <2>4, <3>1
    <3> QED BY <2>4, <3>2 DEF LedgerInv, RepeatsRewound
  <2> QED BY <1>5, <2>1, <2>3, <2>4
<1>16. CheckpointAccounts'
  <2> SUFFICES ASSUME NEW d \in Campaigns, NEW t \in Audience[d], t <= row[d].lastSub
               PROVE  t \in Accounted(d)' \cup UNION {Pending(q)' : q \in PipesOf(d)}
    BY <1>2, <1>10 DEF CheckpointAccounts
  <2>1. t \in Accounted(d) \cup UNION {Pending(q) : q \in PipesOf(d)}
    BY DEF LedgerInv, CheckpointAccounts
  <2>2. Accounted(d)' = Unrenderable \cup lost[d] \cup UNION {Attempted(q)' : q \in PipesOf(d)}
    BY <1>2, <1>10 DEF Accounted
  <2>3. \A q \in PipesOf(d) : Attempted(q) \subseteq Attempted(q)'
    BY <1>6, <1>10
  <2>4. CASE t \in Accounted(d)
    BY <2>2, <2>3, <2>4 DEF Accounted
  <2>5. ASSUME NEW q \in PipesOf(d), t \in Pending(q)
        PROVE  t \in Accounted(d)' \cup UNION {Pending(r)' : r \in PipesOf(d)}
    <3>1. t \in Pending(q)' \/ (q = p /\ t = s)
      BY <1>3, <1>10, <2>5
    <3>2. q = p /\ t = s => t \in Attempted(q)'
      BY <1>6
    <3> QED BY <2>2, <3>1, <3>2
  <2> QED BY <2>1, <2>4, <2>5
<1> QED BY <1>3, <1>11, <1>12, <1>13, <1>14, <1>15, <1>16 DEF LedgerInv

-----------------------------------------------------------------------------
(* The scan *)

\* A new pipe has nothing pending and has attempted nobody.
LEMMA NewPipeStep ==
  ASSUME TypeOK, PipeMapInv, CountInv, UniqueInv, LedgerInv,
         NEW c \in Campaigns, NEW p \in Pipes, ScanNewPipe(c, p)
  PROVE  UniqueInv' /\ LedgerInv'
<1>1. /\ pipe[p].phase = "unused"
      /\ pipe' = [pipe EXCEPT ![p] = NewPipe(c)]
      /\ UNCHANGED <<row, campMsgQ, runPipe, batch, worker, delivered, failed, lost, rewound>>
  BY DEF ScanNewPipe, Fresh, ByScan, runVars, histVars
<1>2. /\ pipe'[p].camp = c /\ pipe'[p].phase = "live"
      /\ \A q \in Pipes : q # p => pipe'[q] = pipe[q]
  BY <1>1 DEF NewPipe, PipeAt, TypeOK, PipeTable
<1>3. UniqueInv' /\ \A q \in Pipes : Pending(q)' = Pending(q) /\ Attempted(q)' = Attempted(q)
  BY <1>1, SamePlaces DEF Attempted
<1>4. Pending(p) = {} /\ Attempted(p) = {} /\ delivered[p] = {}
  BY <1>1, PendingIsLive DEF LedgerInv, FreshIsBlank, Attempted
<1>5. \A d : /\ PipesOf(d)' \subseteq PipesOf(d) \cup {p} /\ PipesOf(d) \subseteq PipesOf(d)' \cup {p}
             /\ PipesOf(d) \subseteq Pipes
  BY <1>2 DEF PipesOf
<1>6. FreshIsBlank' /\ PendingNotAttempted'
  BY <1>1, <1>2, <1>3 DEF LedgerInv, FreshIsBlank, PendingNotAttempted
<1>7. PendingBelow'
  BY <1>1, <1>2, <1>3, <1>4 DEF LedgerInv, PendingBelow
<1>8. AttemptedBelow'
  BY <1>1, <1>2, <1>3, <1>4 DEF LedgerInv, AttemptedBelow
<1>9. RepeatsRewound'
  <2> SUFFICES ASSUME NEW d \in Campaigns, NEW q \in PipesOf(d)', NEW r \in PipesOf(d)', q # r,
                      NEW t \in delivered[q] \cup Pending(q)', t \in delivered[r]
               PROVE  t \in rewound[d]
    BY <1>1 DEF RepeatsRewound
  <2>1. q # p /\ r # p /\ q \in PipesOf(d) /\ r \in PipesOf(d) /\ q \in Pipes
    BY <1>3, <1>4, <1>5
  <2> QED BY <1>3, <2>1 DEF LedgerInv, RepeatsRewound
<1>10. CheckpointAccounts'
  <2> SUFFICES ASSUME NEW d \in Campaigns, NEW t \in Audience[d], t <= row[d].lastSub
               PROVE  t \in Accounted(d)' \cup UNION {Pending(q)' : q \in PipesOf(d)'}
    BY <1>1 DEF CheckpointAccounts
  <2>1. t \in Accounted(d) \cup UNION {Pending(q) : q \in PipesOf(d)}
    BY DEF LedgerInv, CheckpointAccounts
  <2>2. Accounted(d)' = Unrenderable \cup lost[d] \cup UNION {Attempted(q)' : q \in PipesOf(d)'}
    BY <1>1 DEF Accounted
  <2>3. ASSUME NEW q \in PipesOf(d), t \in Attempted(q) \cup Pending(q)
        PROVE  q \in PipesOf(d)' /\ t \in Attempted(q)' \cup Pending(q)'
    BY <1>3, <1>4, <1>5, <2>3
  <2> QED BY <2>1, <2>2, <2>3 DEF Accounted
<1> QED BY <1>3, <1>6, <1>7, <1>8, <1>9, <1>10 DEF LedgerInv

-----------------------------------------------------------------------------
(* Recording what was sent *)

\* Steps that send nothing and record nothing.
LEMMA RecordKept ==
  ASSUME TypeOK, RecordInv, UNCHANGED delivered,
         \A w \in Workers : Recording(w)' =>
           Recording(w) /\ worker'[w].pipe = worker[w].pipe /\ worker'[w].sub = worker[w].sub,
         \A p \in Pipes : pipe'[p].lastID \in {0, pipe[p].lastID}
  PROVE  RecordInv'
BY DEF RecordInv

\* Every step of a worker records only what was sent.
LEMMA WorkerRecord ==
  ASSUME TypeOK, RecordInv, NEW w \in Workers, Worker(w)
  PROVE  RecordInv'
<1> USE DEF WorkerAt
<1>1. \A q \in Pipes : Released(pipe, worker[w].pipe)[q].lastID = pipe[q].lastID
  BY DEF Released, TypeOK, PipeTable, PipeValue
<1>2. CASE WorkerTake(w)
  <2>1. /\ worker'[w].pc = "check" /\ \A v \in Workers : v # w => worker'[v] = worker[v]
        /\ UNCHANGED <<pipe, delivered>>
    BY <1>2 DEF WorkerTake, NoOutcome, TypeOK
  <2> QED BY <2>1, RecordKept DEF Recording
<1>3. CASE WorkerDrop(w)
  BY <1>1, <1>3, WorkerMoves, RecordKept DEF WorkerDrop, Recording
<1>4. CASE WorkerAccept(w)
  BY <1>4, WorkerMoves, RecordKept DEF WorkerAccept, NoOutcome, Recording
<1>5. ASSUME NEW ok \in BOOLEAN, WorkerPush(w, ok) PROVE RecordInv'
  <2>1. PICK p \in Pipes, s \in Subs : worker[w].pipe = p /\ worker[w].sub = s
    BY <1>5, WorkerType DEF WorkerPush
  <2>2. delivered' = [delivered EXCEPT ![p] = IF ok THEN @ \cup {s} ELSE @]
    BY <1>5, <2>1 DEF WorkerPush
  <2>3. /\ \A q \in Pipes : delivered[q] \subseteq delivered'[q]
        /\ ok => s \in delivered'[p]
    BY <2>2 DEF TypeOK
  <2>4. worker'[w].pc = IF ok THEN "load" ELSE "error"
    BY <1>5, WorkerMoves DEF WorkerPush
  <2>5. /\ worker'[w].pipe = p /\ worker'[w].sub = s
        /\ \A v \in Workers : v # w => worker'[v] = worker[v]
    BY <1>5, <2>1 DEF WorkerPush, WorkerTo, TypeOK, WorkerState
  <2>6. ASSUME NEW v \in Workers, Recording(v)'
        PROVE  worker'[v].sub \in delivered'[worker'[v].pipe]
    <3>1. CASE v = w
      BY <2>3, <2>4, <2>5, <2>6, <3>1 DEF Recording
    <3>2. CASE v # w
      <4>1. worker'[v] = worker[v] /\ Recording(v) /\ worker[v].pipe \in Pipes
        BY <2>5, <2>6, <3>2, WorkerType DEF Recording
      <4> QED BY <2>3, <4>1 DEF RecordInv
    <3> QED BY <3>1, <3>2
  <2>7. \A q \in Pipes : pipe'[q].lastID = pipe[q].lastID
    BY <1>1, <1>5 DEF WorkerPush
  <2> QED BY <2>3, <2>6, <2>7 DEF RecordInv
<1>6. CASE WorkerOnError(w)
  <2>1. \A q \in Pipes : pipe'[q].lastID = pipe[q].lastID
    BY <1>6 DEF WorkerOnError, TypeOK, PipeTable, PipeValue
  <2> QED BY <1>6, <2>1, WorkerMoves, RecordKept DEF WorkerOnError, NoOutcome, Recording
<1>7. CASE WorkerLoad(w)
  <2>1. /\ worker[w].pc = "load" /\ UNCHANGED <<pipe, delivered>>
        /\ worker'[w].pipe = worker[w].pipe /\ worker'[w].sub = worker[w].sub
        /\ \A v \in Workers : v # w => worker'[v] = worker[v]
    BY <1>7 DEF WorkerLoad, WorkerTo, NoOutcome, TypeOK, WorkerState
  <2> QED BY <2>1, RecordKept DEF Recording
<1>8. CASE WorkerStore(w)
  <2>1. PICK p \in Pipes, s \in Subs : worker[w].pipe = p /\ worker[w].sub = s
    BY <1>8, WorkerType DEF WorkerStore
  <2>2. /\ worker[w].pc = "store" /\ UNCHANGED delivered
        /\ pipe' = [pipe EXCEPT ![p].lastID = s]
        /\ worker'[w].pipe = p /\ worker'[w].sub = s
        /\ \A v \in Workers : v # w => worker'[v] = worker[v]
    BY <1>8, <2>1 DEF WorkerStore, WorkerTo, NoOutcome, TypeOK, WorkerState
  <2>3. s \in delivered[p]
    BY <2>1, <2>2 DEF RecordInv, Recording
  <2>4. \A q \in Pipes : pipe'[q].lastID = IF q = p THEN s ELSE pipe[q].lastID
    BY <2>2 DEF TypeOK, PipeTable, PipeValue
  <2> QED BY <2>2, <2>3, <2>4 DEF RecordInv, Recording
<1>9. CASE WorkerSent(w)
  <2>1. \A q \in Pipes : pipe'[q].lastID = pipe[q].lastID
    BY <1>9 DEF WorkerSent, TypeOK, PipeTable, PipeValue
  <2> QED BY <1>9, <2>1, WorkerMoves, RecordKept DEF WorkerSent, NoOutcome, Recording
<1> QED BY <1>2, <1>3, <1>4, <1>5, <1>6, <1>7, <1>8, <1>9 DEF Worker

-----------------------------------------------------------------------------
(* Steps that move no message *)

\* Such a step keeps the invariant when it leaves the campaigns and recorded ids of
\* the pipes and the checkpoints, and moves a pipe only forward.
LEMMA QuietDelivery ==
  ASSUME TypeOK, PipeMapInv, DeliveryInv,
         UNCHANGED <<campMsgQ, runPipe, batch, worker, delivered, failed, lost, rewound>>,
         \A q \in Pipes :
           /\ pipe'[q].camp = pipe[q].camp /\ pipe'[q].lastID = pipe[q].lastID
           /\ pipe'[q].phase = "unused" => pipe[q].phase = "unused"
           /\ pipe'[q].phase = "live" => pipe[q].phase = "live"
           /\ pipe'[q].phase \in {"live", "counts"} => pipe[q].phase \in {"live", "counts"},
         \A c \in Campaigns : row'[c].lastSub = row[c].lastSub
  PROVE  DeliveryInv'
<1>1. UniqueInv' /\ \A q \in Pipes : Pending(q)' = Pending(q)
  BY SamePlaces DEF DeliveryInv
<1>2. LedgerInv'
  BY <1>1, CalmStep DEF DeliveryInv
<1>3. RecordInv'
  BY RecordKept DEF DeliveryInv, Recording
<1> QED BY <1>1, <1>2, <1>3 DEF DeliveryInv

\* A status or lock written to a row leaves the checkpoint, and so does giving a
\* pipe's count back, or stopping it, leave what it has recorded.
LEMMA LastIDKept ==
  ASSUME pipe \in PipeTable, NEW p \in Pipes
  PROVE  \A q \in Pipes : /\ Released(pipe, p)[q].lastID = pipe[q].lastID
                          /\ StoppedAndReleased(p)[q].lastID = pipe[q].lastID
BY DEF Released, StoppedAndReleased, PipeTable, PipeValue

\* Every step of the scan keeps the invariant.
LEMMA ScanDelivery ==
  ASSUME TypeOK, PipeMapInv, CountInv, DeliveryInv, Scan
  PROVE  DeliveryInv'
<1> USE DEF ByScan, runVars, chanVars, histVars
<1>0. row \in [Campaigns -> Row] /\ pipe \in PipeTable
  BY DEF TypeOK, CampaignTable
<1>1. CASE ScanTick
  BY <1>1, QuietDelivery DEF ScanTick
<1>2. ASSUME NEW c \in Campaigns, ScanLoad(c) PROVE DeliveryInv'
  BY <1>2, QuietDelivery DEF ScanLoad
<1>3. CASE ScanReset
  <2>1. \A q \in Pipes : /\ pipe'[q].camp = pipe[q].camp /\ pipe'[q].lastID = pipe[q].lastID
                         /\ pipe'[q].phase = pipe[q].phase
    BY <1>0, <1>3 DEF ScanReset, PipeTable, PipeValue
  <2> QED BY <1>3, <2>1, QuietDelivery DEF ScanReset
<1>4. ASSUME NEW t \in Tenants, ScanSelect(t) PROVE DeliveryInv'
  BY <1>4, QuietDelivery DEF ScanSelect
<1>5. CASE ScanUpdate
  <2>1. ASSUME NEW c \in Campaigns PROVE row'[c].lastSub = row[c].lastSub
    <3>1. \/ \E m : row'[c] = [row[c] EXCEPT !.status = "running", !.maxSub = m]
          \/ \E n : row'[c] = [row[c] EXCEPT !.sent = n]
      BY <1>5 DEF ScanUpdate
    <3>2. row[c] \in Row
      BY <1>0
    <3> QED BY <3>1, <3>2 DEF Row
  <2> QED BY <1>5, <2>1, QuietDelivery DEF ScanUpdate
<1>6. CASE ScanError
  BY <1>6, QuietDelivery DEF ScanError
<1>7. ASSUME NEW c \in Campaigns, ScanUnknownMessenger(c) PROVE DeliveryInv'
  <2>1. \A d \in Campaigns : row'[d].lastSub = row[d].lastSub
    BY <1>0, <1>7 DEF ScanUnknownMessenger, TryStatus, WriteStatus, Row
  <2> QED BY <1>7, <2>1, QuietDelivery DEF ScanUnknownMessenger
<1>8. ASSUME NEW c \in Campaigns, ScanPipeError(c) PROVE DeliveryInv'
  BY <1>8, QuietDelivery DEF ScanPipeError
<1>9. ASSUME NEW c \in Campaigns, NEW p \in Pipes, ScanNewPipe(c, p) PROVE DeliveryInv'
  <2>1. UniqueInv' /\ LedgerInv'
    BY <1>9, NewPipeStep DEF DeliveryInv
  <2>2. /\ UNCHANGED <<delivered, worker>>
        /\ \A q \in Pipes : pipe'[q].lastID \in {0, pipe[q].lastID}
    BY <1>0, <1>9 DEF ScanNewPipe, NewPipe, PipeAt, PipeTable
  <2>3. RecordInv'
    BY <2>2, RecordKept DEF DeliveryInv, Recording
  <2> QED BY <2>1, <2>3 DEF DeliveryInv
<1>10. CASE ScanEnqueue
  <2>1. scanAt \in Pipes /\ EnqueueOrRelease(scanAt)
    BY <1>10 DEF ScanEnqueue, PipeMapInv, PipesHaveCampaigns
  <2>2. SamePipes(pipe')
    BY <2>1, EnqueueType
  <2>3. \A q \in Pipes : pipe'[q].lastID = pipe[q].lastID
    BY <1>0, <2>1, LastIDKept DEF EnqueueOrRelease
  <2> QED BY <1>10, <2>2, <2>3, QuietDelivery DEF ScanEnqueue, SamePipes
<1>11. CASE ScanDone
  BY <1>11, QuietDelivery DEF ScanDone
<1> QED BY <1>1, <1>2, <1>3, <1>4, <1>5, <1>6, <1>7, <1>8, <1>9, <1>10, <1>11 DEF Scan

\* Every step of Run keeps the invariant.
LEMMA RunDelivery ==
  ASSUME TypeOK, PipeMapInv, CountInv, DeliveryInv, Run
  PROVE  DeliveryInv'
<1> USE DEF ByRun
<1>0. pipe \in PipeTable
  BY DEF TypeOK
<1>1. \A q : Recording(q)' <=> (worker'[q].pc \in {"load", "store", "sent"})
  BY DEF Recording
<1>2. ASSUME NEW p \in Pipes, RunFetch(p) PROVE DeliveryInv'
  <2>1. UniqueInv' /\ LedgerInv'
    BY <1>2, FetchStep DEF DeliveryInv
  <2>2. RecordInv'
    BY <1>2, RecordKept DEF RunFetch, DeliveryInv, Recording, histVars
  <2> QED BY <2>1, <2>2 DEF DeliveryInv
<1>3. ASSUME NEW p \in Pipes, RunExhausted(p) \/ RunError(p) PROVE DeliveryInv'
  <2>1. /\ pipe' = Released(pipe, p) \/ pipe' = StoppedAndReleased(p)
        /\ UNCHANGED <<row, campMsgQ, runPipe, batch, worker, histVars>>
    BY <1>3 DEF RunExhausted, RunError, RunReceive, runVars
  <2>2. SamePipes(pipe') /\ \A q \in Pipes : pipe'[q].lastID = pipe[q].lastID
    BY <1>0, <2>1, ReleasedType, LastIDKept
  <2> QED BY <2>1, <2>2, QuietDelivery DEF SamePipes, histVars
<1>4. ASSUME NEW s \in Subs, RunPush(s) PROVE DeliveryInv'
  <2>1. UniqueInv' /\ \A q \in Pipes : Pending(q)' = Pending(q)
    BY <1>4, MessagePushed DEF DeliveryInv
  <2>2. \A q \in Pipes : /\ pipe'[q].camp = pipe[q].camp /\ pipe'[q].lastID = pipe[q].lastID
                         /\ pipe'[q].phase = pipe[q].phase
    BY <1>0, <1>4 DEF RunPush, PipeTable, PipeValue
  <2>3. LedgerInv'
    BY <1>4, <2>1, <2>2, CalmStep DEF RunPush, histVars, DeliveryInv
  <2>4. RecordInv'
    BY <1>4, <2>2, RecordKept DEF RunPush, histVars, DeliveryInv, Recording
  <2> QED BY <2>1, <2>3, <2>4 DEF DeliveryInv
<1>5. ASSUME NEW s \in Subs, RunRenderError(s) PROVE DeliveryInv'
  <2>1. /\ UniqueInv'
        /\ \A q \in Pipes : /\ Pending(q)' \subseteq Pending(q)
                            /\ Pending(q) \subseteq Pending(q)' \cup Unrenderable
    BY <1>5, MessageSkipped DEF DeliveryInv
  <2>2. LedgerInv'
    BY <1>5, <2>1, CalmStep DEF RunRenderError, histVars, DeliveryInv
  <2>3. RecordInv'
    BY <1>5, RecordKept DEF RunRenderError, histVars, DeliveryInv, Recording
  <2> QED BY <2>1, <2>2, <2>3 DEF DeliveryInv
<1>6. CASE RunRequeue
  <2>1. runPipe \in Pipes /\ EnqueueOrRelease(runPipe) /\ batch' = batch /\ runPipe' = None
        /\ UNCHANGED <<row, campMsgQ, worker, histVars>> /\ batch = {}
    BY <1>6 DEF RunRequeue, TypeOK
  <2>2. SamePipes(pipe')
    BY <2>1, EnqueueType
  <2>3. \A q \in Pipes : pipe'[q].lastID = pipe[q].lastID
    BY <1>0, <2>1, LastIDKept DEF EnqueueOrRelease
  <2>4. \A q \in Pipes : Holders(q)' = Holders(q) /\ Queued(q)' = Queued(q) /\ q # None
    BY <2>1, ManagerAssumption DEF Holders, Queued
  <2>5. UniqueInv'
    BY <2>1, <2>4, FewerPlaces DEF DeliveryInv
  <2>6. \A q \in Pipes : Pending(q)' = Pending(q)
    BY <2>1, <2>4 DEF Pending
  <2>7. LedgerInv'
    BY <2>1, <2>2, <2>6, CalmStep DEF SamePipes, histVars, DeliveryInv
  <2>8. RecordInv'
    BY <2>1, <2>3, RecordKept DEF histVars, DeliveryInv, Recording
  <2> QED BY <2>5, <2>7, <2>8 DEF DeliveryInv
<1> QED BY <1>2, <1>3, <1>4, <1>5, <1>6 DEF Run

\* Every step of a worker keeps the invariant.
LEMMA WorkerDelivery ==
  ASSUME TypeOK, PipeMapInv, CountInv, DeliveryInv, NEW w \in Workers, Worker(w)
  PROVE  DeliveryInv'
<1> USE DEF ByWorker, NoOutcome, runVars
<1>0. pipe \in PipeTable
  BY DEF TypeOK
<1>1. RecordInv'
  BY WorkerRecord DEF DeliveryInv
<1>2. CASE WorkerTake(w)
  <2>1. UniqueInv' /\ \A q \in Pipes : Pending(q)' = Pending(q)
    BY <1>2, MessageTaken DEF DeliveryInv
  <2>2. LedgerInv'
    BY <1>2, <2>1, CalmStep DEF WorkerTake, DeliveryInv
  <2> QED BY <1>1, <2>1, <2>2 DEF DeliveryInv
<1>3. CASE WorkerDrop(w)
  <2>1. PICK p \in Pipes, s \in Subs : worker[w].pipe = p /\ worker[w].sub = s
    BY <1>3, WorkerType DEF WorkerDrop, WorkerAt
  <2>2. /\ worker[w].pc = "check" /\ worker'[w].pc \notin {"check", "push"}
        /\ \A v \in Workers : v # w => worker'[v] = worker[v]
        /\ pipe' = Released(pipe, p)
        /\ lost' = [lost EXCEPT ![pipe[p].camp] = @ \cup {s}]
        /\ UNCHANGED <<row, campMsgQ, runPipe, batch, delivered, failed, rewound>>
    BY <1>3, <2>1, WorkerMoves DEF WorkerDrop, WorkerAt
  <2>3. /\ UniqueInv' /\ s \in Pending(p)
        /\ \A q \in Pipes : /\ Pending(q)' \subseteq Pending(q)
                            /\ q # p => Pending(q)' = Pending(q)
                            /\ Pending(q) \subseteq Pending(q)' \cup {s}
    BY <2>1, <2>2, MessageReleased DEF DeliveryInv
  <2>4. pipe[p].camp \in Campaigns
    BY <2>3, PendingIsLive DEF PipeMapInv, PipesHaveCampaigns
  <2>5. s \in lost'[pipe[p].camp] /\ \A c \in Campaigns : lost[c] \subseteq lost'[c]
    BY <2>2, <2>4 DEF TypeOK
  <2>6. SamePipes(pipe')
    BY <1>0, <2>2, ReleasedType
  <2>7. \A q \in Pipes : Pending(q) \subseteq Pending(q)' \cup Unrenderable \cup lost'[pipe[q].camp]
    BY <2>3, <2>5
  <2>8. LedgerInv'
    BY <2>2, <2>3, <2>5, <2>6, <2>7, CalmStep DEF SamePipes, DeliveryInv
  <2> QED BY <1>1, <2>3, <2>8 DEF DeliveryInv
<1>4. ASSUME NEW ok \in BOOLEAN, WorkerPush(w, ok) PROVE DeliveryInv'
  BY <1>1, <1>4, AttemptStep DEF DeliveryInv
<1>5. ASSUME UNCHANGED <<row, campMsgQ, runPipe, batch, delivered, failed, lost, rewound>>,
             SamePipes(pipe'),
             worker'[w].pc \in {"check", "push"} <=> worker[w].pc \in {"check", "push"},
             worker'[w].pc \in {"check", "push"} => worker'[w].pipe = worker[w].pipe
                                                    /\ worker'[w].sub = worker[w].sub,
             \A v \in Workers : v # w => worker'[v] = worker[v]
      PROVE  DeliveryInv'
  <2>1. \A q \in Pipes : /\ Holders(q)' = Holders(q) /\ Queued(q)' = Queued(q)
                         /\ \A v \in Holders(q) : worker'[v].sub = worker[v].sub
    BY <1>5 DEF Holders, Queued
  <2>2. UniqueInv'
    BY <1>5, <2>1, FewerPlaces DEF DeliveryInv
  <2>3. ASSUME NEW q \in Pipes PROVE Pending(q)' = Pending(q)
    <3>1. {worker'[v].sub : v \in Holders(q)'} = {worker[v].sub : v \in Holders(q)}
      BY <2>1
    <3> QED BY <1>5, <2>1, <3>1 DEF Pending
  <2>4. LedgerInv'
    BY <1>5, <2>3, CalmStep DEF SamePipes, DeliveryInv
  <2> QED BY <1>1, <2>2, <2>4 DEF DeliveryInv
<1>6. SamePipes(pipe)
  BY DEF SamePipes
<1>7. CASE WorkerAccept(w)
  <2>1. worker'[w].pipe = worker[w].pipe /\ worker'[w].sub = worker[w].sub
    BY <1>7 DEF WorkerAccept, WorkerAt, WorkerTo, TypeOK, WorkerState
  <2> QED BY <1>5, <1>6, <1>7, <2>1, WorkerMoves DEF WorkerAccept, WorkerAt
<1>8. CASE WorkerOnError(w)
  <2>1. SamePipes(pipe')
    BY <1>0, <1>8, SMTT(30) DEF WorkerOnError, SamePipes, PipeTable, PipeValue
  <2> QED BY <1>5, <1>8, <2>1, WorkerMoves DEF WorkerOnError, WorkerAt
<1>9. CASE WorkerLoad(w)
  BY <1>5, <1>6, <1>9, WorkerMoves DEF WorkerLoad, WorkerAt
<1>10. CASE WorkerStore(w)
  <2>1. SamePipes(pipe')
    BY <1>0, <1>10 DEF WorkerStore, SamePipes, PipeTable, PipeValue
  <2> QED BY <1>5, <1>10, <2>1, WorkerMoves DEF WorkerStore, WorkerAt
<1>11. CASE WorkerSent(w)
  <2>1. SamePipes(pipe')
    BY <1>0, <1>11 DEF WorkerSent, SamePipes, PipeTable, PipeValue
  <2> QED BY <1>5, <1>11, <2>1, WorkerMoves DEF WorkerSent, WorkerAt
<1> QED BY <1>2, <1>3, <1>4, <1>7, <1>8, <1>9, <1>10, <1>11 DEF Worker

-----------------------------------------------------------------------------
(* cleanup, requests and the environment *)

\* update-campaign-counts sets the checkpoint back to the highest id recorded, which
\* was sent and so lies at or below it: what it sets back over is noted, and of the
\* campaign's pipes none is live any more.
LEMMA CheckpointSetBack ==
  ASSUME TypeOK, PipeMapInv, CountInv, DeliveryInv, NEW p \in Pipes, CleanupCounts(p)
  PROVE  DeliveryInv'
<1>1. /\ pipe[p].phase = "counts" /\ pipe' = [pipe EXCEPT ![p].phase = "errors"]
      /\ UNCHANGED <<campMsgQ, runPipe, batch, worker, delivered, failed, lost>>
  BY DEF CleanupCounts, CleanupStep, ByCleanup, runVars
<1>2. PICK c \in Campaigns : c = pipe[p].camp
  BY <1>1 DEF PipeMapInv, PipesHaveCampaigns
<1>3. \A q \in Pipes : /\ pipe'[q].camp = pipe[q].camp /\ pipe'[q].lastID = pipe[q].lastID
                       /\ pipe'[q].phase = IF q = p THEN "errors" ELSE pipe[q].phase
  BY <1>1 DEF TypeOK, PipeTable, PipeValue
<1>4. row \in [Campaigns -> Row]
  BY DEF TypeOK, CampaignTable
<1>5. CASE UNCHANGED <<row, rewound>>
  BY <1>1, <1>3, <1>5, QuietDelivery
<1> DEFINE last == IF pipe[p].lastID > 0 THEN pipe[p].lastID ELSE row[c].lastSub
<1>6. CASE /\ row' = [row EXCEPT ![c].sent = @ + pipe[p].sent, ![c].lastSub = last]
           /\ rewound' = [rewound EXCEPT ![c] =
                            @ \cup {s \in Subs : last < s /\ s <= row[c].lastSub}]
  <2>1. /\ row'[c].lastSub = last
        /\ \A d \in Campaigns : d # c => row'[d].lastSub = row[d].lastSub
    BY <1>4, <1>6 DEF Row
  <2>2. /\ \A d \in Campaigns : rewound[d] \subseteq rewound'[d]
        /\ \A s \in Subs : last < s /\ s <= row[c].lastSub => s \in rewound'[c]
    BY <1>6 DEF TypeOK
  <2>3. row[c].lastSub \in Nat /\ Subs \subseteq Nat
    BY LedgerType
  <2>4. last \in Nat /\ last <= row[c].lastSub
    <3>1. CASE pipe[p].lastID > 0
      <4>1. pipe[p].lastID \in Attempted(p)
        BY <3>1 DEF DeliveryInv, RecordInv, Attempted
      <4>2. pipe[p].lastID <= row[c].lastSub
        BY <1>1, <1>2, <4>1 DEF DeliveryInv, LedgerInv, AttemptedBelow
      <4>3. pipe[p].lastID \in Nat
        BY <2>3, <4>1, LedgerType
      <4> QED BY <3>1, <4>2, <4>3
    <3>2. CASE ~(pipe[p].lastID > 0)
      BY <2>3, <3>2
    <3> QED BY <3>1, <3>2
  <2> HIDE DEF last
  <2>5. UniqueInv' /\ \A q \in Pipes : Pending(q)' = Pending(q) /\ Attempted(q)' = Attempted(q)
    BY <1>1, SamePlaces DEF DeliveryInv, Attempted
  <2>6. \A d : PipesOf(d)' = PipesOf(d) /\ PipesOf(d) \subseteq Pipes
    BY <1>3 DEF PipesOf
  <2>7. FreshIsBlank' /\ PendingNotAttempted'
    BY <1>1, <1>3, <2>5 DEF DeliveryInv, LedgerInv, FreshIsBlank, PendingNotAttempted
  <2>8. \A q \in Pipes : q # p /\ pipe[q].phase \in {"live", "counts"} =>
                           pipe[q].camp \in Campaigns /\ pipe[q].camp # c
    BY <1>1, <1>2, LiveIsAlone
  <2>9. PendingBelow'
    BY <1>3, <2>1, <2>5, <2>8 DEF DeliveryInv, LedgerInv, PendingBelow
  <2>10. AttemptedBelow'
    <3> SUFFICES ASSUME NEW q \in Pipes, NEW s \in Attempted(q)
                 PROVE  \/ s <= row'[pipe[q].camp].lastSub
                        \/ pipe'[q].phase \notin {"live", "counts"} /\ s \in rewound'[pipe[q].camp]
      BY <1>3, <2>5 DEF AttemptedBelow
    <3>1. pipe[q].camp \in Campaigns
      BY DEF DeliveryInv, LedgerInv, FreshIsBlank, Attempted, PipeMapInv, PipesHaveCampaigns
    <3>2. \/ s <= row[pipe[q].camp].lastSub
          \/ pipe[q].phase \notin {"live", "counts"} /\ s \in rewound[pipe[q].camp]
      BY DEF DeliveryInv, LedgerInv, AttemptedBelow
    <3>3. CASE pipe[q].camp # c
      BY <1>3, <2>1, <2>2, <3>1, <3>2, <3>3
    <3>4. CASE pipe[q].camp = c
      <4>1. pipe'[q].phase \notin {"live", "counts"}
        BY <1>3, <2>8, <3>4
      <4>2. s \in Subs /\ s \in Nat
        BY <2>3, LedgerType
      <4>3. s <= last \/ s \in rewound'[c]
        BY <2>2, <2>3, <2>4, <3>2, <3>4, <4>2
      <4> QED BY <2>1, <3>4, <4>1, <4>3
    <3> QED BY <3>3, <3>4
  <2>11. RepeatsRewound'
    <3> SUFFICES ASSUME NEW d \in Campaigns, NEW q \in PipesOf(d), NEW r \in PipesOf(d), q # r
                 PROVE  (delivered[q] \cup Pending(q)') \cap delivered[r] \subseteq rewound'[d]
      BY <1>1, <2>6 DEF RepeatsRewound
    <3>1. (delivered[q] \cup Pending(q)) \cap delivered[r] \subseteq rewound[d]
      BY DEF DeliveryInv, LedgerInv, RepeatsRewound
    <3> QED BY <2>2, <2>5, <2>6, <3>1
  <2>12. CheckpointAccounts'
    <3> SUFFICES ASSUME NEW d \in Campaigns, NEW s \in Audience[d], s <= row'[d].lastSub
                 PROVE  s \in Accounted(d)' \cup UNION {Pending(q)' : q \in PipesOf(d)}
      BY <2>6 DEF CheckpointAccounts
    <3>1. s \in Nat
      BY <2>3, ManagerAssumption
    <3>2. s <= row[d].lastSub
      BY <2>1, <2>3, <2>4, <3>1
    <3>3. s \in Accounted(d) \cup UNION {Pending(q) : q \in PipesOf(d)}
      BY <3>2 DEF DeliveryInv, LedgerInv, CheckpointAccounts
    <3>4. Accounted(d)' = Accounted(d)
      BY <1>1, <2>5, <2>6 DEF Accounted
    <3>5. UNION {Pending(q) : q \in PipesOf(d)} = UNION {Pending(q)' : q \in PipesOf(d)}
      BY <2>5, <2>6
    <3> QED BY <3>3, <3>4, <3>5
  <2>13. RecordInv'
    BY <1>1, <1>3, RecordKept DEF DeliveryInv, Recording
  <2> QED BY <2>5, <2>7, <2>9, <2>10, <2>11, <2>12, <2>13 DEF DeliveryInv, LedgerInv
<1> QED BY <1>2, <1>5, <1>6 DEF CleanupCounts

\* Every other step of a cleanup moves its phase on and leaves the checkpoint.
LEMMA CleanupDelivery ==
  ASSUME TypeOK, PipeMapInv, CountInv, DeliveryInv, NEW p \in Pipes, Cleanup(p)
  PROVE  DeliveryInv'
<1>1. ASSUME NEW from \in {"live", "errors", "status", "finish", "delete"},
             NEW to \in {"counts", "errors", "status", "finish", "delete", "gone"},
             to = "counts" => from = "live",
             CleanupStep(p, from, to), ByCleanup, UNCHANGED histVars,
             row' = row \/ \E new : WriteStatus(pipe[p].camp, new)
      PROVE  DeliveryInv'
  <2>1. \A q \in Pipes : /\ pipe'[q].camp = pipe[q].camp /\ pipe'[q].lastID = pipe[q].lastID
                         /\ pipe'[q].phase = IF q = p THEN to ELSE pipe[q].phase
    BY <1>1 DEF CleanupStep, TypeOK, PipeTable, PipeValue
  <2>2. row \in [Campaigns -> Row]
    BY DEF TypeOK, CampaignTable
  <2>3. \A c \in Campaigns : row'[c].lastSub = row[c].lastSub
    <3>1. row' = row \/ \E c, new : row' = [row EXCEPT ![c].status = new]
      BY <1>1 DEF WriteStatus
    <3>2. \A d \in Campaigns : row[d] \in Row
      BY <2>2
    <3> QED BY <2>2, <3>1, <3>2 DEF Row
  <2>4. pipe[p].phase = from
    BY <1>1 DEF CleanupStep
  <2> QED BY <1>1, <2>1, <2>3, <2>4, QuietDelivery DEF ByCleanup, runVars, histVars
<1>2. CASE CleanupWake(p)
  BY <1>1, <1>2 DEF CleanupWake
<1>3. CASE CleanupPaused(p)
  BY <1>1, <1>3 DEF CleanupPaused, TryStatus
<1>4. CASE CleanupNoErrors(p)
  BY <1>1, <1>4 DEF CleanupNoErrors
<1>5. CASE CleanupExhausted(p)
  BY <1>1, <1>5 DEF CleanupExhausted
<1>6. CASE CleanupNothingMore(p)
  BY <1>1, <1>6 DEF CleanupNothingMore
<1>7. CASE CleanupFinish(p)
  BY <1>1, <1>7 DEF CleanupFinish, TryStatus
<1>8. CASE CleanupDelete(p)
  BY <1>1, <1>8 DEF CleanupDelete
<1> QED BY <1>2, <1>3, <1>4, <1>5, <1>6, <1>7, <1>8, CheckpointSetBack DEF Cleanup

\* A request writes a status, a send_at, a lock or a stop flag.
LEMMA RequestDelivery ==
  ASSUME TypeOK, PipeMapInv, DeliveryInv, Request
  PROVE  DeliveryInv'
<1>0. row \in [Campaigns -> Row] /\ pipe \in [Pipes -> PipeValue]
  BY DEF TypeOK, CampaignTable, PipeTable
<1>1. ByRequest
  BY DEF Request, RequestStep, RequestCheck, RequestWrite, RequestNoRow, RequestStop,
         RequestCommit, RequestDelete
<1>2. pipe' = pipe \/ \E p : pipe' = [pipe EXCEPT ![p].stopped = TRUE]
  BY DEF Request, RequestStep, RequestCheck, RequestWrite, RequestNoRow, RequestStop,
         RequestCommit, RequestDelete
<1>3. \A q \in Pipes : /\ pipe'[q].camp = pipe[q].camp /\ pipe'[q].lastID = pipe[q].lastID
                       /\ pipe'[q].phase = pipe[q].phase
  BY <1>0, <1>2 DEF PipeValue
<1>4. ASSUME NEW c \in Campaigns, NEW target
      PROVE  /\ Updated(c, target).lastSub = row[c].lastSub
             /\ [Updated(c, target) EXCEPT !.lock = None].lastSub = row[c].lastSub
  <2>1. row[c] \in Row
    BY <1>0
  <2>2. \/ \E a, b : Updated(c, target) = [row[c] EXCEPT !.sendAt = a, !.status = b]
        \/ \E b : Updated(c, target) = [row[c] EXCEPT !.status = b]
    BY DEF Updated
  <2> QED BY <2>1, <2>2 DEF Row
<1>5. ASSUME NEW d \in Campaigns, NEW r \in Requests, RequestStep(r)
      PROVE  row'[d].lastSub = row[d].lastSub
  <2>1. CASE RequestWrite(r)
    BY <1>0, <1>4, <2>1 DEF RequestWrite, Row
  <2>2. CASE RequestNoRow(r) \/ RequestStop(r)
    BY <2>2 DEF RequestNoRow, RequestStop
  <2>3. CASE RequestCommit(r)
    <3>1. PICK c : c = request[r].camp
      OBVIOUS
    <3>2. \/ row' = [row EXCEPT ![c] = [Updated(c, request[r].target) EXCEPT !.lock = None]]
          \/ row' = [row EXCEPT ![c].lock = None]
      BY <2>3, <3>1 DEF RequestCommit
    <3>3. row[d] \in Row
      BY <1>0
    <3>4. CASE row' = [row EXCEPT ![c].lock = None]
      BY <1>0, <3>3, <3>4 DEF Row
    <3>5. CASE row' = [row EXCEPT ![c] = [Updated(c, request[r].target) EXCEPT !.lock = None]]
      <4>1. CASE d = c
        <5>1. row'[d] = [Updated(c, request[r].target) EXCEPT !.lock = None]
          BY <1>0, <3>5, <4>1
        <5> QED BY <1>4, <4>1, <5>1
      <4>2. CASE d # c
        BY <1>0, <3>5, <4>2
      <4> QED BY <4>1, <4>2
    <3> QED BY <3>2, <3>4, <3>5
  <2> QED BY <1>5, <2>1, <2>2, <2>3 DEF RequestStep
<1>6. ASSUME NEW d \in Campaigns, NEW c \in Campaigns, RequestDelete(c)
      PROVE  row'[d].lastSub = row[d].lastSub
  BY <1>0, <1>6 DEF RequestDelete, Row
<1>7. \A d \in Campaigns : row'[d].lastSub = row[d].lastSub
  BY <1>5, <1>6 DEF Request, RequestCheck
<1> QED BY <1>1, <1>3, <1>7, QuietDelivery DEF ByRequest, chanVars, runVars, histVars

\* A crash loses what is pending, and says so.
LEMMA CrashDelivery ==
  ASSUME TypeOK, PipeMapInv, CountInv, DeliveryInv, Crash
  PROVE  DeliveryInv'
<1>1. /\ campMsgQ' = <<>> /\ runPipe' = None /\ batch' = {}
      /\ worker' = [w \in Workers |-> Resting]
      /\ UNCHANGED <<delivered, failed, rewound>>
  BY DEF Crash
<1>2. \A q \in Pipes : Queued(q)' = {} /\ Holders(q)' = {} /\ q # None
  BY <1>1, ManagerAssumption DEF Queued, Holders, Resting
<1>3. UniqueInv'
  BY <1>1, <1>2 DEF UniqueInv, OnceQueued, OnceHeld, HeldNotQueued, BatchIsNew
<1>4. \A q \in Pipes : Pending(q)' = {}
  BY <1>1, <1>2 DEF Pending
<1>5. \A q \in Pipes : /\ pipe'[q].camp = pipe[q].camp /\ pipe'[q].lastID = pipe[q].lastID
                       /\ pipe'[q].phase \in {pipe[q].phase, "gone"}
  BY DEF Crash, TypeOK, PipeTable, PipeValue
<1>6. \A c \in Campaigns : row'[c].lastSub = row[c].lastSub /\ lost[c] \subseteq lost'[c]
  BY DEF Crash, TypeOK, CampaignTable, Row
<1>7. ASSUME NEW q \in Pipes
      PROVE  Pending(q) \subseteq Pending(q)' \cup Unrenderable \cup lost'[pipe[q].camp]
  <2>1. CASE Pending(q) = {}
    BY <2>1
  <2>2. CASE pipe[q].camp \in Campaigns
    BY <2>2 DEF Crash
  <2>3. CASE pipe[q].camp \notin Campaigns /\ Pending(q) # {}
    BY <2>3, PendingIsLive DEF PipeMapInv, PipesHaveCampaigns
  <2> QED BY <2>1, <2>2, <2>3
<1>8. LedgerInv'
  BY <1>1, <1>4, <1>5, <1>6, <1>7, CalmStep DEF DeliveryInv
<1>9. RecordInv'
  BY <1>1, <1>5, RecordKept DEF DeliveryInv, Recording, Resting
<1> QED BY <1>3, <1>8, <1>9 DEF DeliveryInv

-----------------------------------------------------------------------------
(* The theorems *)

\* Initially nothing is pending, attempted or recorded.
LEMMA InitDelivery == Init => DeliveryInv
<1> SUFFICES ASSUME Init PROVE DeliveryInv
  OBVIOUS
<1>1. /\ campMsgQ = <<>> /\ runPipe = None /\ worker = [w \in Workers |-> Resting]
      /\ \A p \in Pipes : /\ delivered[p] = {} /\ failed[p] = {} /\ p # None
                          /\ pipe[p].phase = "unused" /\ pipe[p].lastID = 0
      /\ \A c \in Campaigns : row[c].lastSub = 0
  BY ManagerAssumption DEF Init, PipeAt
<1>2. \A q \in Pipes : Queued(q) = {} /\ Holders(q) = {} /\ Pending(q) = {} /\ Attempted(q) = {}
  BY <1>1 DEF Queued, Holders, Resting, Pending, Attempted
<1>3. UniqueInv
  BY <1>1, <1>2 DEF UniqueInv, OnceQueued, OnceHeld, HeldNotQueued, BatchIsNew
<1>4. CheckpointAccounts
  <2>1. \A c \in Campaigns : \A s \in Audience[c] : s \in Nat \ {0}
    BY ManagerAssumption
  <2>2. \A s \in Nat \ {0} : ~(s <= 0)
    OBVIOUS
  <2> QED BY <1>1, <2>1, <2>2 DEF CheckpointAccounts
<1>5. FreshIsBlank /\ PendingNotAttempted /\ PendingBelow /\ AttemptedBelow
  BY <1>1, <1>2 DEF FreshIsBlank, PendingNotAttempted, PendingBelow, AttemptedBelow
<1>6. RepeatsRewound
  BY <1>1 DEF RepeatsRewound, PipesOf
<1>7. RecordInv
  BY <1>1 DEF RecordInv, Recording, Resting
<1> QED BY <1>3, <1>4, <1>5, <1>6, <1>7 DEF DeliveryInv, LedgerInv

\* Every step keeps the invariant.
LEMMA NextDelivery ==
  TypeOK /\ PipeMapInv /\ CountInv /\ DeliveryInv /\ [Next]_vars => DeliveryInv'
<1> SUFFICES ASSUME TypeOK, PipeMapInv, CountInv, DeliveryInv, [Next]_vars PROVE DeliveryInv'
  OBVIOUS
<1>1. CASE Scan
  BY <1>1, ScanDelivery
<1>2. CASE Run
  BY <1>2, RunDelivery
<1>3. ASSUME NEW w \in Workers, Worker(w) PROVE DeliveryInv'
  BY <1>3, WorkerDelivery
<1>4. ASSUME NEW p \in Pipes, Cleanup(p) PROVE DeliveryInv'
  BY <1>4, CleanupDelivery
<1>5. CASE Request
  BY <1>5, RequestDelivery
<1>6. CASE Environment
  <2>1. ASSUME NEW c \in Campaigns, TimePasses(c) PROVE DeliveryInv'
    <3>1. \A d \in Campaigns : row'[d].lastSub = row[d].lastSub
      BY <2>1 DEF TimePasses, TypeOK, CampaignTable, Row
    <3> QED BY <2>1, <3>1, QuietDelivery DEF TimePasses, chanVars, runVars, histVars
  <2> QED BY <1>6, <2>1, CrashDelivery DEF Environment
<1>7. CASE UNCHANGED vars
  BY <1>7, QuietDelivery DEF vars, chanVars, runVars, histVars
<1> QED BY <1>1, <1>2, <1>3, <1>4, <1>5, <1>6, <1>7 DEF Next

\* The invariant holds of every behaviour, for any number of campaigns, pipes,
\* workers, batches, errors, requests and crashes.
THEOREM DeliveryCorrect == Spec => [](TypeOK /\ PipeMapInv /\ CountInv /\ DeliveryInv)
<1>1. Spec => [](TypeOK /\ PipeMapInv /\ CountInv)
  BY CountCorrect
<1> QED BY <1>1, InitDelivery, NextDelivery, PTL DEF Spec

\* A pipe hands a subscriber's message to the messenger at most once: what is
\* fetched is new, and it is in one place until a worker has attempted it.
THEOREM AttemptedOnce == Spec => []NoSecondAttempt
<1>1. DeliveryInv => NoSecondAttempt
  BY DEF DeliveryInv, UniqueInv, OnceQueued, OnceHeld, HeldNotQueued, BatchIsNew, LedgerInv,
         PendingNotAttempted, NoSecondAttempt
<1> QED BY <1>1, DeliveryCorrect, PTL

\* Only a cleanup makes a campaign repeat a message: crashes, pauses, resumes and
\* errors alone never do, because the checkpoint moves when a batch is fetched.
THEOREM RepeatsAreRewound == Spec => []OnlyCleanupRepeats
<1>1. DeliveryInv => OnlyCleanupRepeats
  BY DEF DeliveryInv, LedgerInv, RepeatsRewound, OnlyCleanupRepeats
<1> QED BY <1>1, DeliveryCorrect, PTL

\* The checkpoint passes nobody: up to it every subscriber of the audience is
\* pending, has been attempted, does not render, or was lost to a stop or a crash.
THEOREM CheckpointCorrect == Spec => []CheckpointAccounts
<1>1. DeliveryInv => CheckpointAccounts
  BY DEF DeliveryInv, LedgerInv
<1> QED BY <1>1, DeliveryCorrect, PTL

\* A batch loop that comes to the end of a running campaign without an error has
\* passed over nobody up to the campaign's last subscriber: its last batch was empty,
\* so whoever is left lies at or below the checkpoint.
THEOREM ExhaustionCorrect == Spec => ExhaustedAccountsForAll
<1> DEFINE Passed == \A p \in Pipes : Exhausts(p) /\ row[pipe[p].camp].status = "running" =>
                       \A s \in Audience[pipe[p].camp] : s <= row[pipe[p].camp].maxSub =>
                         s \in Accounted(pipe[p].camp) \cup Pending(p)
<1>1. ASSUME TypeOK, PipeMapInv, CountInv, DeliveryInv, [Next]_vars PROVE Passed
  <2> SUFFICES ASSUME NEW p \in Pipes, Exhausts(p), NEW c, c = pipe[p].camp,
                      row[c].status = "running", NEW s \in Audience[c], s <= row[c].maxSub
               PROVE  s \in Accounted(c) \cup Pending(p)
    OBVIOUS
  <2>1. /\ nextPipes # <<>> /\ p = Head(nextPipes) /\ nextPipes' = Tail(nextPipes)
        /\ nextPipes \in Seq(Pipes) /\ runPipe' = None
        /\ pipe'[p].phase = "live" /\ ~pipe'[p].stopped
    BY <1>1 DEF Exhausts, TypeOK
  <2>2. pipe[p].phase = "live"
    <3>1. 1 \in 1..Len(nextPipes) /\ nextPipes[1] = p
      BY <2>1
    <3>2. Producing(p) # {}
      BY <3>1 DEF Producing
    <3> QED BY <1>1, <3>2, HeldIsLive
  <2>3. c \in Campaigns
    BY <1>1, <2>2 DEF PipeMapInv, PipesHaveCampaigns
  <2>4. Remaining(c) = {}
    <3>1. /\ nextPipes' # nextPipes /\ \A q : nextPipes' # Append(nextPipes, q)
          /\ p \in Pipes /\ p # None
      <4>1. Len(nextPipes') = Len(nextPipes) - 1 /\ Len(nextPipes) \in Nat
        BY <2>1
      <4>2. \A q : Len(Append(nextPipes, q)) = Len(nextPipes) + 1
        BY <2>1
      <4>3. \A q : nextPipes' # Append(nextPipes, q)
        <5> SUFFICES ASSUME NEW q, nextPipes' = Append(nextPipes, q) PROVE FALSE
          OBVIOUS
        <5>1. Len(nextPipes') = Len(nextPipes) + 1
          BY <4>2
        <5> QED BY <4>1, <5>1
      <4> QED BY <4>1, <4>3, ManagerAssumption
    <3>2. ~Crash
      <4> SUFFICES ASSUME Crash PROVE pipe'[p].phase = "gone" \/ pipe[p].phase # "live"
        BY <2>1, <2>2
      <4>1. pipe'[p] = [pipe[p] EXCEPT !.phase = "gone"]
        BY <2>2 DEF Crash, Alive
      <4>2. pipe[p] \in PipeValue
        BY <1>1 DEF TypeOK, PipeTable
      <4> QED BY <4>1, <4>2 DEF PipeValue
    <3>3. Run
      BY <1>1, <3>1, <3>2
      DEF Next, Scan, ScanTick, ScanLoad, ScanReset, ScanSelect, ScanUpdate, ScanError,
          ScanUnknownMessenger, ScanPipeError, ScanNewPipe, ScanEnqueue, ScanDone,
          EnqueueOrRelease, Worker, ByWorker, WorkerTake, WorkerDrop, WorkerAccept, WorkerPush,
          WorkerOnError, WorkerLoad, WorkerStore, WorkerSent, Cleanup, ByCleanup, CleanupWake,
          CleanupCounts, CleanupPaused, CleanupNoErrors, CleanupExhausted, CleanupNothingMore,
          CleanupFinish, CleanupDelete, Request, RequestStep, ByRequest, RequestCheck,
          RequestWrite, RequestNoRow, RequestStop, RequestCommit, RequestDelete, Environment,
          TimePasses, chanVars, vars
    <3>4. PICK q \in Pipes : RunFetch(q) \/ RunExhausted(q) \/ RunError(q)
      BY <3>1, <3>3 DEF Run, RunPush, RunRenderError, RunRequeue, EnqueueOrRelease, chanVars
    <3>5. q = p
      BY <2>1, <3>4 DEF RunFetch, RunExhausted, RunError, RunReceive
    <3>6. ~RunFetch(p)
      BY <2>1, <3>1 DEF RunFetch
    <3>7. ~RunError(p)
      <4> SUFFICES ASSUME RunError(p) PROVE pipe'[p].stopped
        BY <2>1
      <4>1. pipe'[p] = [Released(pipe, p)[p] EXCEPT !.stopped = TRUE]
        BY <1>1, ReleasedType DEF RunError, StoppedAndReleased, TypeOK, PipeTable
      <4>2. Released(pipe, p)[p] \in PipeValue
        BY <1>1, ReleasedType DEF TypeOK, PipeTable
      <4> QED BY <4>1, <4>2 DEF PipeValue
    <3> QED BY <3>4, <3>5, <3>6, <3>7 DEF RunExhausted
  <2>5. s <= row[c].lastSub
    <3>1. row[c].lastSub \in Nat /\ s \in Nat
      BY <1>1, <2>3, LedgerType, ManagerAssumption
    <3>2. ~(row[c].lastSub < s)
      BY <2>4 DEF Remaining
    <3> QED BY <3>1, <3>2
  <2>6. s \in Accounted(c) \cup UNION {Pending(q) : q \in PipesOf(c)}
    BY <1>1, <2>3, <2>5 DEF DeliveryInv, LedgerInv, CheckpointAccounts
  <2>7. ASSUME NEW q \in PipesOf(c), Pending(q) # {} PROVE q = p
    <3>1. q \in Pipes /\ pipe[q].camp = c
      BY DEF PipesOf
    <3>2. pipe[q].phase = "live"
      BY <1>1, <2>7, <3>1, PendingIsLive
    <3> QED BY <1>1, <2>2, <3>1, <3>2, LiveIsAlone
  <2> QED BY <2>6, <2>7
<1>2. TypeOK /\ PipeMapInv /\ CountInv /\ DeliveryInv /\ [Next]_vars => [Passed]_vars
  BY <1>1
<1>3. Spec => [][Passed]_vars
  BY <1>2, DeliveryCorrect, PTL DEF Spec
<1> QED BY <1>3 DEF ExhaustedAccountsForAll

-----------------------------------------------------------------------------
(* Stopping *)

\* Workers that have looked at the stop flag of a pipe and are about to send.
Accepted(p) == {w \in Workers : worker[w].pipe = p /\ worker[w].pc = "push"}
\* Once a pipe is stopped nobody accepts a message of it any more, so what it has
\* sent since and what is still to be sent together are at most what the workers
\* held when it was stopped; until then it has overrun nothing.
StopInv ==
  \A p \in Pipes :
    /\ pipe[p].stopped => overrun[p] + Cardinality(Accepted(p)) <= Cardinality(Workers)
    /\ ~pipe[p].stopped \/ pipe[p].phase = "unused" => overrun[p] = 0

\* The workers that are about to send are finitely many.
LEMMA AcceptedType ==
  \A q : /\ IsFiniteSet(Accepted(q)) /\ Cardinality(Accepted(q)) \in Nat
         /\ Cardinality(Accepted(q)) <= Cardinality(Workers) /\ Cardinality(Workers) \in Nat
<1> SUFFICES ASSUME NEW p
             PROVE  /\ IsFiniteSet(Accepted(p)) /\ Cardinality(Accepted(p)) \in Nat
                    /\ Cardinality(Accepted(p)) <= Cardinality(Workers)
                    /\ Cardinality(Workers) \in Nat
  OBVIOUS
<1>1. IsFiniteSet(Workers) /\ Accepted(p) \subseteq Workers
  BY ManagerAssumption DEF Accepted
<1>2. IsFiniteSet(Accepted(p)) /\ Cardinality(Accepted(p)) <= Cardinality(Workers)
  BY <1>1, FS_Subset
<1> QED BY <1>1, <1>2, FS_CardinalityType

\* Steps that send nothing, accept nothing of a stopped pipe and start none again.
LEMMA StopKept ==
  ASSUME TypeOK, StopInv, UNCHANGED overrun,
         \A p \in Pipes :
           \/ /\ pipe[p].stopped => pipe'[p].stopped /\ Accepted(p)' \subseteq Accepted(p)
              /\ pipe'[p].phase = "unused" => pipe[p].phase = "unused"
           \/ pipe[p].phase = "unused" /\ ~pipe'[p].stopped
  PROVE  StopInv'
<1> SUFFICES ASSUME NEW p \in Pipes
             PROVE  /\ pipe'[p].stopped =>
                         overrun[p] + Cardinality(Accepted(p)') <= Cardinality(Workers)
                    /\ ~pipe'[p].stopped \/ pipe'[p].phase = "unused" => overrun[p] = 0
  BY DEF StopInv
<1>1. \A q : /\ Cardinality(Accepted(q)') \in Nat
             /\ Cardinality(Accepted(q)') <= Cardinality(Workers)
  <2>1. (\A q : /\ IsFiniteSet(Accepted(q)) /\ Cardinality(Accepted(q)) \in Nat
                /\ Cardinality(Accepted(q)) <= Cardinality(Workers) /\ Cardinality(Workers) \in Nat)'
    BY AcceptedType, PTL
  <2> QED BY <2>1
<1>2. /\ overrun[p] \in Nat /\ Cardinality(Accepted(p)) \in Nat /\ Cardinality(Workers) \in Nat
      /\ IsFiniteSet(Accepted(p))
  BY AcceptedType DEF TypeOK
<1>3. CASE pipe[p].phase = "unused" /\ ~pipe'[p].stopped
  BY <1>3 DEF StopInv
<1>4. CASE /\ pipe[p].stopped => pipe'[p].stopped /\ Accepted(p)' \subseteq Accepted(p)
           /\ pipe'[p].phase = "unused" => pipe[p].phase = "unused"
  <2>1. CASE pipe[p].stopped
    <3>1. Cardinality(Accepted(p)') <= Cardinality(Accepted(p))
      BY <1>2, <1>4, <2>1, FS_Subset
    <3>2. overrun[p] + Cardinality(Accepted(p)) <= Cardinality(Workers)
      BY <2>1 DEF StopInv
    <3>3. overrun[p] + Cardinality(Accepted(p)') <= Cardinality(Workers)
      BY <1>1, <1>2, <3>1, <3>2
    <3>4. pipe[p].phase = "unused" => overrun[p] = 0
      BY DEF StopInv
    <3> QED BY <1>4, <2>1, <3>3, <3>4
  <2>2. CASE ~pipe[p].stopped
    <3>1. overrun[p] = 0
      BY <2>2 DEF StopInv
    <3>2. overrun[p] + Cardinality(Accepted(p)') <= Cardinality(Workers)
      BY <1>1, <1>2, <3>1
    <3> QED BY <3>1, <3>2
  <2> QED BY <2>1, <2>2
<1> QED BY <1>3, <1>4

\* Such a step that leaves the workers where they are.
LEMMA StopQuiet ==
  ASSUME TypeOK, StopInv, UNCHANGED <<overrun, worker>>,
         \A p \in Pipes :
           \/ /\ pipe[p].stopped => pipe'[p].stopped
              /\ pipe'[p].phase = "unused" => pipe[p].phase = "unused"
           \/ pipe[p].phase = "unused" /\ ~pipe'[p].stopped
  PROVE  StopInv'
<1>1. \A p : Accepted(p)' = Accepted(p)
  BY DEF Accepted
<1> QED BY <1>1, StopKept

\* Giving a count back leaves the stop flag, and with a stop sets it.
LEMMA StopFlag ==
  ASSUME pipe \in PipeTable, NEW p \in Pipes
  PROVE  \A q \in Pipes :
           /\ Released(pipe, p)[q].stopped = pipe[q].stopped
           /\ StoppedAndReleased(p)[q].stopped <=> pipe[q].stopped \/ q = p
           /\ Released(pipe, p)[q].phase = pipe[q].phase
           /\ StoppedAndReleased(p)[q].phase = pipe[q].phase
<1>1. ASSUME NEW q \in Pipes
      PROVE  /\ Released(pipe, p)[q].stopped = pipe[q].stopped
             /\ Released(pipe, p)[q].phase = pipe[q].phase
  BY DEF Released, PipeTable, PipeValue
<1>2. Released(pipe, p) \in PipeTable
  BY ReleasedType
<1>3. ASSUME NEW q \in Pipes
      PROVE  /\ StoppedAndReleased(p)[q].stopped <=> pipe[q].stopped \/ q = p
             /\ StoppedAndReleased(p)[q].phase = pipe[q].phase
  <2>1. CASE q = p
    <3>1. Released(pipe, p)[p] \in PipeValue
      BY <1>2 DEF PipeTable
    <3>2. StoppedAndReleased(p)[p] = [Released(pipe, p)[p] EXCEPT !.stopped = TRUE]
      BY <1>2 DEF StoppedAndReleased, PipeTable
    <3> QED BY <1>1, <2>1, <3>1, <3>2 DEF PipeValue
  <2>2. CASE q # p
    <3>1. StoppedAndReleased(p)[q] = Released(pipe, p)[q]
      BY <1>2, <2>2 DEF StoppedAndReleased, PipeTable
    <3> QED BY <1>1, <2>2, <3>1
  <2> QED BY <2>1, <2>2
<1> QED BY <1>1, <1>3

\* Every step of the scan, and a step of Run, keeps it.
LEMMA ScanRunStop ==
  ASSUME TypeOK, PipeMapInv, StopInv, Scan \/ Run
  PROVE  StopInv'
<1> USE DEF ByScan, ByRun, histVars
<1>0. pipe \in PipeTable
  BY DEF TypeOK
<1>1. UNCHANGED <<overrun, worker>>
  BY DEF Scan, ScanTick, ScanLoad, ScanReset, ScanSelect, ScanUpdate, ScanError,
         ScanUnknownMessenger, ScanPipeError, ScanNewPipe, ScanEnqueue, ScanDone,
         Run, RunFetch, RunExhausted, RunError, RunPush, RunRenderError, RunRequeue
<1>2. ASSUME NEW p \in Pipes,
             \/ pipe' = Released(pipe, p) \/ pipe' = StoppedAndReleased(p) \/ pipe' = pipe
      PROVE  StopInv'
  <2>1. \A q \in Pipes : /\ pipe[q].stopped => pipe'[q].stopped
                         /\ pipe'[q].phase = pipe[q].phase
    BY <1>0, <1>2, StopFlag
  <2> QED BY <1>1, <2>1, StopQuiet
<1>3. CASE pipe' = pipe
  BY <1>1, <1>3, StopQuiet
<1>4. CASE Scan
  <2>1. CASE ScanReset
    <3>1. \A q \in Pipes : pipe'[q].stopped = pipe[q].stopped /\ pipe'[q].phase = pipe[q].phase
      BY <1>0, <2>1 DEF ScanReset, PipeTable, PipeValue
    <3> QED BY <1>1, <3>1, StopQuiet
  <2>2. ASSUME NEW c \in Campaigns, NEW p \in Pipes, ScanNewPipe(c, p) PROVE StopInv'
    <3>1. /\ pipe[p].phase = "unused" /\ ~pipe'[p].stopped
          /\ \A q \in Pipes : q # p => pipe'[q] = pipe[q]
      BY <1>0, <2>2 DEF ScanNewPipe, Fresh, NewPipe, PipeAt, PipeTable
    <3> QED BY <1>1, <3>1, StopQuiet
  <2>3. CASE ScanEnqueue
    <3>1. scanAt \in Pipes /\ EnqueueOrRelease(scanAt)
      BY <2>3 DEF ScanEnqueue, PipeMapInv, PipesHaveCampaigns
    <3> QED BY <1>2, <3>1 DEF EnqueueOrRelease
  <2> QED BY <1>3, <1>4, <2>1, <2>2, <2>3
       DEF Scan, ScanTick, ScanLoad, ScanSelect, ScanUpdate, ScanError,
           ScanUnknownMessenger, ScanPipeError, ScanDone
<1>5. CASE Run
  <2>1. ASSUME NEW s \in Subs, RunPush(s) PROVE StopInv'
    <3>1. \A q \in Pipes : pipe'[q].stopped = pipe[q].stopped /\ pipe'[q].phase = pipe[q].phase
      BY <1>0, <2>1 DEF RunPush, PipeTable, PipeValue
    <3> QED BY <1>1, <3>1, StopQuiet
  <2>2. CASE RunRequeue
    <3>1. runPipe \in Pipes /\ EnqueueOrRelease(runPipe)
      BY <2>2 DEF RunRequeue, TypeOK
    <3> QED BY <1>2, <3>1 DEF EnqueueOrRelease
  <2> QED BY <1>2, <1>3, <1>5, <2>1, <2>2 DEF Run, RunFetch, RunExhausted, RunError, RunRenderError
<1> QED BY <1>4, <1>5

\* A worker that sends takes itself off those that are about to, and one that
\* accepts a message has seen the pipe not stopped.
LEMMA WorkerStop ==
  ASSUME TypeOK, CountInv, StopInv, NEW w \in Workers, Worker(w)
  PROVE  StopInv'
<1> USE DEF WorkerAt, NoOutcome
<1>0. pipe \in PipeTable
  BY DEF TypeOK
<1>1. ASSUME worker'[w].pc # "push", \A v \in Workers : v # w => worker'[v] = worker[v]
      PROVE  \A q : Accepted(q)' \subseteq Accepted(q)
  BY <1>1 DEF Accepted
<1>2. CASE WorkerTake(w)
  <2>1. /\ worker'[w].pc = "check" /\ \A v \in Workers : v # w => worker'[v] = worker[v]
        /\ UNCHANGED <<pipe, overrun>>
    BY <1>2 DEF WorkerTake, TypeOK
  <2> QED BY <1>1, <2>1, StopKept
<1>3. CASE WorkerDrop(w)
  <2>1. worker[w].pipe \in Pipes
    BY <1>3, WorkerType DEF WorkerDrop
  <2>2. \A q \in Pipes : pipe'[q].stopped = pipe[q].stopped /\ pipe'[q].phase = pipe[q].phase
    <3>1. pipe' = Released(pipe, worker[w].pipe)
      BY <1>3 DEF WorkerDrop
    <3>2. ASSUME NEW q \in Pipes
          PROVE  /\ Released(pipe, worker[w].pipe)[q].stopped = pipe[q].stopped
                 /\ Released(pipe, worker[w].pipe)[q].phase = pipe[q].phase
      BY <1>0, <2>1, StopFlag
    <3> QED BY <3>1, <3>2
  <2> QED BY <1>1, <1>3, <2>2, WorkerMoves, StopKept DEF WorkerDrop
<1>4. CASE WorkerAccept(w)
  <2>1. /\ ~pipe[worker[w].pipe].stopped /\ worker'[w].pipe = worker[w].pipe
        /\ \A v \in Workers : v # w => worker'[v] = worker[v]
        /\ UNCHANGED <<pipe, overrun>>
    BY <1>4, WorkerMoves DEF WorkerAccept
  <2>2. \A q \in Pipes : pipe[q].stopped => Accepted(q)' \subseteq Accepted(q)
    BY <2>1 DEF Accepted
  <2> QED BY <2>1, <2>2, StopKept
<1>5. ASSUME NEW ok \in BOOLEAN, WorkerPush(w, ok) PROVE StopInv'
  <2>1. PICK p \in Pipes : p = worker[w].pipe
    BY <1>5, WorkerType DEF WorkerPush
  <2>2. /\ worker[w].pc = "push" /\ worker'[w].pc # "push"
        /\ \A v \in Workers : v # w => worker'[v] = worker[v]
        /\ pipe' = Released(pipe, p)
        /\ overrun' = [overrun EXCEPT ![p] = IF pipe[p].stopped THEN @ + 1 ELSE @]
    BY <1>5, <2>1, WorkerMoves DEF WorkerPush
  <2>3. w \in Accepted(p) /\ Accepted(p)' = Accepted(p) \ {w}
        /\ \A q \in Pipes : q # p => Accepted(q)' = Accepted(q)
    BY <2>1, <2>2 DEF Accepted
  <2>4. \A q \in Pipes : pipe'[q].stopped = pipe[q].stopped /\ pipe'[q].phase = pipe[q].phase
    BY <1>0, <2>2, StopFlag
  <2>5. pipe[p].phase = "live"
    <3>1. Holders(p) # {}
      BY <2>1, <2>2 DEF Holders
    <3> QED BY <3>1, HeldIsLive
  <2>6. /\ overrun[p] \in Nat
        /\ overrun'[p] = IF pipe[p].stopped THEN overrun[p] + 1 ELSE overrun[p]
        /\ \A q \in Pipes : q # p => overrun'[q] = overrun[q]
    BY <2>2 DEF TypeOK
  <2>7. Cardinality(Accepted(p)') = Cardinality(Accepted(p)) - 1
    BY <2>3, AcceptedType, FS_RemoveElement
  <2>8. pipe[p].stopped => overrun'[p] + Cardinality(Accepted(p)') <= Cardinality(Workers)
    <3>1. Cardinality(Accepted(p)) \in Nat /\ Cardinality(Workers) \in Nat
      BY AcceptedType
    <3>2. pipe[p].stopped => overrun[p] + Cardinality(Accepted(p)) <= Cardinality(Workers)
      BY DEF StopInv
    <3> QED BY <2>6, <2>7, <3>1, <3>2
  <2>9. ASSUME NEW q \in Pipes
        PROVE  /\ pipe'[q].stopped =>
                    overrun'[q] + Cardinality(Accepted(q)') <= Cardinality(Workers)
               /\ ~pipe'[q].stopped \/ pipe'[q].phase = "unused" => overrun'[q] = 0
    <3>1. CASE q = p
      BY <2>4, <2>5, <2>6, <2>8, <3>1 DEF StopInv
    <3>2. CASE q # p
      BY <2>3, <2>4, <2>6, <3>2 DEF StopInv
    <3> QED BY <3>1, <3>2
  <2> QED BY <2>9 DEF StopInv
<1>6. CASE WorkerOnError(w) \/ WorkerStore(w) \/ WorkerSent(w)
  <2>1. \A q \in Pipes : /\ pipe[q].stopped => pipe'[q].stopped
                         /\ pipe'[q].phase = pipe[q].phase
    BY <1>0, <1>6, SMTT(30) DEF WorkerOnError, WorkerStore, WorkerSent, PipeTable, PipeValue
  <2>2. worker'[w].pc # "push" /\ \A v \in Workers : v # w => worker'[v] = worker[v]
    BY <1>6, WorkerMoves, SMTT(30) DEF WorkerOnError, WorkerStore, WorkerSent
  <2>3. overrun' = overrun
    BY <1>6 DEF WorkerOnError, WorkerStore, WorkerSent
  <2> QED BY <1>1, <2>1, <2>2, <2>3, StopKept
<1>7. CASE WorkerLoad(w)
  BY <1>1, <1>7, WorkerMoves, StopKept DEF WorkerLoad
<1> QED BY <1>2, <1>3, <1>4, <1>5, <1>6, <1>7 DEF Worker

\* The remaining steps neither send nor start a stopped pipe again.
LEMMA NextStop ==
  TypeOK /\ PipeMapInv /\ CountInv /\ StopInv /\ [Next]_vars => StopInv'
<1> SUFFICES ASSUME TypeOK, PipeMapInv, CountInv, StopInv, [Next]_vars PROVE StopInv'
  OBVIOUS
<1>0. pipe \in [Pipes -> PipeValue]
  BY DEF TypeOK, PipeTable
<1>1. CASE Scan \/ Run
  BY <1>1, ScanRunStop
<1>2. ASSUME NEW w \in Workers, Worker(w) PROVE StopInv'
  BY <1>2, WorkerStop
<1>3. ASSUME NEW p \in Pipes, Cleanup(p) PROVE StopInv'
  <2>1. /\ UNCHANGED <<worker, overrun>>
        /\ \E from, to : CleanupStep(p, from, to) /\ to # "unused"
    BY <1>3, SMTT(30) DEF Cleanup, ByCleanup, CleanupWake, CleanupCounts, CleanupPaused, CleanupNoErrors,
                CleanupExhausted, CleanupNothingMore, CleanupFinish, CleanupDelete, histVars
  <2>2. \A q \in Pipes : /\ pipe'[q].stopped = pipe[q].stopped
                         /\ pipe'[q].phase = "unused" => pipe[q].phase = "unused"
    BY <1>0, <2>1 DEF CleanupStep, PipeValue
  <2> QED BY <2>1, <2>2, StopQuiet
<1>4. CASE Request
  <2>1. /\ UNCHANGED <<worker, overrun>>
        /\ pipe' = pipe \/ \E p : pipe' = [pipe EXCEPT ![p].stopped = TRUE]
    BY <1>4 DEF Request, RequestStep, RequestCheck, RequestWrite, RequestNoRow, RequestStop,
                RequestCommit, RequestDelete, ByRequest, histVars
  <2>2. \A q \in Pipes : /\ pipe[q].stopped => pipe'[q].stopped
                         /\ pipe'[q].phase = pipe[q].phase
    BY <1>0, <2>1 DEF PipeValue
  <2> QED BY <2>1, <2>2, StopQuiet
<1>5. CASE Crash
  <2>1. \A q \in Pipes : /\ pipe'[q].stopped = pipe[q].stopped
                         /\ pipe'[q].phase = "unused" => pipe[q].phase = "unused"
    BY <1>0, <1>5 DEF Crash, PipeValue
  <2>2. \A q : Accepted(q)' = {}
    BY <1>5 DEF Crash, Accepted, Resting
  <2>3. overrun' = overrun
    BY <1>5 DEF Crash
  <2> QED BY <2>1, <2>2, <2>3, StopKept
<1>6. CASE (\E c \in Campaigns : TimePasses(c)) \/ UNCHANGED vars
  BY <1>6, StopQuiet DEF TimePasses, vars, histVars
<1> QED BY <1>1, <1>2, <1>3, <1>4, <1>5, <1>6 DEF Next, Environment

\* After a pipe is stopped, by a request, an error or its threshold, at most one more
\* message per worker is sent for it, however many were queued.
THEOREM StoppedSoon == Spec => []OverrunBounded
<1>1. Init => StopInv
  <2> SUFFICES ASSUME Init PROVE StopInv
    OBVIOUS
  <2>1. \A p \in Pipes : ~pipe[p].stopped /\ overrun[p] = 0
    BY DEF Init, PipeAt
  <2> QED BY <2>1 DEF StopInv
<1>2. Spec => []StopInv
  BY <1>1, NextStop, CountCorrect, PTL DEF Spec
<1>3. ASSUME TypeOK, StopInv, NEW p \in Pipes PROVE overrun[p] <= Cardinality(Workers)
  <2>1. /\ Cardinality(Accepted(p)) \in Nat /\ Cardinality(Workers) \in Nat
        /\ overrun[p] \in Nat
    BY <1>3, AcceptedType DEF TypeOK
  <2>2. \/ overrun[p] + Cardinality(Accepted(p)) <= Cardinality(Workers)
        \/ overrun[p] = 0
    BY <1>3 DEF StopInv
  <2> QED BY <2>1, <2>2
<1>4. TypeOK /\ StopInv => OverrunBounded
  BY <1>3 DEF OverrunBounded
<1> QED BY <1>2, <1>4, TypeCorrect, PTL
=============================================================================

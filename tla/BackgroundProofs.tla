--------------------------- MODULE BackgroundProofs ---------------------------
(***************************************************************************)
(* Theorems about Background: imports run one at a time and their counts    *)
(* are those of what they committed; a mail that bounced is recorded once   *)
(* and with the one tenant it belongs to.                                   *)
(*                                                                         *)
(* The importer: a session is active until its file is read and written, or *)
(* given up; only the newest is, and while it is the status keeps requests  *)
(* out (OneInv).  The bounces: what is recorded of a mail, in the channel,  *)
(* in the recorder's hands and still on the server is one, and one more for *)
(* each scan or process that broke off (CopiesInv); and what the recorder   *)
(* found is what the tenants it asked have, unless something moved          *)
(* (AskedInv).                                                              *)
(***************************************************************************)
EXTENDS Background, FiniteSetTheorems, SequenceTheorems, TLAPS

-----------------------------------------------------------------------------
(* The importer: what must hold *)

Statuses == {"none", "importing", "stopping", "finished", "failed"}
SessionRows ==
  [load : {"off", "zip", "open", "line", "push", "gone"},
   start : {"off", "take", "batch", "end", "gone"}, left : Nat, queue : Nat, closed : BOOLEAN,
   cur : Nat, aborted : BOOLEAN, good : Nat, stored : Nat, faulty : BOOLEAN, stopped : BOOLEAN]

\* A session that has not begun is as it was made; a file that is closed was read to its end
\* or stopped; and unless a statement failed, a row that was sent is in the channel, in the
\* transaction or committed, and the writer ends when all of them are.
SessionOK(x) ==
  /\ x.start = "off" <=> x.load = "off"
  /\ x.start = "off" => x = Fresh
  /\ x.closed => x.load = "gone" /\ (x.stopped \/ x.left = 0)
  /\ x.aborted \/ x.start = "end" => x.faulty
  /\ ~x.faulty /\ x.start = "gone" => x.closed /\ x.queue = 0 /\ x.good = x.stored
  /\ ~x.faulty /\ x.start # "gone" => x.good = x.stored + x.queue + x.cur

ImportTypes ==
  /\ status \in Statuses /\ imported \in Nat /\ passed \in Nat
  /\ session \in [Made -> SessionRows] /\ \A s \in Made : SessionOK(session[s])
  /\ raced \in BOOLEAN /\ cleared \in BOOLEAN /\ stop \in BOOLEAN
  /\ latest \in Made \cup {0} /\ (latest # 0 => session[latest].start # "off")

\* While requests do not race, none clears a status and the sessions before the newest had
\* no statement fail, only the newest is active, and the status keeps requests out.
Active(s) == Writing(s) /\ (Loading(s) \/ session[s].closed)
Clean == ~raced /\ ~cleared /\ \A s \in Made \ {latest} : ~session[s].faulty
OneInv ==
  /\ ~raced => passed <= 1
  /\ Clean => \A s \in Made : Active(s) =>
                s = latest /\ (~session[s].faulty => ~IsDone /\ passed = 0)

\* The status counts what the newest session committed.
CountedInv ==
  ~raced /\ ~cleared /\ latest # 0 /\ ~LeftBehind =>
    /\ imported \in {0, session[latest].stored}
    /\ session[latest].start # "gone" => imported = session[latest].stored

ImportInv == ImportTypes /\ OneInv /\ CountedInv

-----------------------------------------------------------------------------
(* The bounces: what must hold *)

Bounced == Mails \cup Events
Hooks == UNION {[I -> Events] : I \in SUBSET Nat}
Recs == [pc : {"idle", "look"}, b : SUBSET Bounced, todo : SUBSET Tenants,
         matches : SUBSET Tenants]

OnServer == {m \in Mails : box[m] = "there"}
Read(m) == scan.pc # "idle" /\ \E k \in 1..Len(scan.seen) : k < scan.i /\ scan.seen[k] = m

\* What a scan numbers is on the server, each message once.
ScanInv ==
  /\ box \in [Mails -> {"coming", "there", "deleted"}] /\ IsFiniteSet(OnServer)
  /\ scan \in [pc : {"idle", "read", "hung"}, seen : Seq(Mails), i : Nat]
  /\ scan.pc # "idle" =>
       /\ scan.seen \in Seq(OnServer)
       /\ \A j, k \in 1..Len(scan.seen) : scan.seen[j] = scan.seen[k] => j = k
       /\ scan.i \in 1..Limit + 1 /\ scan.i <= Len(scan.seen) + 1

BounceTypes ==
  /\ queue \in Seq(Bounced) /\ hook \in [Handlers -> Hooks]
  /\ rec \in Recs /\ IsFiniteSet(rec.matches)
  /\ rec.pc = "idle" => rec = NoRec
  /\ rec.pc = "look" => \E b \in Bounced : rec.b = {b}
  /\ has \in [Tenants -> SUBSET (Contacts \cup Campaigns)] /\ active \subseteq Tenants
  /\ recorded \in [Bounced -> [Tenants -> Nat]] /\ breaks \in Nat /\ moved \in BOOLEAN

\* The places of a message: where it is recorded, in the channel, in the recorder's hands,
\* and to be read yet.
Times(m) == {tn \in Tenants \X (1..Upsets + 2) : tn[2] <= recorded[m][tn[1]]}
At(q, m) == {i \in 1..Len(q) : q[i] = m}
Queued(m) == At(queue, m)
InHand(m) == IF rec.b = {m} THEN 1 ELSE 0
ToRead(m) == IF box[m] # "deleted" /\ ~Read(m) THEN 1 ELSE 0
CopiesInv == \A m \in Mails :
  /\ IsFiniteSet(Times(m))
  /\ Cardinality(Times(m)) + Cardinality(Queued(m)) + InHand(m) + ToRead(m) <= 1 + breaks

\* A message that was read or is deleted is accounted for.
Accounted(m) == Times(m) # {} \/ m \in lost \/ rec.b = {m} \/ Queued(m) # {}
ReadInv == \A m \in Mails : box[m] = "deleted" \/ Read(m) => Accounted(m)

\* The tenants asked so far that have what the bounce names are those that matched.
AskedInv ==
  rec.pc = "look" /\ ~moved =>
    /\ rec.todo \subseteq active \cup {Default}
    /\ rec.matches = {t \in (active \cup {Default}) \ rec.todo : Owns(t, Asked)}

BounceInv == ScanInv /\ BounceTypes /\ CopiesInv /\ ReadInv /\ AskedInv

-----------------------------------------------------------------------------
(* The importer: lemmas *)

Alive(x) == x.start \notin {"off", "gone"} /\ (x.load \notin {"off", "gone"} \/ x.closed)

\* A session is a number, its file has a number of lines, and it begins empty.
LEMMA Sessions ==
  /\ \A s \in Made : s \in Nat /\ s # 0 /\ Files[s] \in Nat
  /\ Fresh \in SessionRows /\ SessionOK(Fresh)
  <1>1. \A s \in Made : s \in Nat /\ s # 0 /\ Files[s] \in Nat
    BY SubImporterAssumption DEF Made
  <1> QED BY <1>1 DEF Fresh, SessionRows, SessionOK

\* A session that loads and had no statement fail is active.
LEMMA LoadingActive ==
  ASSUME ImportInv, NEW s \in Made, Loading(s)
  PROVE  /\ session[s] \in SessionRows /\ SessionOK(session[s])
         /\ ~session[s].closed /\ session[s].start # "off"
         /\ Active(s) \/ session[s].faulty
  <1>1. session[s] \in SessionRows /\ SessionOK(session[s])
    BY DEF ImportInv, ImportTypes
  <1>2. session[s].load \notin {"off", "gone"}
    BY DEF Loading
  <1> QED BY <1>1, <1>2 DEF SessionOK, SessionRows, Active, Writing, Loading

\* A step of a session keeps the types and who is active, if it makes none active, and
\* writes a status only when the session ends or after a failure.
LEMMA OneStep ==
  ASSUME ImportInv, NEW s \in Made, NEW x \in SessionRows,
         session' = [session EXCEPT ![s] = x], SessionOK(x),
         session[s].start # "off", x.start # "off", session[s].faulty => x.faulty,
         Alive(x) => Active(s), status' \in Statuses, imported' \in Nat, stop' \in BOOLEAN,
         UNCHANGED <<passed, latest, raced, cleared>>,
         \/ status' = status
         \/ (Active(s) \/ x.faulty) /\ (Alive(x) => x.faulty)
  PROVE  ImportTypes' /\ OneInv'
  <1>1. session' = [session EXCEPT ![s] = x] /\ session \in [Made -> SessionRows]
    BY DEF ImportInv, ImportTypes
  <1>2. session'[s] = x /\ \A t \in Made : t # s => session'[t] = session[t]
    BY <1>1
  <1>3. ImportTypes'
    BY <1>1, <1>2 DEF ImportInv, ImportTypes
  <1>4. \A t \in Made : t # s => (Active(t)' <=> Active(t))
    BY <1>2 DEF Active, Writing, Loading
  <1>5. Active(s)' <=> Alive(x)
    BY <1>2 DEF Active, Writing, Loading, Alive
  <1>6. Clean' => Clean
    BY <1>2 DEF Clean
  <1>7. ASSUME Clean', NEW t \in Made, Active(t)'
        PROVE  t = latest /\ (~session'[t].faulty => ~IsDone' /\ passed = 0)
    <2>1. Active(t) /\ t = latest /\ (~session[t].faulty => ~IsDone /\ passed = 0)
      BY <1>4, <1>5, <1>6, <1>7 DEF ImportInv, OneInv
    <2>2. CASE status' = status
      BY <1>2, <2>1, <2>2 DEF IsDone
    <2>3. CASE status' # status /\ t = s
      BY <1>2, <1>5, <1>7, <2>1, <2>3
    <2>4. CASE status' # status /\ t # s
      <3>1. x.faulty
        BY <1>6, <1>7, <2>1, <2>4 DEF ImportInv, OneInv
      <3>2. s = latest
        BY <1>2, <1>7, <3>1 DEF Clean
      <3> QED BY <2>1, <2>4, <3>2
    <2> QED BY <2>2, <2>3, <2>4
  <1> QED BY <1>3, <1>7 DEF ImportInv, OneInv

\* A step of a session keeps the count, if it counts what it commits, and only an active or
\* a faulty one ends.
LEMMA CountedStep ==
  ASSUME ImportInv, NEW s \in Made, NEW x \in SessionRows,
         session' = [session EXCEPT ![s] = x],
         session[s].faulty => x.faulty, session[s].start # "off", x.start # "off",
         Writing(s) /\ x.start = "gone" => x.faulty \/ Active(s),
         UNCHANGED <<latest, raced, cleared>>,
         \/ /\ imported' = imported /\ x.stored = session[s].stored
            /\ x.start # "gone" => session[s].start # "gone"
         \/ /\ Writing(s)
            /\ \E n \in Nat : imported' = imported + n /\ x.stored = session[s].stored + n
  PROVE  CountedInv'
  <1>1. session' = [session EXCEPT ![s] = x] /\ session \in [Made -> SessionRows]
    BY DEF ImportInv, ImportTypes
  <1>2. session'[s] = x /\ \A t \in Made : t # s => session'[t] = session[t]
    BY <1>1
  <1> SUFFICES ASSUME ~raced, ~cleared, latest # 0, ~LeftBehind'
               PROVE  /\ imported' \in {0, session'[latest].stored}
                      /\ session'[latest].start # "gone" => imported' = session'[latest].stored
    BY DEF CountedInv
  <1>3. Clean /\ (x.faulty => s = latest)
    BY <1>2 DEF LeftBehind, Clean
  <1>4. Active(s) => s = latest
    BY <1>3 DEF ImportInv, OneInv
  <1>5. ~LeftBehind
    BY <1>2, <1>3, <1>4 DEF LeftBehind, Writing
  <1>6. /\ latest \in Made /\ imported \in {0, session[latest].stored}
        /\ session[latest].start # "gone" => imported = session[latest].stored
    BY <1>5 DEF ImportInv, ImportTypes, CountedInv
  <1>7. CASE s = latest
    BY <1>1, <1>2, <1>6, <1>7 DEF Writing, SessionRows
  <1>8. CASE s # latest
    <2>1. ~Writing(s)
      BY <1>5, <1>8 DEF LeftBehind
    <2> QED BY <1>2, <1>6, <1>8, <2>1
  <1> QED BY <1>7, <1>8

-----------------------------------------------------------------------------
(* The importer: steps *)

\* A request that passes isDone: while there is one active session, its status keeps it out.
LEMMA PassStep == ASSUME ImportInv, ImportSubscribers PROVE ImportInv'
  <1> USE DEF ImportSubscribers
  <1>1. ImportTypes'
    BY DEF ImportInv, ImportTypes
  <1>2. OneInv'
    <2>0. passed > 0 => raced'
      BY Zenon
    <2>1. ~raced' => ~raced /\ passed' = 1
      BY <2>0 DEF ImportInv, ImportTypes
    <2>2. Clean' => Clean
      BY <2>1 DEF Clean
    <2>3. \A t \in Made : Active(t)' => Active(t)
      BY DEF Active, Writing, Loading
    <2>4. IsDone
      OBVIOUS
    <2> QED BY <2>1, <2>2, <2>3, <2>4 DEF ImportInv, OneInv
  <1>3. CountedInv'
    BY DEF ImportInv, CountedInv, LeftBehind, Writing
  <1> QED BY <1>1, <1>2, <1>3 DEF ImportInv

\* A new session: nothing else was active, as a request had passed.
LEMMA NewStep == ASSUME ImportInv, NEW s \in Made, NEW zip \in BOOLEAN, NewSession(s, zip) PROVE ImportInv'
  <1> DEFINE x == [Fresh EXCEPT !.start = "take", !.load = IF zip THEN "zip" ELSE "open", !.left = Files[s]]
  <1>1. x \in SessionRows /\ SessionOK(x) /\ x.start = "take" /\ ~x.faulty /\ x.stored = 0
    BY Sessions DEF Fresh, SessionRows, SessionOK
  <1>2. /\ session' = [session EXCEPT ![s] = x] /\ session[s] = Fresh
        /\ passed > 0 /\ passed' = passed - 1 /\ status' = "importing" /\ imported' = 0 /\ latest' = s
        /\ UNCHANGED <<raced, cleared, stop>>
    BY DEF NewSession, Ses
  <1> HIDE DEF x
  <1>3. session \in [Made -> SessionRows] /\ passed \in Nat /\ s # 0
    BY Sessions DEF ImportInv, ImportTypes
  <1>4. session'[s] = x /\ \A t \in Made : t # s => session'[t] = session[t]
    BY <1>2, <1>3
  <1>5. ImportTypes'
    BY <1>1, <1>2, <1>3, <1>4 DEF ImportInv, ImportTypes, Statuses
  <1>6. ASSUME Clean', NEW t \in Made, Active(t)'
        PROVE  t = s
    <2> SUFFICES ASSUME t # s PROVE FALSE
      OBVIOUS
    <2>1. Active(t)
      BY <1>4, <1>6 DEF Active, Writing, Loading
    <2>2. \A u \in Made : ~session[u].faulty
      BY <1>2, <1>4, <1>6 DEF Clean, Fresh
    <2>3. Clean
      BY <1>2, <1>6, <2>2 DEF Clean
    <2> QED BY <1>2, <1>3, <2>1, <2>2, <2>3 DEF ImportInv, OneInv
  <1>7. ~raced => passed' = 0
    BY <1>2, <1>3 DEF ImportInv, OneInv
  <1>8. OneInv'
    BY <1>2, <1>6, <1>7 DEF OneInv, Clean, IsDone
  <1>9. CountedInv'
    BY <1>1, <1>2, <1>4 DEF CountedInv
  <1> QED BY <1>5, <1>8, <1>9 DEF ImportInv

\* Stop: it clears the status of no session that runs, or the ghost says so.
LEMMA StopSteps == ASSUME ImportInv, NEW r \in Stoppers, StopImport(r) \/ StopStep(r) PROVE ImportInv'
  <1>1. CASE StopImport(r) \/ StopSends(r)
    <2>1. /\ UNCHANGED <<status, imported, session, passed, latest, raced, cleared>>
          /\ stop' \in BOOLEAN
      BY <1>1 DEF StopImport, StopSends, ImportInv, ImportTypes
    <2>2. ImportTypes' /\ CountedInv'
      BY <2>1 DEF ImportInv, ImportTypes, CountedInv, LeftBehind, Writing
    <2>3. OneInv'
      BY <2>1 DEF ImportInv, OneInv, Clean, Active, Writing, Loading, IsDone
    <2> QED BY <2>2, <2>3 DEF ImportInv
  <1>2. CASE StopMarks(r)
    <2>1. status' = "stopping" /\ UNCHANGED <<imported, stop, session, passed, latest, raced, cleared>>
      BY <1>2 DEF StopMarks
    <2>2. ImportTypes' /\ CountedInv'
      BY <2>1 DEF ImportInv, ImportTypes, CountedInv, LeftBehind, Writing, Statuses
    <2>3. OneInv'
      BY <2>1 DEF ImportInv, OneInv, Clean, Active, Writing, Loading, IsDone
    <2> QED BY <2>2, <2>3 DEF ImportInv
  <1>3. CASE StopClears(r)
    <2>1. /\ status' = "none" /\ imported' = 0 /\ cleared' = (cleared \/ \E s \in Made : Writing(s))
          /\ UNCHANGED <<session, stop, passed, latest, raced>>
      BY <1>3 DEF StopClears
    <2>2. ImportTypes'
      BY <2>1 DEF ImportInv, ImportTypes, Statuses
    <2>3. OneInv'
      BY <2>1 DEF ImportInv, OneInv, Clean, Active, Writing, Loading
    <2>4. CountedInv'
      BY <2>1 DEF ImportInv, ImportTypes, CountedInv, LeftBehind, Writing
    <2> QED BY <2>2, <2>3, <2>4 DEF ImportInv
  <1> QED BY <1>1, <1>2, <1>3 DEF StopStep

\* The lock that waits for itself changes nothing else.
LEMMA LockedOutStep == ASSUME ImportInv, LockedOut PROVE ImportInv'
  <1> USE DEF LockedOut
  <1>1. ImportTypes' /\ CountedInv'
    BY DEF ImportInv, ImportTypes, CountedInv, LeftBehind, Writing
  <1>2. OneInv'
    BY DEF ImportInv, OneInv, Clean, Active, Writing, Loading, IsDone
  <1> QED BY <1>1, <1>2 DEF ImportInv

\* A step of LoadCSV or ExtractZIP: the session goes on or ends, with a status that says so.
LEMMA LoadKeeps ==
  ASSUME ImportInv, NEW s \in Made, Loading(s), NEW x \in SessionRows,
         session' = [session EXCEPT ![s] = x], SessionOK(x),
         x.start = session[s].start, x.faulty = session[s].faulty, x.stored = session[s].stored,
         UNCHANGED <<imported, passed, latest, raced, cleared>>, stop' \in BOOLEAN,
         status' = status \/ (status' = "failed" /\ x.load = "gone" /\ ~x.closed)
  PROVE  ImportInv'
  <1>1. /\ session[s].start # "off" /\ (Active(s) \/ session[s].faulty)
        /\ session[s] \in SessionRows
    BY LoadingActive
  <1>2. Alive(x) => Active(s)
    BY DEF Alive, Active, Writing, Loading
  <1>3. ~Alive(x) \/ status' = status
    BY DEF Alive
  <1>4. status' \in Statuses /\ imported' \in Nat
    BY DEF ImportInv, ImportTypes, Statuses
  <1>5. ImportTypes' /\ OneInv'
    BY <1>1, <1>2, <1>3, <1>4, OneStep
  <1>6. CountedInv'
    BY <1>1, CountedStep DEF Writing
  <1> QED BY <1>5, <1>6 DEF ImportInv

\* The session ends its loading, or goes on to another place in it.
LEMMA LoadMoves ==
  ASSUME ImportInv, NEW s \in Made, Loading(s),
         NEW pc \in {"open", "line", "gone"}, NEW left \in Nat, NEW x,
         x = [session[s] EXCEPT !.load = pc, !.left = left], session' = [session EXCEPT ![s] = x],
         UNCHANGED <<imported, passed, latest, raced, cleared>>, stop' \in BOOLEAN,
         status' = status \/ (status' = "failed" /\ pc = "gone")
  PROVE  ImportInv'
  <1>1. session[s] \in SessionRows /\ SessionOK(session[s]) /\ ~session[s].closed
        /\ session[s].start # "off"
    BY LoadingActive
  <1>2. /\ x \in SessionRows /\ SessionOK(x) /\ x.start = session[s].start /\ ~x.closed
        /\ x.faulty = session[s].faulty /\ x.stored = session[s].stored /\ x.load = pc
    BY <1>1 DEF SessionRows, SessionOK
  <1> QED BY <1>2, LoadKeeps

\* ExtractZIP: an import that is over, a file that cannot be unpacked, or one that can.
LEMMA ZipStep ==
  ASSUME ImportInv, NEW s \in Made, NEW ok \in BOOLEAN, ExtractZIP(s, ok) PROVE ImportInv'
  <1> DEFINE pc == IF IsDone \/ ~ok THEN "gone" ELSE "open"
             x == [session[s] EXCEPT !.load = pc]
  <1>1. Loading(s) /\ session[s] \in SessionRows
    BY LoadingActive DEF ExtractZIP, Load, Loading
  <1>2. x = [session[s] EXCEPT !.load = pc, !.left = session[s].left]
        /\ session[s].left \in Nat /\ pc \in {"open", "line", "gone"}
    BY <1>1 DEF SessionRows
  <1>3. /\ session' = [session EXCEPT ![s] = x] /\ UNCHANGED <<imported, passed, latest, raced, cleared>>
        /\ stop' \in BOOLEAN
    BY DEF Ses, ExtractZIP, ImportInv, ImportTypes
  <1>4. status' = status \/ (status' = "failed" /\ pc = "gone")
    <2>1. CASE IsDone \/ ok
      BY <2>1 DEF ExtractZIP
    <2>2. CASE ~(IsDone \/ ok)
      BY <2>2 DEF ExtractZIP
    <2> QED BY <2>1, <2>2
  <1> HIDE DEF pc, x
  <1> QED BY <1>1, <1>2, <1>3, <1>4, LoadMoves

\* LoadCSV opens the file and reads its header, or gives up.
LEMMA OpenStep ==
  ASSUME ImportInv, NEW s \in Made, NEW ok \in BOOLEAN, LoadOpens(s, ok) PROVE ImportInv'
  <1>1. Loading(s) /\ session[s] \in SessionRows
    BY LoadingActive DEF LoadOpens, Load, Loading
  <1>2. session[s].left \in Nat /\ session[s] = [session[s] EXCEPT !.left = session[s].left]
    BY <1>1 DEF SessionRows
  <1>3. UNCHANGED <<imported, passed, latest, raced, cleared>> /\ stop' \in BOOLEAN
    BY DEF LoadOpens, ImportInv, ImportTypes
  <1>4. CASE ~IsDone /\ ok /\ session[s].left > 0
    <2> DEFINE x == [session[s] EXCEPT !.load = "line", !.left = @ - 1]
    <2>1. session' = [session EXCEPT ![s] = x] /\ status' = status
      BY <1>4 DEF Ses, LoadOpens
    <2>2. session[s].left - 1 \in Nat
      BY <1>2, <1>4
    <2>3. x = [session[s] EXCEPT !.load = "line", !.left = session[s].left - 1]
      OBVIOUS
    <2> HIDE DEF x
    <2> QED BY <1>1, <1>3, <2>1, <2>2, <2>3, LoadMoves
  <1>5. CASE ~(~IsDone /\ ok /\ session[s].left > 0)
    <2> DEFINE x == [session[s] EXCEPT !.load = "gone"]
    <2>1. session' = [session EXCEPT ![s] = x] /\ (status' = status \/ status' = "failed")
      BY <1>5 DEF Ses, LoadOpens, LoadFails, FailedStatus
    <2>2. x = [session[s] EXCEPT !.load = "gone", !.left = session[s].left]
      BY <1>1, <1>2 DEF SessionRows
    <2> HIDE DEF x
    <2> QED BY <1>1, <1>2, <1>3, <2>1, <2>2, LoadMoves
  <1> QED BY <1>4, <1>5

\* A row that is sent is in the channel, or in hand while it is full.
LEMMA PushedRow ==
  ASSUME ImportInv, NEW s \in Made, Loading(s), NEW left \in Nat, NEW y,
         y = [session[s] EXCEPT !.left = left]
  PROVE  /\ Pushed(y) \in SessionRows /\ SessionOK(Pushed(y))
         /\ Pushed(y).start = session[s].start /\ Pushed(y).faulty = session[s].faulty
         /\ Pushed(y).stored = session[s].stored
  <1>1. session[s] \in SessionRows /\ SessionOK(session[s]) /\ ~session[s].closed
        /\ session[s].start # "off"
    BY LoadingActive
  <1>2. CASE y.queue = Batch
    <2>1. Pushed(y) = [y EXCEPT !.load = "push"]
      BY <1>2 DEF Pushed
    <2> QED BY <1>1, <2>1 DEF SessionRows, SessionOK
  <1>3. CASE y.queue # Batch
    <2>1. Pushed(y) = [y EXCEPT !.queue = @ + 1, !.good = @ + 1, !.load = "line"]
      BY <1>3 DEF Pushed
    <2> DEFINE z == [session[s] EXCEPT !.left = left, !.queue = session[s].queue + 1,
                                       !.good = session[s].good + 1, !.load = "line"]
    <2>2. Pushed(y) = z
      BY <1>1, <2>1 DEF SessionRows
    <2>3. /\ z.start = session[s].start /\ z.faulty = session[s].faulty
          /\ z.stored = session[s].stored /\ z.closed = session[s].closed
          /\ z.cur = session[s].cur /\ z.load = "line" /\ z.aborted = session[s].aborted
          /\ z.queue = session[s].queue + 1 /\ z.good = session[s].good + 1
      BY <1>1 DEF SessionRows
    <2>4. /\ session[s].queue \in Nat /\ session[s].good \in Nat
          /\ session[s].stored \in Nat /\ session[s].cur \in Nat
      BY <1>1 DEF SessionRows
    <2>5. session[s].queue + 1 \in Nat /\ session[s].good + 1 \in Nat
      BY <2>4
    <2>6. z \in SessionRows
      BY <1>1, <2>5 DEF SessionRows
    <2> HIDE DEF z
    <2>7. SessionOK(z)
      BY <1>1, <2>3, <2>4 DEF SessionOK
    <2> QED BY <2>2, <2>3, <2>6, <2>7
  <1> QED BY <1>2, <1>3

\* A line: the end, a token, a row that is sent or not, or one that ends the reading.
LEMMA LineStep ==
  ASSUME ImportInv, NEW s \in Made, NEW kind \in RowKinds, LoadLine(s, kind) PROVE ImportInv'
  <1> DEFINE y == session[s]
  <1>1. /\ Loading(s) /\ y \in SessionRows /\ SessionOK(y) /\ y.start # "off"
        /\ y.left \in Nat /\ y.load = "line"
    BY LoadingActive DEF LoadLine, Load, Loading, SessionRows
  <1>2. UNCHANGED <<imported, passed, latest, raced, cleared>> /\ stop' \in BOOLEAN
    BY DEF Ses, LoadLine
  <1>3. CASE stop \/ y.left = 0
    <2> DEFINE x == [y EXCEPT !.load = "gone", !.closed = TRUE, !.stopped = stop]
    <2>1. session' = [session EXCEPT ![s] = x] /\ status' = status
      BY <1>3 DEF Ses, LoadLine, Close
    <2>2. stop \in BOOLEAN
      BY DEF ImportInv, ImportTypes
    <2>3. x \in SessionRows /\ x.start = y.start /\ x.faulty = y.faulty /\ x.stored = y.stored
      BY <1>1, <2>2 DEF SessionRows
    <2>4. SessionOK(x)
      BY <1>1, <1>3, <2>2 DEF SessionRows, SessionOK
    <2> HIDE DEF x
    <2> QED BY <1>1, <1>2, <2>1, <2>3, <2>4, LoadKeeps
  <1>4. CASE ~(stop \/ y.left = 0) /\ kind = "bad"
    <2> DEFINE x == [y EXCEPT !.load = "gone"]
    <2>1. session' = [session EXCEPT ![s] = x] /\ status' = "failed"
      BY <1>4 DEF Ses, LoadLine, LoadFails, FailedStatus
    <2>2. x = [y EXCEPT !.load = "gone", !.left = y.left]
      BY <1>1 DEF SessionRows
    <2> HIDE DEF x
    <2> QED BY <1>1, <1>2, <2>1, <2>2, LoadMoves
  <1>5. CASE ~(stop \/ y.left = 0) /\ kind = "skipped"
    <2> DEFINE x == [y EXCEPT !.left = y.left - 1]
    <2>1. session' = [session EXCEPT ![s] = x] /\ status' = status
      BY <1>5 DEF Ses, LoadLine
    <2>2. y.left - 1 \in Nat
      BY <1>1, <1>5
    <2>3. y = [y EXCEPT !.load = "line"]
      BY <1>1 DEF SessionRows
    <2>4. x = [y EXCEPT !.load = "line", !.left = y.left - 1]
      BY <1>1, <2>3 DEF SessionRows
    <2> HIDE DEF x
    <2> QED BY <1>1, <1>2, <2>1, <2>2, <2>4, LoadMoves
  <1>6. CASE ~(stop \/ y.left = 0) /\ kind = "good"
    <2> DEFINE z == [y EXCEPT !.left = y.left - 1]
    <2>1. session' = [session EXCEPT ![s] = Pushed(z)] /\ status' = status
      BY <1>6 DEF Ses, LoadLine
    <2>2. y.left - 1 \in Nat
      BY <1>1, <1>6
    <2>3. /\ Pushed(z) \in SessionRows /\ SessionOK(Pushed(z))
          /\ Pushed(z).start = y.start /\ Pushed(z).faulty = y.faulty /\ Pushed(z).stored = y.stored
      BY <1>1, <2>2, PushedRow
    <2> HIDE DEF z
    <2> QED BY <1>1, <1>2, <2>1, <2>3, LoadKeeps
  <1> QED BY <1>3, <1>4, <1>5, <1>6 DEF RowKinds

\* The row in hand finds a place in the channel, or waits on.
LEMMA PushStep == ASSUME ImportInv, NEW s \in Made, LoadPushes(s) PROVE ImportInv'
  <1>1. Loading(s) /\ session[s] \in SessionRows
    BY LoadingActive DEF LoadPushes, Load, Loading
  <1>2. session[s].left \in Nat /\ session[s] = [session[s] EXCEPT !.left = session[s].left]
    BY <1>1 DEF SessionRows
  <1>3. /\ session' = [session EXCEPT ![s] = Pushed(session[s])] /\ status' = status
        /\ UNCHANGED <<imported, passed, latest, raced, cleared>> /\ stop' \in BOOLEAN
    BY DEF Ses, LoadPushes, ImportInv, ImportTypes
  <1> QED BY <1>1, <1>2, <1>3, PushedRow, LoadKeeps

\* Each step of LoadCSV keeps the invariant.
LEMMA LoadSteps == ASSUME ImportInv, NEW s \in Made, LoadStep(s) PROVE ImportInv'
BY ZipStep, OpenStep, LineStep, PushStep DEF LoadStep

\* A step of Start that goes on keeps the count and who is active.
LEMMA WriteKeeps ==
  ASSUME ImportInv, NEW s \in Made, Writing(s), NEW x \in SessionRows,
         session' = [session EXCEPT ![s] = x], SessionOK(x), x.load = session[s].load,
         x.closed = session[s].closed, x.start # "off", session[s].faulty => x.faulty,
         x.start = "gone" => x.faulty \/ Active(s),
         UNCHANGED <<passed, latest, raced, cleared, stop>>, status' \in Statuses,
         status' = status \/ x.start = "gone",
         NEW n \in Nat, imported' = imported + n, x.stored = session[s].stored + n
  PROVE  ImportInv'
  <1>1. session[s].start \notin {"off", "gone"} /\ imported' \in Nat /\ stop' \in BOOLEAN
    BY DEF Writing, ImportInv, ImportTypes
  <1>2. Alive(x) => Active(s)
    BY <1>1 DEF Alive, Active, Writing, Loading
  <1>3. status' = status \/ ((Active(s) \/ x.faulty) /\ ~Alive(x))
    BY DEF Alive
  <1>4. ImportTypes' /\ OneInv'
    BY <1>1, <1>2, <1>3, OneStep
  <1>5. CountedInv'
    BY <1>1, CountedStep
  <1> QED BY <1>4, <1>5 DEF ImportInv

\* A session that writes, and its numbers.
LEMMA WritingRow ==
  ASSUME ImportInv, NEW s \in Made, Writing(s)
  PROVE  /\ session[s] \in SessionRows /\ SessionOK(session[s])
         /\ session[s].start \notin {"off", "gone"} /\ session[s].load # "off"
         /\ session[s].queue \in Nat /\ session[s].good \in Nat
         /\ session[s].stored \in Nat /\ session[s].cur \in Nat
  <1>1. session[s] \in SessionRows /\ SessionOK(session[s])
    BY DEF ImportInv, ImportTypes
  <1>2. session[s].start \notin {"off", "gone"}
    BY DEF Writing
  <1> QED BY <1>1, <1>2 DEF SessionRows, SessionOK

\* A row taken from the channel.
LEMMA OneFromQueue ==
  ASSUME NEW q \in Nat, NEW c \in Nat, NEW n \in Nat, q > 0
  PROVE  /\ q - 1 \in Nat /\ c + 1 \in Nat /\ n = n + 0
         /\ n + q + c = n + (q - 1) + (c + 1)
  OBVIOUS

\* What the status is, and what it counts, which a step that counts nothing leaves.
LEMMA StatusTyped ==
  ASSUME ImportInv PROVE status \in Statuses /\ imported \in Nat /\ imported = imported + 0
  <1>1. status \in Statuses /\ imported \in Nat
    BY DEF ImportInv, ImportTypes
  <1>2. imported = imported + 0
    BY <1>1
  <1> QED BY <1>1, <1>2

\* A row goes from the channel into the transaction, or is dropped after a failure.
LEMMA WriteStep ==
  ASSUME ImportInv, NEW s \in Made, NEW outcome \in {"ok", "dropped", "failed"},
         StartWrites(s, outcome)
  PROVE  ImportInv'
  <1> DEFINE y == session[s]
  <1>1. /\ Writing(s) /\ y.queue > 0 /\ y.start = "take"
        /\ UNCHANGED <<status, imported, stop, passed, latest, raced, cleared>>
    BY DEF StartWrites, Start, Writing
  <1>2. /\ y \in SessionRows /\ SessionOK(y) /\ y.queue \in Nat /\ y.good \in Nat
        /\ y.stored \in Nat /\ y.cur \in Nat /\ y.load # "off"
    BY <1>1, WritingRow
  <1>3. /\ status' \in Statuses /\ imported' = imported + 0 /\ status' = status
        /\ y.queue - 1 \in Nat /\ y.cur + 1 \in Nat /\ y.stored = y.stored + 0
        /\ y.stored + y.queue + y.cur = y.stored + (y.queue - 1) + (y.cur + 1)
    <2>1. y.queue > 0 /\ y.queue \in Nat /\ y.cur \in Nat /\ y.stored \in Nat
      BY <1>1, <1>2
    <2>2. /\ y.queue - 1 \in Nat /\ y.cur + 1 \in Nat /\ y.stored = y.stored + 0
          /\ y.stored + y.queue + y.cur = y.stored + (y.queue - 1) + (y.cur + 1)
      BY <2>1, OneFromQueue
    <2> QED BY <1>1, <2>2, StatusTyped
  <1>4. CASE outcome = "ok"
    <2> DEFINE pc == IF y.cur + 1 = Batch THEN "batch" ELSE "take"
               z == [y EXCEPT !.queue = y.queue - 1, !.cur = y.cur + 1, !.start = pc]
    <2>1. session' = [session EXCEPT ![s] = z]
      BY <1>2, <1>4 DEF StartWrites, Ses, SessionRows
    <2>2. pc \in {"batch", "take"}
      OBVIOUS
    <2> HIDE DEF pc
    <2>3. /\ z.queue = y.queue - 1 /\ z.cur = y.cur + 1 /\ z.start = pc /\ z.load = y.load
          /\ z.closed = y.closed /\ z.faulty = y.faulty /\ z.stored = y.stored /\ z.good = y.good
          /\ z.aborted = y.aborted /\ z.stopped = y.stopped /\ z.left = y.left
      BY <1>2 DEF SessionRows
    <2>4. z \in SessionRows
      BY <1>2, <1>3, <2>2 DEF SessionRows
    <2> HIDE DEF z
    <2>5. ~y.faulty => z.good = z.stored + z.queue + z.cur
      <3>1. ~y.faulty => y.good = y.stored + y.queue + y.cur
        BY <1>1, <1>2 DEF SessionOK
      <3>3. y.stored + y.queue + y.cur = y.stored + (y.queue - 1) + (y.cur + 1)
        BY <1>3
      <3>4. /\ z.queue = y.queue - 1 /\ z.cur = y.cur + 1 /\ z.stored = y.stored
            /\ z.good = y.good
        BY <2>3
      <3> QED BY <3>1, <3>3, <3>4
    <2>6. SessionOK(z)
      BY <1>1, <1>2, <2>2, <2>3, <2>5 DEF SessionOK
    <2> HIDE DEF y
    <2> QED BY <2>6, <1>1, <1>2, <1>3, <2>1, <2>2, <2>3, <2>4, <2>5, WriteKeeps DEF y
  <1>5. CASE outcome = "dropped"
    <2> DEFINE z == [y EXCEPT !.queue = y.queue - 1, !.faulty = TRUE]
    <2>1. session' = [session EXCEPT ![s] = z]
      BY <1>2, <1>5 DEF StartWrites, Ses, SessionRows
    <2>2. /\ z.start = y.start /\ z.load = y.load /\ z.closed = y.closed /\ z.faulty
          /\ z.stored = y.stored /\ z.aborted = y.aborted /\ z.stopped = y.stopped
          /\ z.left = y.left
      BY <1>2 DEF SessionRows
    <2>3. z \in SessionRows
      BY <1>2, <1>3 DEF SessionRows
    <2> HIDE DEF z
    <2>4. SessionOK(z)
      BY <1>1, <1>2, <2>2 DEF SessionOK
    <2> QED BY <1>1, <1>2, <1>3, <2>1, <2>2, <2>3, <2>4, WriteKeeps
  <1>6. CASE outcome = "failed"
    <2> DEFINE z == [y EXCEPT !.queue = y.queue - 1, !.faulty = TRUE, !.aborted = TRUE,
                              !.start = "end"]
    <2>1. session' = [session EXCEPT ![s] = z]
      BY <1>2, <1>6 DEF StartWrites, Ses, SessionRows
    <2>2. /\ z.start = "end" /\ z.load = y.load /\ z.closed = y.closed /\ z.faulty
          /\ z.stored = y.stored /\ z.stopped = y.stopped /\ z.left = y.left
      BY <1>2 DEF SessionRows
    <2>3. z \in SessionRows
      BY <1>2, <1>3 DEF SessionRows
    <2> HIDE DEF z
    <2>4. SessionOK(z)
      BY <1>1, <1>2, <2>2 DEF SessionOK
    <2> QED BY <1>1, <1>2, <1>3, <2>1, <2>2, <2>3, <2>4, WriteKeeps
  <1> QED BY <1>4, <1>5, <1>6

\* A commit, which counts the rows it stored.
LEMMA CommittedRow ==
  ASSUME ImportInv, NEW s \in Made, Writing(s), NEW ok \in BOOLEAN, NEW z, NEW n,
         z = Commit(session[s], ok), n = Counted(session[s].cur, ok)
  PROVE  /\ z \in SessionRows /\ n \in Nat
         /\ z.stored = session[s].stored + n /\ z.cur = session[s].cur /\ z.good = session[s].good
         /\ z.queue = session[s].queue /\ z.load = session[s].load /\ z.left = session[s].left
         /\ z.closed = session[s].closed /\ z.stopped = session[s].stopped
         /\ z.aborted = session[s].aborted /\ z.start = session[s].start
         /\ (ok => z.faulty = session[s].faulty /\ n = session[s].cur) /\ (~ok => z.faulty)
  <1>1. /\ session[s] \in SessionRows /\ session[s].stored \in Nat /\ session[s].cur \in Nat
    BY WritingRow
  <1>2. n \in Nat /\ (ok => n = session[s].cur) /\ session[s].stored + n \in Nat
    BY <1>1 DEF Counted
  <1>3. n = IF ok THEN session[s].cur ELSE 0
    BY DEF Counted
  <1>4. z = [session[s] EXCEPT !.faulty = session[s].faulty \/ ~ok, !.stored = session[s].stored + n]
    BY <1>1, <1>3 DEF Commit, SessionRows
  <1>5. PICK b \in BOOLEAN : /\ z = [session[s] EXCEPT !.faulty = b, !.stored = session[s].stored + n]
                             /\ (ok => b = session[s].faulty) /\ (~ok => b)
    <2>1. session[s].faulty \in BOOLEAN
      BY <1>1 DEF SessionRows
    <2>2. CASE ok
      BY <1>4, <2>1, <2>2
    <2>3. CASE ~ok
      BY <1>4, <2>3
    <2> QED BY <2>2, <2>3
  <1>6. /\ z.stored = session[s].stored + n /\ z.faulty = b
        /\ z.cur = session[s].cur /\ z.good = session[s].good
        /\ z.queue = session[s].queue /\ z.load = session[s].load /\ z.left = session[s].left
        /\ z.closed = session[s].closed /\ z.stopped = session[s].stopped
        /\ z.aborted = session[s].aborted /\ z.start = session[s].start
    BY <1>1, <1>5 DEF SessionRows
  <1>7. z \in SessionRows
    BY <1>1, <1>2, <1>5 DEF SessionRows
  <1> QED BY <1>2, <1>5, <1>6, <1>7

\* A batch is committed and counted, or its rows are gone.
LEMMA CommitStep ==
  ASSUME ImportInv, NEW s \in Made, NEW ok \in BOOLEAN, StartCommits(s, ok) PROVE ImportInv'
  <1> DEFINE y == session[s]
             c == Commit(y, ok)
             n == Counted(y.cur, ok)
             x == [c EXCEPT !.start = "take", !.cur = 0]
  <1>1. /\ Writing(s) /\ y.start = "batch"
        /\ UNCHANGED <<status, stop, passed, latest, raced, cleared>>
        /\ imported' = imported + n /\ session' = [session EXCEPT ![s] = x]
    BY DEF StartCommits, Start, Writing, Ses
  <1>2. /\ SessionOK(y) /\ y.queue \in Nat /\ y.good \in Nat
        /\ y.stored \in Nat /\ y.cur \in Nat /\ y.load # "off"
    BY <1>1, WritingRow
  <1>3. /\ c \in SessionRows /\ n \in Nat
        /\ c.stored = y.stored + n /\ c.good = y.good /\ c.queue = y.queue /\ c.load = y.load
        /\ c.left = y.left /\ c.closed = y.closed /\ c.stopped = y.stopped
        /\ c.aborted = y.aborted /\ (ok => c.faulty = y.faulty /\ n = y.cur) /\ (~ok => c.faulty)
    BY <1>1, CommittedRow
  <1> HIDE DEF c, n
  <1>4. /\ x \in SessionRows /\ x.stored = c.stored /\ x.good = c.good /\ x.queue = c.queue
        /\ x.load = c.load /\ x.left = c.left /\ x.closed = c.closed /\ x.stopped = c.stopped
        /\ x.aborted = c.aborted /\ x.faulty = c.faulty /\ x.start = "take" /\ x.cur = 0
    BY <1>3 DEF SessionRows
  <1> HIDE DEF x
  <1>5. ~x.faulty => x.good = x.stored + x.queue + x.cur
    <2> SUFFICES ASSUME ~x.faulty PROVE x.good = x.stored + x.queue + x.cur
      OBVIOUS
    <2>1. ok /\ ~y.faulty /\ n = y.cur
      BY <1>3, <1>4
    <2>2. y.good = y.stored + y.queue + y.cur
      BY <1>1, <1>2, <2>1 DEF SessionOK
    <2>3. y.stored + y.queue + y.cur = (y.stored + y.cur) + y.queue + 0
      BY <1>2
    <2> QED BY <1>3, <1>4, <2>1, <2>2, <2>3
  <1>6. SessionOK(x)
    BY <1>1, <1>2, <1>3, <1>4, <1>5 DEF SessionOK
  <1> QED BY <1>1, <1>3, <1>4, <1>6, StatusTyped, WriteKeeps

\* The loop of a session is over for a failure, or for a channel that is closed and empty.
LEMMA LoopIsOver ==
  ASSUME ImportInv, NEW s \in Made, LoopOver(s)
  PROVE  /\ Writing(s)
         /\ ~session[s].faulty =>
              /\ session[s].closed /\ session[s].queue = 0 /\ Active(s)
              /\ session[s].good = session[s].stored + session[s].cur
  <1>1. Writing(s)
    BY DEF LoopOver, Start, Writing
  <1>2. /\ SessionOK(session[s]) /\ session[s].stored \in Nat /\ session[s].cur \in Nat
    BY <1>1, WritingRow
  <1>3. ASSUME ~session[s].faulty
        PROVE  session[s].closed /\ session[s].queue = 0 /\ Active(s) /\ session[s].start = "take"
    BY <1>1, <1>2, <1>3 DEF LoopOver, Start, SessionOK, Active
  <1>4. ASSUME ~session[s].faulty
        PROVE  session[s].good = session[s].stored + session[s].cur
    <2>1. session[s].good = session[s].stored + 0 + session[s].cur
      BY <1>2, <1>3, <1>4 DEF SessionOK
    <2>2. session[s].stored + 0 + session[s].cur = session[s].stored + session[s].cur
      BY <1>2
    <2> QED BY <2>1, <2>2
  <1> QED BY <1>1, <1>3, <1>4

\* What the last commit leaves: nothing to commit, or the rows that are left.
LEMMA LeftoverRow ==
  ASSUME ImportInv, NEW s \in Made, Writing(s), NEW ok \in BOOLEAN, NEW n,
         n = Leftover(session[s].cur), ~ok => n > 0, NEW c,
         c = IF n = 0 THEN session[s] ELSE Commit(session[s], ok)
  PROVE  \E m \in Nat :
         /\ m = Counted(n, ok) /\ c \in SessionRows
         /\ c.stored = session[s].stored + m /\ c.good = session[s].good
         /\ c.queue = session[s].queue /\ c.load = session[s].load /\ c.left = session[s].left
         /\ c.closed = session[s].closed /\ c.stopped = session[s].stopped
         /\ c.aborted = session[s].aborted /\ (session[s].faulty => c.faulty)
         /\ (ok => m = session[s].cur) /\ (~ok => c.faulty)
  <1>1. /\ session[s] \in SessionRows /\ session[s].stored \in Nat /\ session[s].cur \in Nat
    BY WritingRow
  <1>2. n = session[s].cur
    BY DEF Leftover
  <1>3. CASE n = 0
    <2>1. ok /\ c = session[s]
      BY <1>1, <1>2, <1>3
    <2>2. Counted(n, ok) = 0 /\ session[s].stored = session[s].stored + 0
      BY <1>1, <1>3, <2>1 DEF Counted
    <2> QED BY <1>1, <1>2, <1>3, <2>1, <2>2
  <1>4. CASE n # 0
    <2>1. c = Commit(session[s], ok)
      BY <1>4
    <2> QED BY <1>2, <2>1, CommittedRow
  <1> QED BY <1>3, <1>4

\* The end of a session: the rows that are left are committed and counted, and the status
\* says whether they were.
LEMMA EndStep ==
  ASSUME ImportInv, NEW s \in Made, NEW ok \in BOOLEAN, StartEnds(s, ok) PROVE ImportInv'
  <1> DEFINE y == session[s]
             n == Leftover(y.cur)
             c == IF n = 0 THEN y ELSE Commit(y, ok)
             x == [c EXCEPT !.start = "gone"]
  <1>1. /\ LoopOver(s) /\ (~ok => n > 0) /\ imported' = imported + Counted(n, ok)
        /\ UNCHANGED <<stop, passed, latest, raced, cleared>>
        /\ session' = [session EXCEPT ![s] = x] /\ status' \in Statuses
    BY DEF StartEnds, Ses, Statuses
  <1>2. /\ SessionOK(y) /\ y.queue \in Nat /\ y.good \in Nat /\ Writing(s)
        /\ y.stored \in Nat /\ y.cur \in Nat /\ y.load # "off"
    BY <1>1, LoopIsOver, WritingRow
  <1>3. PICK m \in Nat :
        /\ m = Counted(n, ok) /\ c \in SessionRows
        /\ c.stored = y.stored + m /\ c.good = y.good /\ c.queue = y.queue /\ c.load = y.load
        /\ c.left = y.left /\ c.closed = y.closed /\ c.stopped = y.stopped
        /\ c.aborted = y.aborted /\ (y.faulty => c.faulty) /\ (ok => m = y.cur)
        /\ (~ok => c.faulty)
    BY <1>1, <1>2, LeftoverRow
  <1> HIDE DEF c, n
  <1>4. /\ x \in SessionRows /\ x.stored = c.stored /\ x.good = c.good /\ x.queue = c.queue
        /\ x.load = c.load /\ x.left = c.left /\ x.closed = c.closed /\ x.stopped = c.stopped
        /\ x.aborted = c.aborted /\ x.faulty = c.faulty /\ x.start = "gone"
    BY <1>3 DEF SessionRows
  <1> HIDE DEF x
  <1>5. ASSUME ~x.faulty PROVE x.closed /\ x.queue = 0 /\ x.good = x.stored /\ Active(s)
    <2>1. ok /\ ~y.faulty /\ m = y.cur
      BY <1>3, <1>4, <1>5
    <2> QED BY <1>1, <1>3, <1>4, <2>1, LoopIsOver
  <1>6. SessionOK(x)
    BY <1>1, <1>2, <1>3, <1>4, <1>5 DEF SessionOK
  <1> QED BY <1>1, <1>2, <1>3, <1>4, <1>5, <1>6, StatusTyped, WriteKeeps

\* Each step of Start keeps the invariant.
LEMMA StartSteps == ASSUME ImportInv, NEW s \in Made, StartStep(s) PROVE ImportInv'
BY WriteStep, CommitStep, EndStep DEF StartStep

\* The importer starts with no session.
LEMMA ImportStarts == ASSUME ImportInit PROVE ImportInv
  <1> USE DEF ImportInit
  <1>1. ImportTypes
    BY Sessions DEF ImportTypes, Statuses
  <1>2. OneInv
    BY DEF OneInv, Active, Writing, Fresh
  <1>3. CountedInv
    BY DEF CountedInv
  <1> QED BY <1>1, <1>2, <1>3 DEF ImportInv

\* Each step of the importer keeps its invariant.
LEMMA ImportSteps == ASSUME ImportInv, ImportNext PROVE ImportInv'
BY PassStep, NewStep, StopSteps, LockedOutStep, LoadSteps, StartSteps DEF ImportNext

\* Nothing of the importer changes where none of its variables does.
LEMMA ImportRests == ASSUME ImportInv, UNCHANGED importVars PROVE ImportInv'
  <1> USE DEF importVars
  <1>1. ImportTypes' /\ CountedInv'
    BY DEF ImportInv, ImportTypes, CountedInv, LeftBehind, Writing
  <1>2. OneInv'
    BY DEF ImportInv, OneInv, Clean, Active, Writing, Loading, IsDone
  <1> QED BY <1>1, <1>2 DEF ImportInv

\* One session at a time: if none had a statement fail, only the newest is active.
LEMMA OneFromInv == ASSUME ImportInv PROVE OneImport
  <1> SUFFICES ASSUME ~raced /\ ~cleared /\ \A s \in Made : ~session[s].faulty
               PROVE  Cardinality({s \in Made : Running(s)}) <= 1
    BY DEF OneImport
  <1>1. {s \in Made : Running(s)} \subseteq {latest}
    BY DEF ImportInv, OneInv, Clean, Active, Running
  <1>2. IsFiniteSet({latest}) /\ Cardinality({latest}) = 1
    BY FS_Singleton
  <1>3. /\ Cardinality({s \in Made : Running(s)}) <= Cardinality({latest})
    BY <1>1, <1>2, FS_Subset
  <1> QED BY <1>2, <1>3

\* What is counted is what was committed, and all of it where nothing went wrong.
LEMMA CountsFromInv == ASSUME ImportInv PROVE ImportAccounts
  <1> SUFFICES ASSUME ~raced, ~cleared, latest # 0, ~LeftBehind
               PROVE  /\ imported \in {0, session[latest].stored}
                      /\ (session[latest].start # "gone" => imported = session[latest].stored)
                      /\ session[latest].start = "gone" /\ ~session[latest].stopped
                           /\ ~session[latest].faulty =>
                           session[latest].stored = session[latest].good /\ session[latest].left = 0
    BY Zenon DEF ImportAccounts
  <1>1. SessionOK(session[latest])
    BY DEF ImportInv, ImportTypes
  <1>2. /\ imported \in {0, session[latest].stored}
        /\ (session[latest].start # "gone" => imported = session[latest].stored)
    BY DEF ImportInv, CountedInv
  <1> QED BY <1>1, <1>2 DEF SessionOK

-----------------------------------------------------------------------------
(* The bounces: counting *)

\* The places of a message in a channel are finitely many.
LEMMA AtFinite ==
  ASSUME NEW q, Len(q) \in Nat, NEW m
  PROVE  IsFiniteSet(At(q, m)) /\ Cardinality(At(q, m)) \in Nat
  <1>1. IsFiniteSet(1..Len(q))
    BY FS_Interval
  <1>2. At(q, m) \subseteq 1..Len(q)
    BY DEF At
  <1>3. IsFiniteSet(At(q, m))
    BY <1>1, <1>2, FS_Subset
  <1> QED BY <1>3, FS_CardinalityType

\* No message is in an empty channel.
LEMMA AtEmpty == ASSUME NEW m PROVE At(<<>>, m) = {} /\ Cardinality(At(<<>>, m)) = 0
  <1>1. At(<<>>, m) = {}
    BY DEF At
  <1> QED BY <1>1, FS_EmptySet

\* What is put at the end of a channel is there once more.
LEMMA AtAppend ==
  ASSUME NEW S, NEW q \in Seq(S), NEW e \in S, NEW m
  PROVE  /\ At(q, m) \subseteq At(Append(q, e), m)
         /\ Cardinality(At(Append(q, e), m)) = Cardinality(At(q, m)) + IF e = m THEN 1 ELSE 0
         /\ e = m => At(Append(q, e), m) # {}
  <1> DEFINE r == Append(q, e)
             n == Len(q) + 1
  <1>1. /\ Len(q) \in Nat /\ Len(r) = n /\ r[n] = e /\ \A i \in 1..Len(q) : r[i] = q[i]
    BY AppendProperties, LenProperties
  <1>2. 1..n = 1..Len(q) \cup {n} /\ n \notin 1..Len(q)
    BY <1>1
  <1> HIDE DEF r, n
  <1>3. IsFiniteSet(At(q, m)) /\ Cardinality(At(q, m)) \in Nat
    BY <1>1, AtFinite
  <1>4. CASE e = m
    <2>1. At(r, m) = At(q, m) \cup {n} /\ n \notin At(q, m)
      BY <1>1, <1>2, <1>4 DEF At
    <2> QED BY <1>3, <1>4, <2>1, FS_AddElement DEF r
  <1>5. CASE e # m
    <2>1. At(r, m) = At(q, m)
      BY <1>1, <1>2, <1>5 DEF At
    <2> QED BY <1>3, <1>5, <2>1 DEF r
  <1> QED BY <1>4, <1>5

\* What is taken from the front of a channel is there once less.
LEMMA AtTail ==
  ASSUME NEW S, NEW q \in Seq(S), q # <<>>, NEW m
  PROVE  /\ Cardinality(At(q, m)) = Cardinality(At(Tail(q), m)) + IF Head(q) = m THEN 1 ELSE 0
         /\ At(q, m) # {} => Head(q) = m \/ At(Tail(q), m) # {}
  <1> DEFINE r == Tail(q)
             rest == At(q, m) \ {1}
             f == [i \in At(r, m) |-> i + 1]
  <1>1. /\ Len(q) \in Nat \ {0} /\ Len(r) = Len(q) - 1 /\ Head(q) = q[1]
        /\ \A i \in 1..Len(r) : r[i] = q[i + 1]
    BY HeadTailProperties, EmptySeq, LenProperties
  <1>2. 1 \in At(q, m) <=> Head(q) = m
    BY <1>1 DEF At
  <1> HIDE DEF r, rest, f
  <1>0. Len(r) \in Nat /\ Len(q) \in Nat
    BY <1>1
  <1>3. Len(r) \in Nat /\ IsFiniteSet(At(r, m)) /\ Cardinality(At(r, m)) \in Nat
        /\ IsFiniteSet(At(q, m)) /\ Cardinality(At(q, m)) \in Nat
    BY <1>0, AtFinite
  <1> USE DEF rest, f
  <1>4. \A i \in At(r, m) : i \in Nat /\ i + 1 \in rest
    BY <1>1, <1>3 DEF At
  <1>5. \A j \in rest : j - 1 \in At(r, m) /\ j = (j - 1) + 1
    BY <1>1, <1>3 DEF At
  <1>6. f \in Bijection(At(r, m), rest)
    <2>1. f \in [At(r, m) -> rest]
      BY <1>4
    <2>2. \A i, j \in At(r, m) : f[i] = f[j] => i = j
      BY <1>4
    <2>3. \A j \in rest : \E i \in At(r, m) : f[i] = j
      BY <1>5
    <2> HIDE DEF f, rest
    <2> QED BY <2>1, <2>2, <2>3 DEF Bijection, Injection, IsInjective, Surjection
  <1>7. Cardinality(rest) = Cardinality(At(r, m))
    BY <1>3, <1>6, FS_Bijection DEF ExistsBijection
  <1>8. Cardinality(rest) = IF 1 \in At(q, m) THEN Cardinality(At(q, m)) - 1
                            ELSE Cardinality(At(q, m))
    BY <1>3, FS_RemoveElement
  <1>9. Cardinality(At(q, m)) = Cardinality(At(r, m)) + IF Head(q) = m THEN 1 ELSE 0
    BY <1>2, <1>3, <1>7, <1>8
  <1>10. At(q, m) # {} => Head(q) = m \/ At(r, m) # {}
    BY <1>2, <1>5
  <1> QED BY <1>9, <1>10 DEF r

-----------------------------------------------------------------------------
(* The bounces: steps *)

\* The numbers of the places of a message.
LEMMA Places ==
  ASSUME BounceInv, NEW m \in Mails
  PROVE  /\ IsFiniteSet(Times(m)) /\ Cardinality(Times(m)) \in Nat
         /\ Cardinality(Queued(m)) \in Nat /\ InHand(m) \in {0, 1} /\ ToRead(m) \in {0, 1}
         /\ Cardinality(Times(m)) + Cardinality(Queued(m)) + InHand(m) + ToRead(m) <= 1 + breaks
         /\ breaks \in Nat
  <1>1. /\ IsFiniteSet(Times(m)) /\ breaks \in Nat
        /\ Cardinality(Times(m)) + Cardinality(Queued(m)) + InHand(m) + ToRead(m) <= 1 + breaks
    BY DEF BounceInv, CopiesInv, BounceTypes
  <1>2. Len(queue) \in Nat
    BY LenProperties DEF BounceInv, BounceTypes
  <1>3. Cardinality(Times(m)) \in Nat /\ Cardinality(Queued(m)) \in Nat
    BY <1>1, <1>2, FS_CardinalityType, AtFinite DEF Queued
  <1> QED BY <1>1, <1>3 DEF InHand, ToRead

\* A step that records nothing, takes nothing from the channel or the recorder's hands, and
\* neither reads nor deletes keeps the copies.
LEMMA CopiesRest ==
  ASSUME BounceInv, UNCHANGED <<recorded, rec.b, breaks>>, lost \subseteq lost',
         \A m \in Mails : /\ At(queue, m) = {} <=> At(queue', m) = {}
                          /\ Cardinality(At(queue', m)) = Cardinality(At(queue, m))
                          /\ box'[m] = "deleted" <=> box[m] = "deleted"
                          /\ Read(m)' <=> Read(m)
  PROVE  CopiesInv' /\ ReadInv'
  <1>1. \A m \in Mails : /\ Times(m)' = Times(m) /\ InHand(m)' = InHand(m)
                         /\ ToRead(m)' = ToRead(m)
                         /\ Cardinality(Queued(m)') = Cardinality(Queued(m))
                         /\ Queued(m) = {} <=> Queued(m)' = {}
    BY DEF Times, InHand, ToRead, Queued
  <1>2. CopiesInv'
    BY <1>1 DEF BounceInv, CopiesInv
  <1>3. ReadInv'
    BY <1>1 DEF BounceInv, ReadInv, Accounted
  <1> QED BY <1>2, <1>3

\* A message arrives: it is yet to be read.
LEMMA ArrivesStep == ASSUME BounceInv, NEW m \in Mails, Arrives(m) PROVE BounceInv'
  <1>1. /\ box' = [box EXCEPT ![m] = "there"] /\ box[m] = "coming"
        /\ UNCHANGED <<scan, queue, hook, rec, has, active, recorded, lost, moved, breaks>>
    BY DEF Arrives
  <1>2. box \in [Mails -> {"coming", "there", "deleted"}] /\ IsFiniteSet(OnServer)
    BY DEF BounceInv, ScanInv
  <1>3. box' \in [Mails -> {"coming", "there", "deleted"}]
    BY <1>1, <1>2
  <1>4. OnServer' = OnServer \cup {m}
    BY <1>1, <1>2 DEF OnServer
  <1>5. IsFiniteSet(OnServer')
    BY <1>2, <1>4, FS_AddElement
  <1>6. ASSUME scan.pc # "idle" PROVE scan.seen \in Seq(OnServer')
    BY <1>4, <1>6, SeqMonotonic DEF BounceInv, ScanInv
  <1>7. ScanInv'
    BY <1>1, <1>3, <1>5, <1>6 DEF BounceInv, ScanInv
  <1>8. CopiesInv' /\ ReadInv'
    <2>1. \A k \in Mails : box'[k] = "deleted" <=> box[k] = "deleted"
      BY <1>1, <1>2
    <2>2. \A k \in Mails : Read(k)' <=> Read(k)
      BY <1>1 DEF Read
    <2> QED BY <1>1, <2>1, <2>2, CopiesRest
  <1>9. BounceTypes' /\ AskedInv'
    BY <1>1 DEF BounceInv, BounceTypes, AskedInv, Asked, Owns
  <1> QED BY <1>7, <1>8, <1>9 DEF BounceInv

\* A scan begins: it numbers what is there, each message once, and has read nothing.
LEMMA ScanStep == ASSUME BounceInv, Scan PROVE BounceInv'
  <1>1. /\ scan.pc = "idle" /\ \E seen \in SetToSeqs(OnServer) : scan' = [pc |-> "read", seen |-> seen, i |-> 1]
        /\ UNCHANGED <<box, queue, hook, rec, has, active, recorded, lost, moved, breaks>>
    BY DEF Scan, OnServer
  <1>2. PICK seen \in SetToSeqs(OnServer) : scan' = [pc |-> "read", seen |-> seen, i |-> 1]
    BY <1>1
  <1>3. Cardinality(OnServer) \in Nat /\ IsFiniteSet(OnServer)
    BY FS_CardinalityType DEF BounceInv, ScanInv
  <1>4. /\ seen \in [1..Cardinality(OnServer) -> OnServer]
        /\ \A j, k \in 1..Cardinality(OnServer) : j # k => seen[j] # seen[k]
    BY DEF SetToSeqs
  <1>5. seen \in Seq(OnServer) /\ Len(seen) = Cardinality(OnServer)
    BY <1>3, <1>4
  <1>6. /\ scan'.seen = seen /\ scan'.i = 1 /\ scan'.pc = "read"
    BY <1>2
  <1>7. scan'.i \in 1..Limit + 1 /\ scan'.i <= Len(scan'.seen) + 1
    BY <1>3, <1>5, <1>6, BouncesAssumption
  <1>8. OnServer' = OnServer
    BY <1>1 DEF OnServer
  <1>9. ScanInv'
    <2>1. seen \in Seq(Mails)
      BY <1>5, SeqMonotonic DEF OnServer
    <2>2. scan' \in [pc : {"idle", "read", "hung"}, seen : Seq(Mails), i : Nat]
      BY <1>2, <2>1
    <2> QED BY <1>1, <1>3, <1>4, <1>5, <1>6, <1>7, <1>8, <2>2 DEF BounceInv, ScanInv
  <1>10. CopiesInv' /\ ReadInv'
    <2>1. \A m \in Mails : ~Read(m) /\ ~Read(m)'
      BY <1>1, <1>6 DEF Read
    <2> QED BY <1>1, <2>1, CopiesRest
  <1>11. BounceTypes' /\ AskedInv'
    BY <1>1 DEF BounceInv, BounceTypes, AskedInv, Asked, Owns
  <1> QED BY <1>9, <1>10, <1>11 DEF BounceInv

\* The scanner reads a message: it goes into the channel or is lost, and is not read again.
LEMMA ReadsStep ==
  ASSUME BounceInv, NEW readable \in BOOLEAN, ScanReads(readable) PROVE BounceInv'
  <1> DEFINE m == scan.seen[scan.i]
             sent == readable /\ Len(queue) < Cap
  <1>1. /\ scan.pc = "read" /\ scan.i <= Limit /\ scan.i <= Len(scan.seen)
        /\ queue' = IF sent THEN Append(queue, m) ELSE queue
        /\ lost' = IF sent THEN lost ELSE lost \cup {m}
        /\ scan' = [scan EXCEPT !.i = @ + 1]
        /\ UNCHANGED <<box, hook, rec, has, active, recorded, moved, breaks>>
    BY Zenon DEF ScanReads
  <1>2. /\ scan.seen \in Seq(OnServer) /\ scan.i \in 1..Limit + 1
        /\ \A j, k \in 1..Len(scan.seen) : scan.seen[j] = scan.seen[k] => j = k
    BY <1>1 DEF BounceInv, ScanInv
  <1>3. Len(scan.seen) \in Nat /\ Limit \in Nat /\ scan.i \in Nat /\ scan.i \in 1..Len(scan.seen)
    BY <1>1, <1>2, LenProperties, BouncesAssumption
  <1>4. m \in OnServer /\ m \in Mails /\ box[m] = "there"
    BY <1>2, <1>3, ElementOfSeq DEF OnServer
  <1>5. queue \in Seq(Bounced) /\ m \in Bounced
    BY <1>4 DEF BounceInv, BounceTypes, Bounced
  <1>6. /\ scan'.pc = "read" /\ scan'.seen = scan.seen /\ scan'.i = scan.i + 1
        /\ scan' \in [pc : {"idle", "read", "hung"}, seen : Seq(Mails), i : Nat]
    <2>1. scan' = [scan EXCEPT !.i = scan.i + 1]
      BY <1>1
    <2>2. scan \in [pc : {"idle", "read", "hung"}, seen : Seq(Mails), i : Nat] /\ scan.i + 1 \in Nat
      BY <1>3 DEF BounceInv, ScanInv
    <2> QED BY <1>1, <2>1, <2>2
  <1>7. OnServer' = OnServer
    BY <1>1 DEF OnServer
  <1>8. ScanInv'
    <2>1. scan'.i \in 1..Limit + 1 /\ scan'.i <= Len(scan'.seen) + 1
      BY <1>1, <1>3, <1>6
    <2> QED BY <1>1, <1>2, <1>6, <1>7, <2>1 DEF BounceInv, ScanInv
  <1>9. queue' \in Seq(Bounced)
    BY <1>1, <1>5, AppendProperties
  <1>10. BounceTypes' /\ AskedInv'
    BY <1>1, <1>9 DEF BounceInv, BounceTypes, AskedInv, Asked, Owns
  <1>11. ~Read(m) /\ \A k \in Mails : Read(k)' <=> Read(k) \/ k = m
    <2>1. ~Read(m)
      BY <1>2, <1>3 DEF Read
    <2>2. \A j \in 1..Len(scan.seen) : j < scan.i + 1 <=> j < scan.i \/ j = scan.i
      BY <1>3
    <2>3. \A k \in Mails : Read(k)' <=> Read(k) \/ k = m
      BY <1>1, <1>3, <1>6, <2>2 DEF Read
    <2> QED BY <2>1, <2>3
  <1> HIDE DEF m, sent
  <1>12. \A k \in Mails :
           /\ Times(k)' = Times(k) /\ InHand(k)' = InHand(k)
           /\ ToRead(k)' = IF k = m THEN 0 ELSE ToRead(k)
           /\ k = m => ToRead(k) = 1
    BY <1>1, <1>4, <1>11 DEF Times, InHand, ToRead
  <1>13. \A k \in Mails :
           /\ Queued(k) \subseteq Queued(k)'
           /\ Cardinality(Queued(k)') = Cardinality(Queued(k)) + (IF sent /\ m = k THEN 1 ELSE 0)
           /\ sent /\ m = k => Queued(k)' # {}
    <2>1. CASE sent
      BY <1>1, <1>5, <2>1, AtAppend DEF Queued
    <2>2. CASE ~sent
      BY <1>1, <2>2, Places DEF Queued
    <2> QED BY <2>1, <2>2
  <1>14. CopiesInv'
    <2> SUFFICES ASSUME NEW k \in Mails
                 PROVE  /\ IsFiniteSet(Times(k)')
                        /\ Cardinality(Times(k)') + Cardinality(Queued(k)') + InHand(k)' + ToRead(k)'
                             <= 1 + breaks'
      BY DEF CopiesInv
    <2> QED BY <1>1, <1>12, <1>13, Places
  <1>15. ReadInv'
    <2> SUFFICES ASSUME NEW k \in Mails, box'[k] = "deleted" \/ Read(k)'
                 PROVE  Accounted(k)'
      BY DEF ReadInv
    <2>1. CASE k = m
      BY <1>1, <1>13, <2>1 DEF Accounted
    <2>2. CASE k # m
      <3>1. Accounted(k)
        BY <1>1, <1>11, <2>2 DEF BounceInv, ReadInv
      <3> QED BY <1>1, <1>12, <1>13, <3>1 DEF Accounted
    <2> QED BY <2>1, <2>2
  <1> QED BY <1>8, <1>10, <1>14, <1>15 DEF BounceInv

\* The scanner hangs: it has read what it had.
LEMMA HangsStep == ASSUME BounceInv, ScanHangs PROVE BounceInv'
  <1>1. /\ scan.pc = "read" /\ scan' = [scan EXCEPT !.pc = "hung"]
        /\ UNCHANGED <<box, queue, hook, rec, has, active, recorded, lost, moved, breaks>>
    BY DEF ScanHangs
  <1>2. scan \in [pc : {"idle", "read", "hung"}, seen : Seq(Mails), i : Nat]
    BY DEF BounceInv, ScanInv
  <1>3. /\ scan'.pc = "hung" /\ scan'.seen = scan.seen /\ scan'.i = scan.i
        /\ scan' \in [pc : {"idle", "read", "hung"}, seen : Seq(Mails), i : Nat]
    BY <1>1, <1>2
  <1>4. OnServer' = OnServer
    BY <1>1 DEF OnServer
  <1>5. ScanInv'
    BY <1>1, <1>3, <1>4 DEF BounceInv, ScanInv
  <1>6. BounceTypes' /\ AskedInv'
    BY <1>1 DEF BounceInv, BounceTypes, AskedInv, Asked, Owns
  <1>7. CopiesInv' /\ ReadInv'
    BY <1>1, <1>3, CopiesRest DEF Read
  <1> QED BY <1>5, <1>6, <1>7 DEF BounceInv

\* The connection quits or breaks off: what is deleted was read, and if all that was counted
\* is deleted, so is all that was read.
LEMMA DeletesStep ==
  ASSUME BounceInv, NEW upto \in 0..Len(scan.seen), ScanDeletes(upto) PROVE BounceInv'
  <1>1. /\ scan.pc = "read" /\ (scan.i > Limit \/ scan.i > Len(scan.seen))
        /\ upto <= Count(scan.seen)
        /\ box' = [m \in Mails |-> IF \E i \in 1..upto : scan.seen[i] = m THEN "deleted" ELSE box[m]]
        /\ scan' = NoScan
        /\ breaks' = breaks \/ (upto # Count(scan.seen) /\ breaks' = breaks + 1)
        /\ breaks' = breaks => upto = Count(scan.seen)
        /\ UNCHANGED <<queue, hook, rec, has, active, recorded, lost, moved>>
    <2>1. breaks \in Nat
      BY DEF BounceInv, BounceTypes
    <2>2. CASE upto = Count(scan.seen)
      BY <2>2 DEF ScanDeletes
    <2>3. CASE upto # Count(scan.seen)
      BY <2>1, <2>3 DEF ScanDeletes, Break
    <2> QED BY <2>2, <2>3
  <1>2. /\ scan.seen \in Seq(OnServer) /\ scan.i \in 1..Limit + 1 /\ scan.i <= Len(scan.seen) + 1
    BY <1>1 DEF BounceInv, ScanInv
  <1>3. Len(scan.seen) \in Nat /\ Limit \in Nat /\ scan.i \in Nat /\ upto \in Nat
    BY <1>2, LenProperties, BouncesAssumption
  <1>4. \A j \in 1..upto : j \in 1..Len(scan.seen) /\ j < scan.i
    BY <1>1, <1>2, <1>3 DEF Count
  <1>5. upto = Count(scan.seen) => \A j \in 1..Len(scan.seen) : j < scan.i => j \in 1..upto
    BY <1>1, <1>2, <1>3 DEF Count
  <1>6. \A m \in Mails : /\ box'[m] = "deleted" => box[m] = "deleted" \/ Read(m)
                         /\ box[m] = "deleted" => box'[m] = "deleted"
                         /\ breaks' = breaks /\ Read(m) => box'[m] = "deleted"
    BY <1>1, <1>4, <1>5 DEF Read
  <1>7. \A m \in Mails : ~Read(m)'
    BY <1>1 DEF Read, NoScan
  <1>8. ScanInv'
    <2>1. box \in [Mails -> {"coming", "there", "deleted"}] /\ IsFiniteSet(OnServer)
      BY DEF BounceInv, ScanInv
    <2>2. box' \in [Mails -> {"coming", "there", "deleted"}]
      BY <1>1, <2>1
    <2>3. OnServer' \subseteq OnServer
      BY <1>1, <2>1 DEF OnServer
    <2>4. IsFiniteSet(OnServer')
      BY <2>1, <2>3, FS_Subset
    <2>5. NoScan.pc = "idle" /\ NoScan \in [pc : {"idle", "read", "hung"}, seen : Seq(Mails), i : Nat]
      BY EmptySeq DEF NoScan
    <2> QED BY <1>1, <2>2, <2>4, <2>5 DEF ScanInv
  <1>9. BounceTypes' /\ AskedInv'
    <2>1. breaks' \in Nat
      BY <1>1 DEF BounceInv, BounceTypes
    <2> QED BY <1>1, <2>1 DEF BounceInv, BounceTypes, AskedInv, Asked, Owns
  <1>10. \A m \in Mails : /\ Times(m)' = Times(m) /\ InHand(m)' = InHand(m)
                          /\ Queued(m)' = Queued(m) /\ ToRead(m)' \in {0, 1}
                          /\ breaks' = breaks /\ ToRead(m)' = 1 => ToRead(m) = 1
    BY <1>1, <1>6, <1>7 DEF Times, InHand, Queued, ToRead
  <1>11. CopiesInv'
    <2> SUFFICES ASSUME NEW m \in Mails
                 PROVE  /\ IsFiniteSet(Times(m)')
                        /\ Cardinality(Times(m)') + Cardinality(Queued(m)') + InHand(m)' + ToRead(m)'
                             <= 1 + breaks'
      BY DEF CopiesInv
    <2>1. CASE breaks' = breaks
      BY <1>10, <2>1, Places
    <2>2. CASE breaks' # breaks
      BY <1>1, <1>10, <2>2, Places
    <2> QED BY <2>1, <2>2
  <1>12. ReadInv'
    <2> SUFFICES ASSUME NEW m \in Mails, box'[m] = "deleted"
                 PROVE  Accounted(m)'
      BY <1>7 DEF ReadInv
    <2>1. Accounted(m)
      BY <1>6 DEF BounceInv, ReadInv
    <2> QED BY <1>1, <1>10, <2>1 DEF Accounted
  <1> QED BY <1>8, <1>9, <1>11, <1>12 DEF BounceInv

\* A request to a webhook leaves events for the channel, by their place in the body.
LEMMA WebhookStep ==
  ASSUME BounceInv, NEW w \in Handlers, NEW body \in Bodies, BounceWebhook(w, body)
  PROVE  BounceInv'
  <1>1. UNCHANGED <<box, scan, queue, rec, has, active, recorded, lost, moved, breaks>>
    BY DEF BounceWebhook
  <1>2. body \in Seq([b : Events, kind : {"hard", "soft", "complaint", "other"}])
    BY BouncesAssumption
  <1>3. DOMAIN body \subseteq Nat /\ \A i \in DOMAIN body : body[i].b \in Events
    <2>1. /\ DOMAIN body = 1..Len(body) /\ Len(body) \in Nat
          /\ body \in [1..Len(body) -> [b : Events, kind : {"hard", "soft", "complaint", "other"}]]
      BY <1>2, LenProperties
    <2> QED BY <2>1
  <1>4. PICK out : out \subseteq DOMAIN body /\ hook' = [hook EXCEPT ![w] = [i \in out |-> body[i].b]]
    BY DEF BounceWebhook, SES, Azure, Sendgrid, Postmark, ForwardEmail, Lettermint, Native, Single
  <1>5. [i \in out |-> body[i].b] \in Hooks
    <2>1. [i \in out |-> body[i].b] \in [out -> Events] /\ out \in SUBSET Nat
      BY <1>3, <1>4
    <2> QED BY <2>1 DEF Hooks
  <1>6. hook' \in [Handlers -> Hooks]
    BY <1>4, <1>5 DEF BounceInv, BounceTypes
  <1>7. BounceTypes' /\ AskedInv'
    BY <1>1, <1>6 DEF BounceInv, BounceTypes, AskedInv, Asked, Owns
  <1>8. ScanInv'
    BY <1>1 DEF BounceInv, ScanInv, OnServer
  <1>9. CopiesInv' /\ ReadInv'
    BY <1>1, CopiesRest DEF Read
  <1> QED BY <1>7, <1>8, <1>9 DEF BounceInv

\* A webhook puts an event into the channel, which is no message of the mailbox.
LEMMA RecordStep == ASSUME BounceInv, NEW w \in Handlers, Record(w) PROVE BounceInv'
  <1>1. UNCHANGED <<box, scan, rec, has, active, recorded, lost, moved, breaks>>
    BY DEF Record
  <1>2. PICK i \in DOMAIN hook[w] :
          /\ queue' = Append(queue, hook[w][i])
          /\ hook' = [hook EXCEPT ![w] = Restrict(hook[w], DOMAIN hook[w] \ {i})]
    BY DEF Record
  <1>3. PICK I \in SUBSET Nat : hook[w] \in [I -> Events]
    BY DEF BounceInv, BounceTypes, Hooks
  <1>4. hook[w][i] \in Events /\ hook[w][i] \in Bounced /\ hook[w][i] \notin Mails
    BY <1>2, <1>3, BouncesAssumption DEF Bounced
  <1>5. Restrict(hook[w], DOMAIN hook[w] \ {i}) \in Hooks
    <2>1. /\ Restrict(hook[w], DOMAIN hook[w] \ {i}) \in [I \ {i} -> Events]
          /\ I \ {i} \in SUBSET Nat
      BY <1>3 DEF Restrict
    <2> QED BY <2>1 DEF Hooks
  <1>6. hook' \in [Handlers -> Hooks]
    BY <1>2, <1>5 DEF BounceInv, BounceTypes
  <1>7. queue \in Seq(Bounced)
    BY DEF BounceInv, BounceTypes
  <1>8. queue' \in Seq(Bounced)
    BY <1>2, <1>4, <1>7, AppendProperties
  <1>9. BounceTypes' /\ AskedInv'
    BY <1>1, <1>6, <1>8 DEF BounceInv, BounceTypes, AskedInv, Asked, Owns
  <1>10. ScanInv'
    BY <1>1 DEF BounceInv, ScanInv, OnServer
  <1>11. \A m \in Mails : /\ At(queue, m) = {} <=> At(queue', m) = {}
                          /\ Cardinality(At(queue', m)) = Cardinality(At(queue, m))
    <2> TAKE m \in Mails
    <2>1. hook[w][i] # m
      BY <1>4
    <2>2. /\ Len(queue) \in Nat /\ Len(queue') = Len(queue) + 1
          /\ queue'[Len(queue) + 1] = hook[w][i]
          /\ \A j \in 1..Len(queue) : queue'[j] = queue[j]
      BY <1>2, <1>4, <1>7, AppendProperties, LenProperties
    <2>3. 1..Len(queue') = 1..Len(queue) \cup {Len(queue) + 1}
      BY <2>2
    <2>4. At(queue', m) = At(queue, m)
      BY <2>1, <2>2, <2>3 DEF At
    <2> QED BY <2>4
  <1>12. CopiesInv' /\ ReadInv'
    BY <1>1, <1>11, CopiesRest DEF Read
  <1> QED BY <1>9, <1>10, <1>12 DEF BounceInv

\* The recorder takes a bounce out of the channel, and has asked no tenant yet.
LEMMA RunStep == ASSUME BounceInv, Run PROVE BounceInv'
  <1>1. /\ rec.pc = "idle" /\ queue # <<>> /\ queue' = Tail(queue)
        /\ rec' = [pc |-> "look", b |-> {Head(queue)}, todo |-> active \cup {Default}, matches |-> {}]
        /\ moved' = FALSE
        /\ UNCHANGED <<box, scan, hook, has, active, recorded, lost, breaks>>
    BY DEF Run
  <1>2. /\ queue \in Seq(Bounced) /\ rec = NoRec /\ active \subseteq Tenants
        /\ Default \in Tenants
    BY <1>1, BouncesAssumption DEF BounceInv, BounceTypes
  <1>3. queue' \in Seq(Bounced) /\ Head(queue) \in Bounced
    BY <1>1, <1>2, HeadTailProperties
  <1>4. rec' \in Recs /\ IsFiniteSet(rec'.matches)
    BY <1>1, <1>2, <1>3, FS_EmptySet DEF Recs
  <1>5. /\ rec'.pc = "look" /\ rec'.b = {Head(queue)} /\ rec'.todo = active \cup {Default}
        /\ rec'.matches = {}
    BY <1>1
  <1>6. BounceTypes'
    BY <1>1, <1>3, <1>4, <1>5 DEF BounceInv, BounceTypes
  <1>7. AskedInv'
    BY <1>1, <1>5 DEF AskedInv
  <1>8. ScanInv'
    BY <1>1 DEF BounceInv, ScanInv, OnServer
  <1>9. \A m \in Mails :
          /\ Times(m)' = Times(m) /\ ToRead(m)' = ToRead(m)
          /\ InHand(m) = 0 /\ InHand(m)' = IF Head(queue) = m THEN 1 ELSE 0
    BY <1>1, <1>2, <1>5 DEF Times, ToRead, Read, InHand, NoRec
  <1>10. \A m \in Mails :
          /\ Cardinality(Queued(m)) = Cardinality(Queued(m)') + (IF Head(queue) = m THEN 1 ELSE 0)
          /\ Queued(m) # {} => Head(queue) = m \/ Queued(m)' # {}
          /\ Cardinality(Queued(m)') \in Nat
    <2>1. Len(queue') \in Nat
      BY <1>3, LenProperties
    <2> QED BY <1>1, <1>2, <2>1, AtTail, AtFinite DEF Queued
  <1>11. CopiesInv'
    <2> SUFFICES ASSUME NEW m \in Mails
                 PROVE  /\ IsFiniteSet(Times(m)')
                        /\ Cardinality(Times(m)') + Cardinality(Queued(m)') + InHand(m)' + ToRead(m)'
                             <= 1 + breaks'
      BY DEF CopiesInv
    <2> QED BY <1>1, <1>9, <1>10, Places
  <1>12. ReadInv'
    <2> SUFFICES ASSUME NEW m \in Mails, box'[m] = "deleted" \/ Read(m)'
                 PROVE  Accounted(m)'
      BY DEF ReadInv
    <2>1. Accounted(m)
      BY <1>1 DEF BounceInv, ReadInv, Read
    <2>2. rec.b # {m}
      BY <1>2 DEF NoRec
    <2> QED BY <1>1, <1>5, <1>9, <1>10, <2>1, <2>2 DEF Accounted
  <1> QED BY <1>6, <1>7, <1>8, <1>11, <1>12 DEF BounceInv

\* The recorder asks a tenant: what it found are the tenants asked that have the contact.
LEMMA AskStep ==
  ASSUME BounceInv, NEW t \in Tenants, ResolveBounceTenant(t) PROVE BounceInv'
  <1>1. /\ rec.pc = "look" /\ t \in rec.todo
        /\ rec' = [rec EXCEPT !.todo = rec.todo \ {t},
                              !.matches = IF Owns(t, Asked) THEN rec.matches \cup {t}
                                          ELSE rec.matches]
        /\ UNCHANGED <<box, scan, queue, hook, has, active, recorded, lost, moved, breaks>>
    BY DEF ResolveBounceTenant
  <1>2. rec \in Recs /\ IsFiniteSet(rec.matches)
    BY DEF BounceInv, BounceTypes
  <1>3. /\ rec'.pc = "look" /\ rec'.b = rec.b /\ rec'.todo = rec.todo \ {t}
        /\ rec'.matches = (IF Owns(t, Asked) THEN rec.matches \cup {t} ELSE rec.matches)
        /\ rec' \in Recs
    BY <1>1, <1>2 DEF Recs
  <1>4. IsFiniteSet(rec'.matches)
    <2>1. IsFiniteSet(rec.matches \cup {t})
      BY <1>2, FS_AddElement
    <2> QED BY <1>2, <1>3, <2>1
  <1>5. BounceTypes'
    BY <1>1, <1>3, <1>4 DEF BounceInv, BounceTypes
  <1>6. \A u \in active \cup {Default} : Owns(u, Asked)' <=> Owns(u, Asked)
    BY <1>1, <1>3 DEF Asked, Owns
  <1>7. AskedInv'
    <2> SUFFICES ASSUME ~moved
                 PROVE  /\ rec'.todo \subseteq active \cup {Default}
                        /\ rec'.matches = {u \in (active \cup {Default}) \ rec'.todo : Owns(u, Asked)}
      <3>1. {u \in (active \cup {Default}) \ rec'.todo : Owns(u, Asked)}
              = {u \in (active' \cup {Default}) \ rec'.todo : Owns(u, Asked)'}
        BY <1>1, <1>6
      <3> QED BY <1>1, <3>1 DEF AskedInv
    <2>1. /\ rec.todo \subseteq active \cup {Default}
          /\ rec.matches = {u \in (active \cup {Default}) \ rec.todo : Owns(u, Asked)}
      BY <1>1 DEF BounceInv, AskedInv
    <2> QED BY <1>1, <1>3, <2>1
  <1>8. ScanInv'
    BY <1>1 DEF BounceInv, ScanInv, OnServer
  <1>9. CopiesInv' /\ ReadInv'
    BY <1>1, <1>3, CopiesRest DEF Read
  <1> QED BY <1>5, <1>7, <1>8, <1>9 DEF BounceInv

\* A request that left nothing.
LEMMA NoHooks == [w \in Handlers |-> <<>>] \in [Handlers -> Hooks]
  <1>1. <<>> \in [{} -> Events]
    <2>1. <<>> \in Seq(Events) /\ Len(<<>>) = 0
      BY EmptySeq
    <2>2. <<>> \in [1..0 -> Events] /\ 1..0 = {}
      BY <2>1, LenProperties
    <2> QED BY <2>2
  <1>2. <<>> \in Hooks
    BY <1>1 DEF Hooks
  <1> QED BY <1>2

\* The end of a recording: with the one tenant that matched, once; or not, after an error or
\* without one, and then the bounce is left out.
LEMMA Recorded ==
  ASSUME BounceInv, RecordBounceCB \/ RecordFails
  PROVE  /\ rec' = NoRec
         /\ \E b \in Bounced :
              /\ rec.b = {b} /\ Asked = b
              /\ \/ recorded' = recorded /\ (b \in Mails => lost' = lost \cup {b})
                    /\ lost \subseteq lost'
                 \/ \E t \in Tenants :
                      /\ recorded' = [recorded EXCEPT ![b][t] = @ + 1]
                      /\ rec.matches = {t} /\ lost' = lost
  <1> DEFINE b == Asked
             t == CHOOSE u \in Tenants : u \in rec.matches
             there == Matched(rec.matches) /\ Names[b] \cap Contacts \cap has[t] # {}
  <1>1. /\ rec.pc = "look" /\ rec' = NoRec
        /\ \/ /\ recorded' = IF there THEN [recorded EXCEPT ![b][t] = @ + 1] ELSE recorded
              /\ lost' = IF there THEN lost ELSE lost \cup (rec.b \cap Mails)
           \/ recorded' = recorded /\ lost' = lost \cup (rec.b \cap Mails)
    BY Zenon DEF RecordBounceCB, RecordFails, AfterError, NoRec
  <1>3. b \in Bounced /\ rec.b = {b}
    BY <1>1 DEF BounceInv, BounceTypes, Asked
  <1>4. Matched(rec.matches) => t \in Tenants /\ rec.matches = {t}
    <2> SUFFICES ASSUME Matched(rec.matches) PROVE t \in Tenants /\ rec.matches = {t}
      OBVIOUS
    <2>1. PICK u : rec.matches = {u}
      BY FS_Singleton DEF BounceInv, BounceTypes, Matched
    <2>2. u \in Tenants
      BY <2>1 DEF BounceInv, BounceTypes, Recs
    <2> QED BY <2>1, <2>2
  <1> HIDE DEF b, t
  <1>5. CASE recorded' = [recorded EXCEPT ![b][t] = @ + 1] /\ lost' = lost /\ there
    BY <1>1, <1>3, <1>4, <1>5 DEF b
  <1>6. CASE recorded' = recorded /\ lost' = lost \cup (rec.b \cap Mails)
    BY <1>1, <1>3, <1>6 DEF b
  <1> QED BY <1>1, <1>5, <1>6

\* A record more is one place more, and no other bounce has one more.
LEMMA TimesAfter ==
  ASSUME BounceInv, NEW m \in Mails, NEW b \in Bounced, NEW t \in Tenants,
         recorded' = [recorded EXCEPT ![b][t] = @ + 1]
  PROVE  /\ m # b => Times(m)' = Times(m)
         /\ m = b => /\ IsFiniteSet(Times(m)') /\ Times(m)' # {}
                     /\ Cardinality(Times(m)') <= Cardinality(Times(m)) + 1
  <1>1. recorded \in [Bounced -> [Tenants -> Nat]] /\ IsFiniteSet(Times(m))
    BY DEF BounceInv, BounceTypes, CopiesInv
  <1>2. /\ \A c \in Bounced \ {b} : recorded'[c] = recorded[c]
        /\ \A u \in Tenants : recorded'[b][u] = IF u = t THEN recorded[b][t] + 1 ELSE recorded[b][u]
        /\ recorded[b][t] \in Nat
    BY <1>1
  <1>3. m # b => Times(m)' = Times(m)
    BY <1>2 DEF Times, Bounced
  <1>4. ASSUME m = b
        PROVE  /\ IsFiniteSet(Times(m)') /\ Times(m)' # {}
               /\ Cardinality(Times(m)') <= Cardinality(Times(m)) + 1
    <2> DEFINE n == recorded[b][t] + 1
               more == Times(m) \cup {<<t, n>>}
    <2>1. Times(m)' \subseteq more
      <3> SUFFICES ASSUME NEW tn \in Tenants \X (1..Upsets + 2), tn[2] <= recorded'[b][tn[1]],
                          tn # <<t, n>>
                   PROVE  tn[2] <= recorded[b][tn[1]]
        BY <1>4 DEF Times
      <3>1. /\ tn[1] \in Tenants /\ tn[2] \in 1..Upsets + 2 /\ tn = <<tn[1], tn[2]>>
            /\ tn[2] \in Int
        BY BouncesAssumption
      <3>2. CASE tn[1] = t
        <4>1. tn[2] <= n /\ tn[2] # n
          BY <1>2, <3>1, <3>2
        <4> QED BY <1>2, <3>1, <3>2, <4>1
      <3>3. CASE tn[1] # t
        BY <1>2, <3>1, <3>3
      <3> QED BY <3>2, <3>3
    <2>2. <<t, 1>> \in Times(m)'
      <3>1. 1 \in 1..Upsets + 2 /\ 1 <= recorded'[b][t]
        BY <1>2, BouncesAssumption
      <3> QED BY <1>4, <3>1 DEF Times
    <2>3. IsFiniteSet(more) /\ Cardinality(more) <= Cardinality(Times(m)) + 1
      <3>1. Cardinality(Times(m)) \in Nat
        BY <1>1, FS_CardinalityType
      <3>2. /\ IsFiniteSet(more)
            /\ Cardinality(more) = IF <<t, n>> \in Times(m) THEN Cardinality(Times(m))
                                   ELSE Cardinality(Times(m)) + 1
        BY <1>1, FS_AddElement
      <3> QED BY <3>1, <3>2
    <2> HIDE DEF more
    <2>4. IsFiniteSet(Times(m)') /\ Cardinality(Times(m)') <= Cardinality(more)
      BY <2>1, <2>3, FS_Subset
    <2>5. /\ Cardinality(Times(m)') \in Nat /\ Cardinality(more) \in Nat
          /\ Cardinality(Times(m)) \in Nat
      BY <1>1, <2>3, <2>4, FS_CardinalityType
    <2> QED BY <2>2, <2>3, <2>4, <2>5
  <1> QED BY <1>3, <1>4

\* The recorder is done with a bounce: one record more, and it is out of its hands.
LEMMA RecordBounceStep ==
  ASSUME BounceInv, RecordBounceCB \/ RecordFails PROVE BounceInv'
  <1>1. UNCHANGED <<box, scan, queue, hook, has, active, moved, breaks>>
    BY DEF RecordBounceCB, RecordFails
  <1>2. PICK b \in Bounced :
              /\ rec.b = {b}
              /\ \/ recorded' = recorded /\ (b \in Mails => lost' = lost \cup {b})
                    /\ lost \subseteq lost'
                 \/ \E t \in Tenants :
                      /\ recorded' = [recorded EXCEPT ![b][t] = @ + 1]
                      /\ rec.matches = {t} /\ lost' = lost
    BY Recorded
  <1>3. rec' = NoRec /\ rec'.pc = "idle" /\ rec'.b = {} /\ rec'.matches = {} /\ rec' \in Recs
    BY Recorded DEF NoRec, Recs
  <1>4. recorded' \in [Bounced -> [Tenants -> Nat]]
    <2>1. recorded \in [Bounced -> [Tenants -> Nat]]
      BY DEF BounceInv, BounceTypes
    <2>2. ASSUME NEW t \in Tenants, recorded' = [recorded EXCEPT ![b][t] = @ + 1]
          PROVE  recorded' \in [Bounced -> [Tenants -> Nat]]
      BY <2>1, <2>2
    <2> QED BY <1>2, <2>1, <2>2
  <1>5. BounceTypes' /\ AskedInv'
    BY <1>1, <1>3, <1>4, FS_EmptySet DEF BounceInv, BounceTypes, AskedInv
  <1>6. ScanInv'
    BY <1>1 DEF BounceInv, ScanInv, OnServer
  <1>7. \A m \in Mails :
          /\ InHand(m) = (IF m = b THEN 1 ELSE 0) /\ InHand(m)' = 0
          /\ ToRead(m)' = ToRead(m) /\ Queued(m)' = Queued(m)
    BY <1>1, <1>2, <1>3 DEF InHand, ToRead, Read, Queued
  <1>8. \A m \in Mails :
          /\ IsFiniteSet(Times(m)') /\ Cardinality(Times(m)') \in Nat
          /\ Cardinality(Times(m)') <= Cardinality(Times(m)) + InHand(m)
          /\ m # b => Times(m)' = Times(m) 
          /\ m = b => Times(m)' # {} \/ m \in lost'
    <2> TAKE m \in Mails
    <2>0. IsFiniteSet(Times(m)) /\ Cardinality(Times(m)) \in Nat /\ InHand(m) \in {0, 1}
      BY Places
    <2>1. CASE recorded' = recorded /\ (b \in Mails => lost' = lost \cup {b})
      <3>1. Times(m)' = Times(m)
        BY <2>1 DEF Times
      <3> QED BY <2>0, <2>1, <3>1
    <2>2. ASSUME NEW t \in Tenants, recorded' = [recorded EXCEPT ![b][t] = @ + 1]
          PROVE  /\ IsFiniteSet(Times(m)') /\ Cardinality(Times(m)') \in Nat
                 /\ Cardinality(Times(m)') <= Cardinality(Times(m)) + InHand(m)
                 /\ m # b => Times(m)' = Times(m) 
                 /\ m = b => Times(m)' # {}
      <3>1. CASE m # b
        <4>1. Times(m)' = Times(m)
          BY <2>2, <3>1, TimesAfter
        <4> QED BY <2>0, <3>1, <4>1
      <3>2. CASE m = b
        <4>1. /\ IsFiniteSet(Times(m)') /\ Times(m)' # {}
              /\ Cardinality(Times(m)') <= Cardinality(Times(m)) + 1
          BY <2>2, <3>2, TimesAfter
        <4>2. Cardinality(Times(m)') \in Nat
          BY <4>1, FS_CardinalityType
        <4> QED BY <1>7, <3>2, <4>1, <4>2
      <3> QED BY <3>1, <3>2
    <2> QED BY <1>2, <2>1, <2>2
  <1>9. CopiesInv'
    <2> SUFFICES ASSUME NEW m \in Mails
                 PROVE  /\ IsFiniteSet(Times(m)')
                        /\ Cardinality(Times(m)') + Cardinality(Queued(m)') + InHand(m)' + ToRead(m)'
                             <= 1 + breaks'
      BY DEF CopiesInv
    <2> QED BY <1>1, <1>7, <1>8, Places
  <1>10. ReadInv'
    <2> SUFFICES ASSUME NEW m \in Mails, box'[m] = "deleted" \/ Read(m)'
                 PROVE  Accounted(m)'
      BY DEF ReadInv
    <2>1. Accounted(m) /\ lost \subseteq lost'
      BY <1>1, <1>2 DEF BounceInv, ReadInv, Read
    <2>2. CASE m = b
      BY <1>8, <2>2 DEF Accounted
    <2>3. CASE m # b
      BY <1>2, <1>7, <1>8, <2>1, <2>3 DEF Accounted
    <2> QED BY <2>2, <2>3
  <1> QED BY <1>5, <1>6, <1>9, <1>10 DEF BounceInv

\* Contacts and tenants come and go: what the recorder found may no longer be so.
LEMMA MoveStep == ASSUME BounceInv, Move PROVE BounceInv'
  <1>1. /\ moved' = (moved \/ rec.pc = "look")
        /\ UNCHANGED <<box, scan, queue, hook, rec, recorded, lost, breaks>>
    BY DEF Move
  <1>2. has \in [Tenants -> SUBSET (Contacts \cup Campaigns)] /\ active \subseteq Tenants
    BY DEF BounceInv, BounceTypes
  <1>3. has' \in [Tenants -> SUBSET (Contacts \cup Campaigns)] /\ active' \subseteq Tenants
    <2>1. ASSUME NEW t \in Tenants, NEW c \in Contacts \cup Campaigns,
                 has' = [has EXCEPT ![t] = IF c \in @ THEN @ \ {c} ELSE @ \cup {c}]
          PROVE  has' \in [Tenants -> SUBSET (Contacts \cup Campaigns)]
      BY <1>2, <2>1
    <2>2. ASSUME NEW t \in Tenants, active' = IF t \in active THEN active \ {t} ELSE active \cup {t}
          PROVE  active' \subseteq Tenants
      BY <1>2, <2>2
    <2> QED BY <1>2, <2>1, <2>2 DEF Move
  <1>4. BounceTypes' /\ AskedInv'
    BY <1>1, <1>3 DEF BounceInv, BounceTypes, AskedInv
  <1>5. ScanInv'
    BY <1>1 DEF BounceInv, ScanInv, OnServer
  <1>6. CopiesInv' /\ ReadInv'
    BY <1>1, CopiesRest DEF Read
  <1> QED BY <1>4, <1>5, <1>6 DEF BounceInv

\* A restart: what was in memory is left out, and what is still on the server is read again.
LEMMA RestartStep == ASSUME BounceInv, Restart PROVE BounceInv'
  <1>1. /\ breaks' = breaks + 1 /\ scan' = NoScan /\ queue' = <<>> /\ rec' = NoRec
        /\ hook' = [w \in Handlers |-> <<>>] /\ moved' = FALSE
        /\ lost' = lost \cup {m \in Mails : rec.b = {m} \/ \E i \in 1..Len(queue) : queue[i] = m}
        /\ UNCHANGED <<box, has, active, recorded>>
    BY DEF Restart, Break
  <1>2. /\ NoScan.pc = "idle" /\ NoScan \in [pc : {"idle", "read", "hung"}, seen : Seq(Mails), i : Nat]
        /\ NoRec \in Recs /\ NoRec.pc = "idle" /\ NoRec.b = {} /\ NoRec.matches = {}
    BY EmptySeq DEF NoScan, NoRec, Recs
  <1>3. [w \in Handlers |-> <<>>] \in [Handlers -> Hooks]
    BY NoHooks
  <1>4. BounceTypes' /\ AskedInv'
    <2>1. queue' \in Seq(Bounced)
      BY <1>1, EmptySeq
    <2>2. rec'.pc = "idle" /\ rec' = NoRec /\ rec' \in Recs /\ IsFiniteSet(rec'.matches)
      BY <1>1, <1>2, FS_EmptySet
    <2>3. hook' \in [Handlers -> Hooks] /\ breaks' \in Nat
      BY <1>1, <1>3 DEF BounceInv, BounceTypes
    <2> QED BY <1>1, <2>1, <2>2, <2>3 DEF BounceInv, BounceTypes, AskedInv
  <1>5. ScanInv'
    BY <1>1, <1>2 DEF BounceInv, ScanInv, OnServer
  <1>6. \A m \in Mails :
          /\ Times(m)' = Times(m) /\ InHand(m)' = 0 /\ ToRead(m)' \in {0, 1} /\ ~Read(m)'
          /\ Cardinality(Queued(m)') = 0
    BY <1>1, <1>2, AtEmpty DEF Times, InHand, ToRead, Read, Queued
  <1>7. CopiesInv'
    <2> SUFFICES ASSUME NEW m \in Mails
                 PROVE  /\ IsFiniteSet(Times(m)')
                        /\ Cardinality(Times(m)') + Cardinality(Queued(m)') + InHand(m)' + ToRead(m)'
                             <= 1 + breaks'
      BY DEF CopiesInv
    <2> QED BY <1>1, <1>6, Places
  <1>8. ReadInv'
    <2> SUFFICES ASSUME NEW m \in Mails, box[m] = "deleted"
                 PROVE  Accounted(m)'
      BY <1>1, <1>6 DEF ReadInv
    <2>1. Accounted(m)
      BY DEF BounceInv, ReadInv
    <2> QED BY <1>1, <1>6, <2>1 DEF Accounted, Queued, At
  <1> QED BY <1>4, <1>5, <1>7, <1>8 DEF BounceInv

\* The bounce manager starts with nothing arrived and nothing recorded.
LEMMA BouncesStart == ASSUME BounceInit PROVE BounceInv
  <1>1. /\ box = [m \in Mails |-> "coming"] /\ scan = NoScan /\ queue = <<>>
        /\ hook = [w \in Handlers |-> <<>>] /\ rec = NoRec
        /\ has = Owned /\ active = Tenants
        /\ recorded = [b \in Mails \cup Events |-> [t \in Tenants |-> 0]]
        /\ lost = {} /\ moved = FALSE /\ breaks = 0
    BY DEF BounceInit
  <1>2. /\ NoScan.pc = "idle" /\ NoScan \in [pc : {"idle", "read", "hung"}, seen : Seq(Mails), i : Nat]
        /\ NoRec \in Recs /\ NoRec.pc = "idle" /\ NoRec.b = {} /\ NoRec.matches = {}
    BY EmptySeq DEF NoScan, NoRec, Recs
  <1>3. BounceTypes
    <2>1. queue \in Seq(Bounced) /\ IsFiniteSet(rec.matches)
      BY <1>1, <1>2, EmptySeq, FS_EmptySet
    <2>2. recorded \in [Bounced -> [Tenants -> Nat]]
      BY <1>1 DEF Bounced
    <2> QED BY <1>1, <1>2, <2>1, <2>2, NoHooks, BouncesAssumption DEF BounceTypes
  <1>4. OnServer = {}
    BY <1>1 DEF OnServer
  <1>5. ScanInv
    BY <1>1, <1>2, <1>4, FS_EmptySet DEF ScanInv
  <1>6. AskedInv
    BY <1>1, <1>2 DEF AskedInv
  <1>7. \A m \in Mails :
          /\ Times(m) = {} /\ Cardinality(Times(m)) = 0 /\ IsFiniteSet(Times(m))
          /\ Cardinality(Queued(m)) = 0
          /\ InHand(m) = 0 /\ ToRead(m) \in {0, 1} /\ ~Read(m) /\ box[m] # "deleted"
    <2> TAKE m \in Mails
    <2>1. Times(m) = {}
      <3> SUFFICES ASSUME NEW tn \in Tenants \X (1..Upsets + 2), tn[2] <= recorded[m][tn[1]]
                   PROVE  FALSE
        BY DEF Times
      <3>1. tn[1] \in Tenants /\ tn[2] \in 1..Upsets + 2
        OBVIOUS
      <3>2. recorded[m][tn[1]] = 0
        BY <1>1, <3>1
      <3> QED BY <3>1, <3>2, BouncesAssumption
    <2> QED BY <1>1, <1>2, <2>1, FS_EmptySet, AtEmpty DEF InHand, ToRead, Read, Queued
  <1>8. CopiesInv
    BY <1>1, <1>7 DEF CopiesInv
  <1>9. ReadInv
    BY <1>7 DEF ReadInv
  <1> QED BY <1>3, <1>5, <1>6, <1>8, <1>9 DEF BounceInv

\* Each step of the bounce manager keeps its invariant.
LEMMA BounceSteps == ASSUME BounceInv, BounceNext PROVE BounceInv'
BY ArrivesStep, ScanStep, ReadsStep, HangsStep, DeletesStep, WebhookStep, RecordStep, RunStep, AskStep,
   RecordBounceStep, MoveStep, RestartStep DEF BounceNext, Recorder

\* Nothing of the bounce manager changes where none of its variables does.
LEMMA BouncesRest == ASSUME BounceInv, UNCHANGED bounceVars PROVE BounceInv'
  <1> USE DEF bounceVars
  <1>1. ScanInv'
    BY DEF BounceInv, ScanInv, OnServer
  <1>2. BounceTypes' /\ AskedInv'
    BY DEF BounceInv, BounceTypes, AskedInv, Asked, Owns
  <1>3. CopiesInv' /\ ReadInv'
    BY CopiesRest DEF Read
  <1> QED BY <1>1, <1>2, <1>3 DEF BounceInv

\* A message that is gone is accounted for, and recorded once or once more for each break.
LEMMA MailsFromInv == ASSUME BounceInv PROVE MailOnce
  <1> SUFFICES ASSUME NEW m \in Mails
               PROVE  /\ Cardinality(Times(m)) <= 1 + breaks
                      /\ box[m] = "deleted" =>
                           \/ Cardinality(Times(m)) > 0 \/ m \in lost \/ rec.b = {m}
                           \/ \E i \in 1..Len(queue) : queue[i] = m
    BY Zenon DEF MailOnce, Times
  <1>1. Cardinality(Times(m)) <= 1 + breaks
    BY Places
  <1>2. ASSUME box[m] = "deleted"
        PROVE  \/ Cardinality(Times(m)) > 0 \/ m \in lost \/ rec.b = {m}
               \/ \E i \in 1..Len(queue) : queue[i] = m
    <2>1. Accounted(m)
      BY <1>2 DEF BounceInv, ReadInv
    <2>2. IsFiniteSet(Times(m)) /\ Cardinality(Times(m)) \in Nat
      BY Places
    <2>3. Times(m) # {} => Cardinality(Times(m)) > 0
      BY <2>2, FS_EmptySet
    <2> QED BY <2>1, <2>3 DEF Accounted, Queued, At
  <1> QED BY <1>1, <1>2

\* Only the end of a recording records.
LEMMA OnlyRecords ==
  ASSUME BounceNext PROVE recorded' = recorded \/ RecordBounceCB
BY DEF BounceNext, Recorder, Arrives, Scan, ScanReads, ScanHangs, ScanDeletes, BounceWebhook,
       Record, Run, ResolveBounceTenant, RecordFails, Move, Restart

\* A bounce recorded with a tenant names what that tenant alone has.
LEMMA RecordsAlone ==
  ASSUME BounceInv, RecordBounceCB, NEW c \in Bounced, NEW u \in Tenants,
         recorded'[c][u] > recorded[c][u], ~moved
  PROVE  {v \in active \cup {Default} : Names[c] \subseteq has[v]} = {u}
  <1>1. recorded \in [Bounced -> [Tenants -> Nat]]
    BY DEF BounceInv, BounceTypes
  <1>2. recorded[c][u] \in Nat /\ ~(recorded[c][u] > recorded[c][u])
    BY <1>1
  <1>3. PICK b \in Bounced :
          /\ rec.b = {b} /\ Asked = b
          /\ \/ recorded' = recorded
             \/ \E t \in Tenants : /\ recorded' = [recorded EXCEPT ![b][t] = @ + 1]
                                   /\ rec.matches = {t}
    BY Recorded
  <1>4. PICK t \in Tenants : /\ recorded' = [recorded EXCEPT ![b][t] = @ + 1]
                             /\ rec.matches = {t}
    BY <1>2, <1>3
  <1>5. c = b /\ u = t
    BY <1>1, <1>2, <1>4
  <1>6. rec.pc = "look" /\ rec.todo = {}
    BY DEF RecordBounceCB
  <1>7. rec.matches = {v \in active \cup {Default} : Owns(v, b)}
    BY <1>3, <1>6 DEF BounceInv, AskedInv
  <1>8. Names[b] # {}
    BY <1>4, <1>7 DEF Owns
  <1> QED BY <1>4, <1>5, <1>7, <1>8 DEF Owns

-----------------------------------------------------------------------------
(* Theorems *)

BackgroundInv == ImportInv /\ BounceInv

\* What the importer and the bounce manager keep true, whatever the sizes of the files and
\* of the batches, the tenants and the mailbox, the failures and the interleaving.
THEOREM BackgroundInvariant == Spec => []BackgroundInv
  <1>1. Init => BackgroundInv
    BY ImportStarts, BouncesStart DEF Init, BackgroundInv
  <1>2. BackgroundInv /\ [Next]_backgroundVars => BackgroundInv'
    <2> SUFFICES ASSUME BackgroundInv, [Next]_backgroundVars PROVE BackgroundInv'
      OBVIOUS
    <2>1. CASE ImportNext /\ UNCHANGED bounceVars
      BY <2>1, ImportSteps, BouncesRest DEF BackgroundInv
    <2>2. CASE BounceNext /\ UNCHANGED importVars
      BY <2>2, BounceSteps, ImportRests DEF BackgroundInv
    <2>3. CASE UNCHANGED backgroundVars
      BY <2>3, ImportRests, BouncesRest DEF BackgroundInv, backgroundVars
    <2> QED BY <2>1, <2>2, <2>3 DEF Next
  <1> QED BY <1>1, <1>2, PTL DEF Spec

\* Imports do not run at the same time, unless two requests raced, Stop was asked for again
\* while the first was stopping, or a statement failed and left LoadCSV alone.
THEOREM OneImportCorrect == Spec => []OneImport
  <1>1. BackgroundInv => OneImport
    BY OneFromInv DEF BackgroundInv
  <1> QED BY <1>1, BackgroundInvariant, PTL

\* The status counts what the session committed, which is every good row of the file where
\* no statement failed and the reader met no token of a Stop, its own or one left over.
THEOREM ImportCountsCorrect == Spec => []ImportAccounts
  <1>1. BackgroundInv => ImportAccounts
    BY CountsFromInv DEF BackgroundInv
  <1> QED BY <1>1, BackgroundInvariant, PTL

\* A bounce message that is deleted is recorded, to be recorded, or left out for one of the
\* reasons MailOnce names; it is recorded once unless a scan or a process broke off.
THEOREM MailOnceCorrect == Spec => []MailOnce
  <1>1. BackgroundInv => MailOnce
    BY MailsFromInv DEF BackgroundInv
  <1> QED BY <1>1, BackgroundInvariant, PTL

\* A bounce is recorded with a tenant only if no other active tenant has both the contact
\* and the campaign it names.
THEOREM ResolvedAloneCorrect == Spec => ResolvedAlone
  <1>1. BackgroundInv /\ [Next]_backgroundVars =>
          [\A b \in Mails \cup Events, t \in Tenants :
             recorded'[b][t] > recorded[b][t] /\ ~moved =>
               {u \in active \cup {Default} : Names[b] \subseteq has[u]} = {t}]_bounceVars
    <2> SUFFICES ASSUME BackgroundInv, [Next]_backgroundVars,
                        NEW b \in Mails \cup Events, NEW t \in Tenants,
                        recorded'[b][t] > recorded[b][t], ~moved
                 PROVE  {u \in active \cup {Default} : Names[b] \subseteq has[u]} = {t}
      OBVIOUS
    <2>1. BounceInv /\ b \in Bounced
      BY DEF BackgroundInv, Bounced
    <2>2. recorded' # recorded
      <3>1. recorded[b][t] \in Nat
        BY <2>1 DEF BounceInv, BounceTypes
      <3> QED BY <3>1
    <2>3. BounceNext
      BY <2>2 DEF Next, backgroundVars, bounceVars
    <2>4. RecordBounceCB
      BY <2>2, <2>3, OnlyRecords
    <2> QED BY <2>1, <2>4, RecordsAlone
  <1> QED BY <1>1, BackgroundInvariant, PTL DEF Spec, ResolvedAlone

===============================================================================

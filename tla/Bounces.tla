-------------------------------- MODULE Bounces --------------------------------
(***************************************************************************)
(* The bounce manager: the mailbox scanner of internal/bounce/mailbox/pop.go, *)
(* the webhooks of cmd/bounce.go with the services of                        *)
(* internal/bounce/webhooks, the channel between them and Run of              *)
(* internal/bounce/bounce.go, and the recorder of cmd/init.go that looks for  *)
(* the tenant a bounce belongs to.                                          *)
(*                                                                         *)
(* A bounce names a contact, by address or UUID, and may name a campaign.     *)
(* What recording does to the contact is ContactStore's RecordBounceRow.     *)
(***************************************************************************)
EXTENDS Naturals, Sequences, FiniteSets, SequencesExt

CONSTANTS
  Mails,              \* messages that reach the mailbox
  Events,             \* bounces that services report
  Contacts, Campaigns, Tenants,
  Names,              \* the contact and the campaign a message or an event names, or neither
  Default,            \* the tenant that counts whatever its status
  Bodies,             \* what is posted to a webhook: events with what happened
  Handlers,           \* webhook requests at a time
  Cap, Limit,         \* size of the channel, messages of a scan
  Owned,              \* the contacts and campaigns each tenant has at first
  Upsets, Posts       \* bounds: changes of what tenants have, and scans and processes
                      \* that break off; requests

ASSUME BouncesAssumption ==
  /\ Mails \cap Events = {} /\ Default \in Tenants
  /\ Names \in [Mails \cup Events -> SUBSET (Contacts \cup Campaigns)]
  /\ \A b \in Mails \cup Events : \A c, d \in Names[b] \cap Contacts : c = d
  /\ Owned \in [Tenants -> SUBSET (Contacts \cup Campaigns)]
  /\ Bodies \subseteq Seq([b : Events, kind : {"hard", "soft", "complaint", "other"}])
  /\ Cap \in Nat \ {0} /\ Limit \in Nat \ {0}
  /\ Upsets \in Nat /\ Posts \in Nat

VARIABLES
  box,      \* each message: to come, on the server, or deleted from it
  scan,     \* the scanner: what it does next, the messages by number, and where it is
  queue,    \* Manager.queue
  hook,     \* each webhook request: bounces it has yet to put into the channel, by their
            \* place in the body
  rec,      \* Run and its recorder
  has,      \* the contacts and campaigns of each tenant
  active,   \* tenants that are active
  recorded, \* how often each bounce was recorded in each tenant
  lost,     \* ghost: messages left out for a reason the code has
  moved,    \* ghost: what tenants have or are changed while the recorder looked for the tenant
  moves, breaks, posts

bounceVars == <<box, scan, queue, hook, rec, has, active, recorded, lost, moved, moves, breaks,
                posts>>

NoScan == [pc |-> "idle", seen |-> <<>>, i |-> 0]
NoRec == [pc |-> "idle", b |-> {}, todo |-> {}, matches |-> {}]

BounceInit ==
  /\ box = [m \in Mails |-> "coming"] /\ scan = NoScan /\ queue = <<>>
  /\ hook = [w \in Handlers |-> <<>>] /\ rec = NoRec
  /\ has = Owned /\ active = Tenants
  /\ recorded = [b \in Mails \cup Events |-> [t \in Tenants |-> 0]]
  /\ lost = {} /\ moved = FALSE /\ moves = 0 /\ breaks = 0 /\ posts = 0

Break == moves + breaks < Upsets /\ breaks' = breaks + 1

-----------------------------------------------------------------------------
(* The mailbox *)

Arrives(m) ==
  /\ box[m] = "coming" /\ box' = [box EXCEPT ![m] = "there"]
  /\ UNCHANGED <<scan, queue, hook, rec, has, active, recorded, lost, moved, moves, breaks, posts>>

\* A connection numbers the messages there are; a scan takes the first `Limit` of them.
Scan ==
  /\ scan.pc = "idle"
  /\ LET there == {m \in Mails : box[m] = "there"} IN
     /\ there # {}
     /\ \E seen \in SetToSeqs(there) : scan' = [pc |-> "read", seen |-> seen, i |-> 1]
  /\ UNCHANGED <<box, queue, hook, rec, has, active, recorded, lost, moved, moves, breaks, posts>>

\* Variant: the messages past the limit are counted too.
CountAll(seen) == Len(seen)
Count(seen) == IF Len(seen) > Limit THEN Limit ELSE Len(seen)

\* A message that cannot be retrieved or parsed is skipped, one that finds the channel full
\* is dropped.  (One that is retrieved but not a second time ends the process: Restart.)
ScanReads(readable) ==
  /\ scan.pc = "read" /\ scan.i <= Limit /\ scan.i <= Len(scan.seen)
  /\ LET m == scan.seen[scan.i]  sent == readable /\ Len(queue) < Cap IN
     /\ queue' = IF sent THEN Append(queue, m) ELSE queue
     /\ lost' = IF sent THEN lost ELSE lost \cup {m}
  /\ scan' = [scan EXCEPT !.i = @ + 1]
  /\ UNCHANGED <<box, hook, rec, has, active, recorded, moved, moves, breaks, posts>>

\* A part of a message that cannot be read is asked for again and again: no scan after this.
ScanHangs ==
  /\ scan.pc = "read" /\ scan.i <= Limit /\ scan.i <= Len(scan.seen)
  /\ scan' = [scan EXCEPT !.pc = "hung"]
  /\ UNCHANGED <<box, queue, hook, rec, has, active, recorded, lost, moved, moves, breaks, posts>>

\* All the messages that were counted are deleted, the dropped ones with them, when the
\* connection quits; if it breaks off before, some of them are.
ScanDeletes(upto) ==
  /\ scan.pc = "read" /\ (scan.i > Limit \/ scan.i > Len(scan.seen))
  /\ upto <= Count(scan.seen)
  /\ IF upto = Count(scan.seen) THEN UNCHANGED breaks ELSE Break
  /\ box' = [m \in Mails |-> IF \E i \in 1..upto : scan.seen[i] = m THEN "deleted" ELSE box[m]]
  /\ scan' = NoScan
  /\ UNCHANGED <<queue, hook, rec, has, active, recorded, lost, moved, moves, posts>>

-----------------------------------------------------------------------------
(* The webhooks: the entries of a request it verifies that each service reports *)

Single(body) == {i \in DOMAIN body : Len(body) = 1 /\ body[i].kind # "other"}
SES(body) == Single(body)
Azure(body) == {i \in DOMAIN body : body[i].kind # "other"}
Sendgrid(body) == {i \in DOMAIN body : body[i].kind \in {"hard", "soft"}}
Postmark(body) == Single(body)
ForwardEmail(body) == {i \in DOMAIN body : Len(body) = 1}
Lettermint(body) == Single(body)
Native(body) == Single(body)

\* A request that is rejected, or of which nothing is left, records nothing.
BounceWebhook(w, body) ==
  /\ hook[w] = <<>> /\ posts < Posts /\ posts' = posts + 1
  /\ \E out \in {{}, SES(body), Azure(body), Sendgrid(body), Postmark(body), ForwardEmail(body),
                 Lettermint(body), Native(body)} :
       hook' = [hook EXCEPT ![w] = [i \in out |-> body[i].b]]
  /\ UNCHANGED <<box, scan, queue, rec, has, active, recorded, lost, moved, moves, breaks>>

\* Record, entry by entry; it waits at a channel that is full.
Record(w) ==
  /\ hook[w] # <<>> /\ Len(queue) < Cap
  /\ \E i \in DOMAIN hook[w] :
       /\ \A j \in DOMAIN hook[w] : i <= j
       /\ queue' = Append(queue, hook[w][i])
       /\ hook' = [hook EXCEPT ![w] = Restrict(@, DOMAIN @ \ {i})]
  /\ UNCHANGED <<box, scan, rec, has, active, recorded, lost, moved, moves, breaks, posts>>

-----------------------------------------------------------------------------
(* The recorder *)

Run ==
  /\ rec.pc = "idle" /\ queue # <<>> /\ queue' = Tail(queue)
  /\ rec' = [pc |-> "look", b |-> {Head(queue)}, todo |-> active \cup {Default}, matches |-> {}]
  /\ moved' = FALSE
  /\ UNCHANGED <<box, scan, hook, has, active, recorded, lost, moves, breaks, posts>>

\* Variant: the campaign is not looked for.
OwnsContact(t, b) == Names[b] # {} /\ Names[b] \cap Contacts \subseteq has[t]

\* resolveBounceTenant asks one tenant after the other, in transactions of their own, whether
\* it has everything the bounce names.
Owns(t, b) == Names[b] # {} /\ Names[b] \subseteq has[t]
Asked == CHOOSE b \in rec.b : TRUE
ResolveBounceTenant(t) ==
  /\ rec.pc = "look" /\ t \in rec.todo
  /\ rec' = [rec EXCEPT !.todo = @ \ {t},
                        !.matches = IF Owns(t, Asked) THEN @ \cup {t} ELSE @]
  /\ UNCHANGED <<box, scan, queue, hook, has, active, recorded, lost, moved, moves, breaks, posts>>

\* The bounce is recorded with the one tenant that matched, if the contact is still there,
\* whether the campaign is or not; an error is passed over.
Matched(matches) == Cardinality(matches) = 1
\* Variant: an error ends the loop.
AfterErrorStop == "stopped"
AfterError == "idle"
RecordBounceCB ==
  /\ rec.pc = "look" /\ rec.todo = {}
  /\ LET t == CHOOSE u \in Tenants : u \in rec.matches
         there == Matched(rec.matches) /\ Names[Asked] \cap Contacts \cap has[t] # {} IN
     /\ recorded' = IF there THEN [recorded EXCEPT ![Asked][t] = @ + 1] ELSE recorded
     /\ lost' = IF there THEN lost ELSE lost \cup (rec.b \cap Mails)
     /\ rec' = [NoRec EXCEPT !.pc = IF Matched(rec.matches) THEN "idle" ELSE AfterError]
  /\ UNCHANGED <<box, scan, queue, hook, has, active, moved, moves, breaks, posts>>

\* A UUID that is none, a kind of bounce without an action, or a statement that fails: the
\* search for the tenant, the transaction, or the query that records.
RecordFails ==
  /\ rec.pc = "look" /\ rec' = [NoRec EXCEPT !.pc = AfterError]
  /\ lost' = lost \cup (rec.b \cap Mails)
  /\ UNCHANGED <<box, scan, queue, hook, has, active, recorded, moved, moves, breaks, posts>>

-----------------------------------------------------------------------------
(* What happens elsewhere *)

\* A contact or a campaign comes or goes, a tenant is suspended or active again.
Move ==
  /\ moves + breaks < Upsets /\ moves' = moves + 1 /\ moved' = (moved \/ rec.pc = "look")
  /\ \/ \E t \in Tenants, c \in Contacts \cup Campaigns :
          /\ has' = [has EXCEPT ![t] = IF c \in @ THEN @ \ {c} ELSE @ \cup {c}]
          /\ UNCHANGED active
     \/ \E t \in Tenants : /\ active' = IF t \in active THEN active \ {t} ELSE active \cup {t}
                           /\ UNCHANGED has
  /\ UNCHANGED <<box, scan, queue, hook, rec, recorded, lost, breaks, posts>>

\* The process stops and starts: what is in memory goes, and a mailbox connection with it.
Restart ==
  /\ Break /\ scan' = NoScan /\ queue' = <<>> /\ hook' = [w \in Handlers |-> <<>>] /\ rec' = NoRec
  /\ lost' = lost \cup {m \in Mails : rec.b = {m} \/ \E i \in 1..Len(queue) : queue[i] = m}
  /\ moved' = FALSE
  /\ UNCHANGED <<box, has, active, recorded, moves, posts>>

Recorder == Run \/ (\E t \in Tenants : ResolveBounceTenant(t)) \/ RecordBounceCB \/ RecordFails
BounceNext ==
  \/ \E m \in Mails : Arrives(m)
  \/ Scan \/ ScanHangs \/ (\E readable \in BOOLEAN : ScanReads(readable))
  \/ (\E upto \in 0..Len(scan.seen) : ScanDeletes(upto))
  \/ \E w \in Handlers : Record(w) \/ \E body \in Bodies : BounceWebhook(w, body)
  \/ Recorder \/ Move \/ Restart

\* Run goes on while there is something to record; the senders that wait at a channel get
\* their turn in the order they came, so none waits for ever.
BounceFairness == /\ WF_bounceVars(Recorder)
                  /\ \A w \in Handlers : SF_bounceVars(Record(w))

-----------------------------------------------------------------------------
(* What must hold *)

\* A message that is gone from the server was recorded or will be, unless it could not be
\* read, found the channel full, named nobody or what no tenant has or several have, met an
\* error of the recorder, or the process stopped; and it is recorded once, or once more for
\* each scan or process that broke off.
MailOnce == \A m \in Mails :
  LET times == Cardinality({tn \in Tenants \X (1..Upsets + 2) : tn[2] <= recorded[m][tn[1]]}) IN
  /\ times <= 1 + breaks
  /\ box[m] = "deleted" =>
       times > 0 \/ m \in lost \/ rec.b = {m} \/ \E i \in 1..Len(queue) : queue[i] = m

\* A bounce is recorded with a tenant only if the contact and the campaign it names are that
\* tenant's and no other active tenant has both, as long as nothing changed while they were
\* asked.
ResolvedAlone == [][\A b \in Mails \cup Events, t \in Tenants :
  recorded'[b][t] > recorded[b][t] /\ ~moved =>
    {u \in active \cup {Default} : Names[b] \subseteq has[u]} = {t}]_bounceVars

\* A request to a webhook does not wait for ever at the channel.
HooksAnswered == \A w \in Handlers : hook[w] # <<>> ~> hook[w] = <<>>
===============================================================================

-------------------------------- MODULE Outbox --------------------------------
(***************************************************************************)
(* The transactional outbox: rows of outbox_events, and the publisher that *)
(* the worker process starts every five seconds (schedulers/index.ts,      *)
(* outbox.worker.ts) over the RabbitMQ channel of that process             *)
(* (rabbitmq.ts).                                                          *)
(*                                                                         *)
(* node-cron starts the publisher again whether or not the last one has    *)
(* finished, so several run at once; each works from the batch it read.    *)
(* A database call can fail, with its effect applied or not, the process   *)
(* can die, and the connection can break before the process notices.       *)
(***************************************************************************)
EXTENDS Naturals, FiniteSets

CONSTANTS
  NumEvents,    \* events are numbered in the order of createdAt
  Runner,       \* publisher runs that can be active at once
  BatchSize,    \* BATCH_SIZE
  MaxAttempts,  \* maxAttempts
  Connects,     \* whether the process that hosts the publisher calls connectRabbitMQ
  MaxFaults,    \* bound on failed database calls and crashes in a behaviour
  MaxOutages    \* bound on broken connections in a behaviour

ASSUME OutboxAssumption ==
  /\ NumEvents \in Nat
  /\ IsFiniteSet(Runner)
  /\ BatchSize \in Nat \ {0}
  /\ MaxAttempts \in Nat \ {0}
  /\ Connects \in BOOLEAN
  /\ MaxFaults \in Nat
  /\ MaxOutages \in Nat

Event == 1 .. NumEvents

VARIABLES
  status,     \* outbox_events.status, "none" while the row does not exist
  attempts,   \* outbox_events.attempts
  sent,       \* calls of channel.publish for the event that returned
  delivered,  \* messages of the event that reached the broker
  channel,    \* the module variable channel of rabbitmq.ts
  runner,     \* control point and batch of each publisher run
  shared,     \* history: events that were in two batches at once
  faults,     \* failed calls and crashes so far
  outages     \* broken connections so far

rowVars  == <<status, attempts>>
sendVars == <<sent, delivered>>
vars == <<status, attempts, sent, delivered, channel, runner, shared, faults, outages>>

Status == {"none", "PENDING", "PROCESSING", "PUBLISHED", "FAILED"}
Busy == {"claim", "publish", "settle", "catch"}

Idle == [pc |-> "idle", batch |-> {}, seen |-> [e \in Event |-> 0]]
Working == [pc: Busy, batch: SUBSET Event, seen: [Event -> Nat]]

\* Each variable has a value of its kind.
TypeOK ==
  /\ status \in [Event -> Status]
  /\ attempts \in [Event -> Nat]
  /\ sent \in [Event -> Nat]
  /\ delivered \in [Event -> Nat]
  /\ channel \in {"null", "open", "broken"}
  /\ runner \in [Runner -> {Idle} \cup Working]
  /\ shared \in SUBSET Event
  /\ faults \in Nat
  /\ outages \in Nat

\* server.ts opens the channel when it starts; worker.ts never does.
Init ==
  /\ status = [e \in Event |-> "none"]
  /\ attempts = [e \in Event |-> 0]
  /\ sent = [e \in Event |-> 0]
  /\ delivered = [e \in Event |-> 0]
  /\ channel = IF Connects THEN "open" ELSE "null"
  /\ runner = [r \in Runner |-> Idle]
  /\ shared = {}
  /\ faults = 0
  /\ outages = 0

-----------------------------------------------------------------------------
Fault == faults < MaxFaults /\ faults' = faults + 1

\* A payment transaction commits an event.
Create(e) ==
  /\ status[e] = "none"
  /\ status' = [status EXCEPT ![e] = "PENDING"]
  /\ UNCHANGED <<attempts, sendVars, channel, runner, shared, faults, outages>>

\* The first n events of S.
Oldest(S, n) == {e \in S : Cardinality({f \in S : f < e}) < n}

\* The events of a batch that another run has in its own too.
Contended(r, S) == {e \in S : \E q \in Runner \ {r} : e \in runner[q].batch}

\* A tick of the cron job: a run reads its batch, attempts included.
Tick(r) ==
  LET batch == Oldest({e \in Event : status[e] = "PENDING"}, BatchSize) IN
  /\ runner[r] = Idle
  /\ batch # {}
  /\ runner' = [runner EXCEPT ![r] =
                  [pc |-> "claim", batch |-> batch, seen |-> attempts]]
  /\ shared' = shared \cup Contended(r, batch)
  /\ UNCHANGED <<rowVars, sendVars, channel, faults, outages>>

\* The run is at pc with e, the oldest event left in its batch.
At(r, pc, e) ==
  /\ runner[r].pc = pc
  /\ e \in runner[r].batch
  /\ \A f \in runner[r].batch : e <= f

Goto(r, pc) == runner' = [runner EXCEPT ![r].pc = pc]

\* The run turns to the next event of its batch, or ends.
NextEvent(r, e) ==
  LET rest == runner[r].batch \ {e} IN
  runner' = [runner EXCEPT ![r] =
    IF rest = {} THEN Idle
                 ELSE [pc |-> "claim", batch |-> rest, seen |-> runner[r].seen]]

\* Mutant of WriteClaim: the event is marked before it is sent.
WriteClaimAsPublished(e) ==
  /\ status' = [status EXCEPT ![e] = "PUBLISHED"]
  /\ attempts' = [attempts EXCEPT ![e] = @ + 1]

\* Mutant of WriteClaim: the attempt is not counted.
WriteClaimUncounted(e) ==
  /\ status' = [status EXCEPT ![e] = "PROCESSING"]
  /\ UNCHANGED attempts

\* The update that claims an event, by id, whatever its status is now.
WriteClaim(e) ==
  /\ status' = [status EXCEPT ![e] = "PROCESSING"]
  /\ attempts' = [attempts EXCEPT ![e] = @ + 1]

Claim(r, e) ==
  /\ At(r, "claim", e)
  /\ \/ WriteClaim(e) /\ Goto(r, "publish") /\ UNCHANGED faults
     \/ /\ Fault /\ Goto(r, "catch")
        /\ WriteClaim(e) \/ UNCHANGED rowVars
  /\ UNCHANGED <<sendVars, channel, shared, outages>>

\* Mutant of Publish: a message handed to a broken connection is sent again.
PublishResends(r, e) ==
  /\ At(r, "publish", e)
  /\ channel # "null"
  /\ sent' = [sent EXCEPT ![e] = @ + 1]
  /\ \/ channel = "open" /\ Goto(r, "settle")
        /\ delivered' = [delivered EXCEPT ![e] = @ + 1]
     \/ channel = "broken" /\ Goto(r, "catch") /\ UNCHANGED delivered
  /\ UNCHANGED <<rowVars, channel, shared, faults, outages>>

\* publishEvent: throws without a channel; otherwise it hands the message to
\* the client library and asks for no confirmation.
Publish(r, e) ==
  /\ At(r, "publish", e)
  /\ \/ /\ channel = "null"
        /\ Goto(r, "catch")
        /\ UNCHANGED sendVars
     \/ /\ channel # "null"
        /\ Goto(r, "settle")
        /\ sent' = [sent EXCEPT ![e] = @ + 1]
        /\ delivered' = IF channel = "open"
                          THEN [delivered EXCEPT ![e] = @ + 1] ELSE delivered
  /\ UNCHANGED <<rowVars, channel, shared, faults, outages>>

\* Mutant of Settle: the status of another table is written.
SettleDelivered(r, e) ==
  /\ At(r, "settle", e)
  /\ status' = [status EXCEPT ![e] = "DELIVERED"]
  /\ NextEvent(r, e)
  /\ UNCHANGED <<attempts, sendVars, channel, shared, faults, outages>>

\* The update to PUBLISHED.
Settle(r, e) ==
  /\ At(r, "settle", e)
  /\ \/ /\ status' = [status EXCEPT ![e] = "PUBLISHED"]
        /\ NextEvent(r, e)
        /\ UNCHANGED faults
     \/ /\ Fault /\ Goto(r, "catch")
        /\ \/ status' = [status EXCEPT ![e] = "PUBLISHED"]
           \/ UNCHANGED status
  /\ UNCHANGED <<attempts, sendVars, channel, shared, outages>>

\* Mutant of Catch: the attempt is counted twice.
CatchCountsTwice(r, e) ==
  /\ At(r, "catch", e)
  /\ status' = [status EXCEPT ![e] =
                  IF runner[r].seen[e] + 2 >= MaxAttempts THEN "FAILED" ELSE "PENDING"]
  /\ NextEvent(r, e)
  /\ UNCHANGED <<attempts, sendVars, channel, shared, faults, outages>>

\* Mutant of Catch: the error is logged and the row left as it is.
CatchOnlyLogs(r, e) ==
  /\ At(r, "catch", e)
  /\ NextEvent(r, e)
  /\ UNCHANGED <<rowVars, sendVars, channel, shared, faults, outages>>

\* The catch block: retry or give up, by the attempts read with the batch.
\* When this update rejects too, the whole run ends.
Catch(r, e) ==
  LET newStatus == IF runner[r].seen[e] + 1 >= MaxAttempts THEN "FAILED" ELSE "PENDING"
  IN
  /\ At(r, "catch", e)
  /\ \/ /\ status' = [status EXCEPT ![e] = newStatus]
        /\ NextEvent(r, e)
        /\ UNCHANGED faults
     \/ /\ Fault
        /\ runner' = [runner EXCEPT ![r] = Idle]
        /\ \/ status' = [status EXCEPT ![e] = newStatus]
           \/ UNCHANGED status
  /\ UNCHANGED <<attempts, sendVars, channel, shared, outages>>

\* The process dies or is shut down, which does not wait for the publisher;
\* it starts again as it first did.
Crash ==
  /\ Fault
  /\ runner' = [r \in Runner |-> Idle]
  /\ channel' = IF Connects THEN "open" ELSE "null"
  /\ UNCHANGED <<rowVars, sendVars, shared, outages>>

\* The connection breaks; the process notices later and sets channel to null;
\* reconnect opens a new one.
Break ==
  /\ channel = "open" /\ outages < MaxOutages
  /\ channel' = "broken"
  /\ outages' = outages + 1
  /\ UNCHANGED <<rowVars, sendVars, runner, shared, faults>>

NoticeClose ==
  /\ channel = "broken"
  /\ channel' = "null"
  /\ UNCHANGED <<rowVars, sendVars, runner, shared, faults, outages>>

Reconnect ==
  /\ Connects /\ channel = "null"
  /\ channel' = "open"
  /\ UNCHANGED <<rowVars, sendVars, runner, shared, faults, outages>>

Run(r) == \E e \in Event : Claim(r, e) \/ Publish(r, e) \/ Settle(r, e) \/ Catch(r, e)

Next ==
  \/ \E e \in Event : Create(e)
  \/ \E r \in Runner : Tick(r) \/ Run(r)
  \/ Crash \/ Break \/ NoticeClose \/ Reconnect

Spec == Init /\ [][Next]_vars

\* The cron keeps ticking, a run goes on unless it is cut off, and the client
\* library notices a broken connection; reconnect runs five seconds after.
FairSpec ==
  /\ Spec
  /\ \A r \in Runner : WF_vars(Tick(r)) /\ WF_vars(Run(r))
  /\ WF_vars(NoticeClose) /\ WF_vars(Reconnect)

-----------------------------------------------------------------------------
(* Properties *)

\* An event is given up only when it was tried often enough: the count the
\* decision uses is stale, but only ever too small.
FailedWasTried ==
  \A e \in Event : status[e] = "FAILED" => attempts[e] >= MaxAttempts - 1

\* The attempts column bounds the messages: each message was counted before it
\* was sent, by overlapping runs and after crashes too.
SentIsCounted ==
  \A e \in Event : sent[e] <= attempts[e]

\* An event marked PUBLISHED reached the broker, unless a connection broke.
PublishedReachedBroker ==
  \A e \in Event : status[e] = "PUBLISHED" => delivered[e] > 0 \/ outages > 0

\* A message is duplicated only when two runs had the event at once, or a
\* database call failed or the process died; broken connections alone do not.
DuplicateNeedsOverlapOrFault ==
  \A e \in Event : sent[e] > 1 => e \in shared \/ faults > 0

\* As long as no database call fails and the process lives, a pending event is
\* published or given up.
PendingIsSettled ==
  \A e \in Event : status[e] = "PENDING" ~>
                      status[e] \in {"PUBLISHED", "FAILED"} \/ faults > 0

\* An event that was claimed leaves PROCESSING, unless a database call failed
\* or the process died: the publisher reads only PENDING events, so one whose
\* run was cut off after the claim is never looked at again
\* (outbox.worker.ts:9, 20-43), whatever ARCHITECTURE.md:45 promises.
ClaimedIsResolved ==
  \A e \in Event : status[e] = "PROCESSING" ~> status[e] # "PROCESSING" \/ faults > 0

(* What the architecture document says of the outbox, and the code does not do. *)

\* "Publishes to RabbitMQ", "Marks event as PUBLISHED": every event is published
\* in the end.  worker.ts hosts the publisher and never connects.
EventIsPublished ==
  \A e \in Event : status[e] = "PENDING" ~> status[e] = "PUBLISHED"

=============================================================================

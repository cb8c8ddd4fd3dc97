------------------------------- MODULE Broker -------------------------------
(***************************************************************************)
(* The RabbitMQ connection of a process and the life of that process:      *)
(* src/src/queues/rabbitmq.ts and src/src/server.ts.                       *)
(*                                                                         *)
(* connection and channel are the module's two variables, shared by every  *)
(* running connectRabbitMQ: a connection that breaks starts one reconnect  *)
(* for each of its listeners and events, and they interleave at each await.*)
(***************************************************************************)
EXTENDS Naturals, FiniteSets

CONSTANTS Conn,       \* connection objects
          Slot,       \* bound: attempts to connect in progress
          None,       \* null
          MaxOutages  \* bound: outages of the broker and breaks of a connection

ASSUME BrokerAssumption ==
  /\ IsFiniteSet(Conn) /\ IsFiniteSet(Slot) /\ Slot # {}
  /\ None \notin Conn
  /\ MaxOutages \in Nat

VARIABLES proc,       \* the process: booting, running, closing, stopped, crashed
          up,         \* the broker accepts connections
          alive,      \* the connections that are open
          listeners,  \* per connection: calls of on('error') and on('close')
          connection, \* rabbitmq.ts:22
          channel,    \* rabbitmq.ts:23, as the connection it belongs to
          attempt,    \* per slot: where a connectRabbitMQ or reconnect waits
          outages,
          skipped,    \* history: this process went on without a broker
          doubled     \* history: this process connected twice at once

vars == <<proc, up, alive, listeners, connection, channel, attempt, outages,
          skipped, doubled>>

NoAttempt == [at |-> "none", conn |-> None, boot |-> FALSE]
Busy == {s \in Slot : attempt[s].at # "none"}
Usable == channel # None /\ channel \in alive

\* The process ends: its connections are closed and its memory is lost.
Exit(how) ==
  /\ proc' = how
  /\ alive' = {}
  /\ listeners' = [c \in Conn |-> 0]
  /\ connection' = None
  /\ channel' = None
  /\ attempt' = [s \in Slot |-> NoAttempt]
  /\ skipped' = FALSE
  /\ doubled' = FALSE

Crash == Exit(IF proc = "closing" THEN "stopped" ELSE "crashed")

\* Mutant of BootSlots: every part of main that uses the broker connects.
BootEach == Slot

\* main connects once; which slot it takes tells nothing.
BootSlots == {CHOOSE s \in Slot : TRUE}

\* main: the first connectRabbitMQ; Docker restarts a process that crashed.
Boot ==
  /\ proc = "crashed"
  /\ proc' = "booting"
  /\ attempt' = [s \in Slot |-> IF s \in BootSlots
                                THEN [NoAttempt EXCEPT !.at = "dial", !.boot = TRUE]
                                ELSE attempt[s]]
  /\ UNCHANGED <<up, alive, listeners, connection, channel, outages, skipped, doubled>>

\* A rejected connectRabbitMQ: main catches it and goes on without a broker;
\* nobody catches it in reconnect, and unhandledRejection exits the process.
ConnectFails(s) ==
  /\ IF attempt[s].boot
     THEN /\ proc' = "running"
          /\ skipped' = TRUE
          /\ attempt' = [attempt EXCEPT ![s] = NoAttempt]
          /\ UNCHANGED <<alive, listeners, connection, channel, doubled>>
     ELSE Crash
  /\ UNCHANGED <<up, outages>>

\* Mutant of Dialled: the attempt goes on with what connection was before.
DialledBefore(c) == connection

\* The connection whose createChannel is called.
Dialled(c) == c

\* connection = await amqplib.connect(...)
Dial(s) ==
  /\ attempt[s].at = "dial"
  /\ IF ~up THEN ConnectFails(s)
     ELSE \E c \in Conn :
          /\ c \notin alive \cup {connection, channel} \cup {attempt[b].conn : b \in Busy}
          /\ alive' = alive \cup {c}
          /\ listeners' = [listeners EXCEPT ![c] = 0]
          /\ connection' = c
          /\ attempt' = [attempt EXCEPT ![s].at = "channel", ![s].conn = Dialled(c)]
          /\ UNCHANGED <<proc, up, channel, outages, skipped, doubled>>

\* channel = await connection.createChannel(), of the connection just opened.
OpenChannel(s) ==
  /\ attempt[s].at = "channel"
  /\ IF attempt[s].conn \notin alive THEN ConnectFails(s)
     ELSE /\ channel' = attempt[s].conn
          /\ attempt' = [attempt EXCEPT ![s].at = "configure"]
          /\ UNCHANGED <<proc, up, alive, listeners, connection, outages, skipped, doubled>>

\* The exchanges and queues are declared on the variable channel and the
\* listeners added to the variable connection, whoever assigned them last.
Configure(s) ==
  /\ attempt[s].at = "configure"
  /\ IF ~Usable \/ connection = None THEN ConnectFails(s)
     ELSE /\ listeners' = [listeners EXCEPT ![connection] = @ + 1]
          /\ attempt' = [attempt EXCEPT ![s] = NoAttempt]
          /\ proc' = IF proc = "booting" THEN "running" ELSE proc
          /\ UNCHANGED <<up, alive, connection, channel, outages, skipped, doubled>>

\* Mutant of Reconnects: the listeners do not reconnect.
NoReconnects(c, event) == 0

\* How many reconnects the events of a broken connection start: close comes
\* alone when the broker ends the connection, after an error otherwise.
Reconnects(c, event) == IF event = "error" THEN 2 * listeners[c] ELSE listeners[c]

\* What reconnect begins with, and closeRabbitMQ ends with.
Forget == connection' = None /\ channel' = None

\* reconnect, called n times: each call waits for 5 s before it connects.
StartReconnects(n) ==
  /\ n <= Cardinality(Slot \ Busy)
  /\ LET S == CHOOSE T \in SUBSET (Slot \ Busy) : Cardinality(T) = n IN
     attempt' = [s \in Slot |-> IF s \in S THEN [NoAttempt EXCEPT !.at = "timer"] ELSE attempt[s]]
  /\ doubled' = (doubled \/ Cardinality(Busy) + n > 1)

\* A connection breaks.  An error event that nobody listens to is thrown; a
\* reconnect forgets the connection at once.
Break(c, event) ==
  /\ c \in alive
  /\ outages < MaxOutages
  /\ outages' = outages + 1
  /\ IF event = "error" /\ listeners[c] = 0
     THEN Crash
     ELSE /\ alive' = alive \ {c}
          /\ StartReconnects(Reconnects(c, event))
          /\ IF Reconnects(c, event) > 0 THEN Forget ELSE UNCHANGED <<connection, channel>>
          /\ UNCHANGED <<proc, listeners, skipped>>
  /\ UNCHANGED up

Timer(s) ==
  /\ attempt[s].at = "timer"
  /\ attempt' = [attempt EXCEPT ![s].at = "dial"]
  /\ UNCHANGED <<proc, up, alive, listeners, connection, channel, outages, skipped, doubled>>

BrokerDown ==
  /\ up /\ outages < MaxOutages
  /\ up' = FALSE
  /\ outages' = outages + 1
  /\ UNCHANGED <<proc, alive, listeners, connection, channel, attempt, skipped, doubled>>

BrokerUp ==
  /\ ~up
  /\ up' = TRUE
  /\ UNCHANGED <<proc, alive, listeners, connection, channel, attempt, outages, skipped, doubled>>

\* shutdown: closeRabbitMQ closes channel and connection and sets both to null;
\* closing one that is broken throws, and the process exits with 1 instead of 0.
\* The close event starts a reconnect here too, which finds the timer's five
\* seconds, or the process gone.
Shutdown ==
  /\ proc = "running"
  /\ IF ~({channel, connection} \subseteq alive \cup {None})
     THEN Exit("stopped")
     ELSE /\ proc' = "closing"
          /\ alive' = alive \ {connection}
          /\ Forget
          /\ StartReconnects(IF connection \in alive THEN listeners[connection] ELSE 0)
          /\ UNCHANGED <<listeners, skipped>>
  /\ UNCHANGED <<up, outages>>

\* closeRedis and the telemetry are done: process.exit(0).
Stop == proc = "closing" /\ Exit("stopped") /\ UNCHANGED <<up, outages>>

\* The operator starts the container again.
Start == proc = "stopped" /\ proc' = "crashed"
         /\ UNCHANGED <<up, alive, listeners, connection, channel, attempt, outages,
                        skipped, doubled>>

Init ==
  /\ proc = "crashed" /\ up = TRUE
  /\ alive = {} /\ listeners = [c \in Conn |-> 0]
  /\ connection = None /\ channel = None
  /\ attempt = [s \in Slot |-> NoAttempt]
  /\ outages = 0 /\ skipped = FALSE /\ doubled = FALSE

Connecting(s) == Timer(s) \/ Dial(s) \/ OpenChannel(s) \/ Configure(s)

Next ==
  \/ Boot \/ BrokerDown \/ BrokerUp \/ Shutdown \/ Stop \/ Start
  \/ \E s \in Slot : Connecting(s)
  \/ \E c \in Conn, event \in {"error", "close"} : Break(c, event)

Spec == Init /\ [][Next]_vars

\* Timers fire, amqplib settles its promises, Docker restarts the container,
\* shutdown runs to its end, and the broker comes back.
FairSpec ==
  /\ Spec
  /\ WF_vars(Boot) /\ WF_vars(BrokerUp) /\ WF_vars(Stop)
  /\ \A s \in Slot : WF_vars(Connecting(s))
-----------------------------------------------------------------------------
\* Each variable has a value of its kind; an attempt that opens a channel or
\* configures it holds a connection of its own.
TypeOK ==
  /\ proc \in {"booting", "running", "closing", "stopped", "crashed"}
  /\ up \in BOOLEAN
  /\ alive \subseteq Conn
  /\ listeners \in [Conn -> Nat]
  /\ {connection, channel} \subseteq Conn \cup {None}
  /\ attempt \in [Slot -> [at : {"none", "timer", "dial", "channel", "configure"},
                           conn : Conn \cup {None}, boot : BOOLEAN]]
  /\ \A s \in Slot : attempt[s].at \in {"channel", "configure"} => attempt[s].conn # None
  /\ outages \in 0..MaxOutages
  /\ skipped \in BOOLEAN /\ doubled \in BOOLEAN

\* A process holds one connection to the broker, unless it connected twice at
\* once: an error event and the close event after it each start a reconnect,
\* and the connection assigned first is lost open (rabbitmq.ts:27, 62-70).
OneConnection == Cardinality(alive) > 1 => doubled

\* A process that has no usable channel is about to get one, unless it
\* started without a broker, which it never tries again (server.ts:16-20), or
\* connected twice: then its channel may belong to a connection that has no
\* listener, and when that one breaks nothing notices.
LossIsNoticed ==
  proc = "running" /\ ~Usable => Busy # {} \/ skipped \/ doubled

\* A process without a usable channel gets one, if need be by crashing and
\* starting again, or has stopped, with the same two exceptions.
LossIsRepaired ==
  (proc = "running" /\ ~Usable) ~> (Usable \/ skipped \/ doubled \/ proc = "stopped")
=============================================================================

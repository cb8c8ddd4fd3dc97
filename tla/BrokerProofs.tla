---------------------------- MODULE BrokerProofs ----------------------------
(* Proofs of the safety properties of Broker, for any constants. *)
EXTENDS Broker, FiniteSetTheorems, TLAPS

(***************************************************************************)
(* The inductive invariant.                                                *)
(***************************************************************************)

\* A process that is not there has no connection and connects to nothing.
GoneIsQuiet == proc \in {"stopped", "crashed"} => Busy = {} /\ alive = {}

\* A process that never connected twice at once: one attempt at a time, which
\* works on the variables' own connection and starts when none is open.
Single ==
  /\ \A s, u \in Busy : s = u
  /\ alive \subseteq {connection}
  /\ \A s \in Slot : attempt[s].at \in {"timer", "dial"} => alive = {}
  /\ \A s \in Slot : attempt[s].at = "configure" => channel = connection

\* Once it is connected it has a channel of a connection it listens to.
Listened ==
  proc = "running" /\ Busy = {} /\ ~skipped =>
    channel = connection /\ connection \in alive /\ listeners[connection] > 0

Inv == TypeOK /\ GoneIsQuiet /\ (~doubled => Single /\ Listened)

-----------------------------------------------------------------------------
(***************************************************************************)
(* Attempts and the steps that start, move and end them.                   *)
(***************************************************************************)
Attempt == [at : {"none", "timer", "dial", "channel", "configure"},
            conn : Conn \cup {None}, boot : BOOLEAN]

\* The records of a slot without an attempt and of one that starts.
LEMMA NoAttemptTyped ==
  /\ NoAttempt \in Attempt /\ NoAttempt.at = "none"
  /\ [NoAttempt EXCEPT !.at = "timer"] \in Attempt
  /\ [NoAttempt EXCEPT !.at = "timer"].at = "timer"
  /\ [NoAttempt EXCEPT !.at = "dial", !.boot = TRUE] \in Attempt
  /\ [NoAttempt EXCEPT !.at = "dial", !.boot = TRUE].at = "dial"
  BY DEF NoAttempt, Attempt

\* The attempts in progress are finitely many.
LEMMA BusyFinite == Busy \in SUBSET Slot /\ IsFiniteSet(Busy) /\ Cardinality(Busy) \in Nat
<1>1. Busy \in SUBSET Slot
  BY DEF Busy
<1> QED
  BY <1>1, BrokerAssumption, FS_Subset, FS_CardinalityType

\* What StartReconnects does to the attempts of a process that does not connect
\* twice by it: nothing, or it starts the only one.
LEMMA StartReconnectsEffect ==
  ASSUME TypeOK, NEW n \in Nat, StartReconnects(n)
  PROVE  /\ attempt' \in [Slot -> Attempt]
         /\ \A s \in Slot : attempt'[s] = attempt[s] \/ attempt'[s].at = "timer"
         /\ doubled => doubled'
         /\ doubled' \in BOOLEAN
         /\ ~doubled' /\ n = 0 => attempt' = attempt
         /\ ~doubled' /\ n > 0 => Busy = {} /\ \E x \in Slot : Busy' = {x} /\ attempt'[x].at = "timer"
<1>1. PICK S : S = CHOOSE T \in SUBSET (Slot \ Busy) : Cardinality(T) = n
  OBVIOUS
<1>2. /\ n <= Cardinality(Slot \ Busy)
      /\ attempt' = [s \in Slot |-> IF s \in S THEN [NoAttempt EXCEPT !.at = "timer"] ELSE attempt[s]]
      /\ doubled' = (doubled \/ Cardinality(Busy) + n > 1)
  BY <1>1 DEF StartReconnects
<1>3. attempt \in [Slot -> Attempt] /\ doubled \in BOOLEAN
  BY DEF TypeOK, Attempt
<1>4. PICK w : w = [NoAttempt EXCEPT !.at = "timer"]
  OBVIOUS
<1>5. /\ w \in Attempt /\ w.at = "timer"
      /\ attempt' = [s \in Slot |-> IF s \in S THEN w ELSE attempt[s]]
  BY <1>2, <1>4, NoAttemptTyped
<1>6. /\ attempt' \in [Slot -> Attempt]
      /\ \A s \in Slot : attempt'[s] = attempt[s] \/ attempt'[s].at = "timer"
  BY <1>3, <1>5
<1>7. ~doubled' => Cardinality(Busy) + n <= 1
  <2>1. PICK k : k = Cardinality(Busy)
    OBVIOUS
  <2>2. k \in Nat /\ (~doubled' => ~(k + n > 1))
    BY <1>2, <2>1, BusyFinite
  <2> QED
    BY <2>1, <2>2
<1>8. ASSUME ~doubled', n = 0
      PROVE  attempt' = attempt
  <2>1. {} \in SUBSET (Slot \ Busy) /\ Cardinality({}) = n
    BY <1>8, FS_EmptySet
  <2>2. S \in SUBSET (Slot \ Busy) /\ Cardinality(S) = n
    BY <1>1, <2>1
  <2>3. S = {}
    BY <1>8, <2>2, BrokerAssumption, FS_Subset, FS_EmptySet
  <2> QED
    BY <1>3, <1>5, <2>3
<1>9. ASSUME ~doubled', n > 0
      PROVE  Busy = {} /\ \E x \in Slot : Busy' = {x} /\ attempt'[x].at = "timer"
  <2>1. n = 1 /\ Cardinality(Busy) = 0
    BY <1>7, <1>9, BusyFinite
  <2>2. Busy = {}
    BY <2>1, BusyFinite, FS_EmptySet
  <2>3. PICK y : y \in Slot
    BY BrokerAssumption
  <2>4. {y} \in SUBSET (Slot \ Busy) /\ Cardinality({y}) = n
    BY <2>1, <2>2, <2>3, FS_Singleton
  <2>5. S \in SUBSET (Slot \ Busy) /\ Cardinality(S) = n
    BY <1>1, <2>4
  <2>6. IsFiniteSet(S)
    BY <2>5, BrokerAssumption, FS_Subset
  <2>7. PICK x : S = {x}
    BY <2>1, <2>5, <2>6, FS_Singleton
  <2>8. x \in Slot /\ attempt'[x].at = "timer"
    BY <1>5, <2>5, <2>7
  <2>9. \A s \in Slot : s # x => attempt'[s].at = "none"
    BY <1>5, <2>2, <2>7 DEF Busy
  <2>10. Busy' = {x}
    BY <2>8, <2>9 DEF Busy
  <2> QED
    BY <2>2, <2>8, <2>10
<1> QED
  BY <1>2, <1>3, <1>6, <1>8, <1>9

\* The process ends and forgets everything.
LEMMA ExitKeepsInv ==
  ASSUME TypeOK, NEW how \in {"stopped", "crashed"}, Exit(how),
         up' \in BOOLEAN, outages' \in 0..MaxOutages
  PROVE  Inv'
<1>1. /\ proc' = how /\ alive' = {} /\ listeners' = [c \in Conn |-> 0]
      /\ connection' = None /\ channel' = None /\ skipped' = FALSE /\ doubled' = FALSE
      /\ attempt' = [s \in Slot |-> NoAttempt]
  BY DEF Exit
<1>2. \A s \in Slot : attempt'[s].at = "none"
  BY <1>1, NoAttemptTyped
<1>3. attempt' \in [Slot -> Attempt]
  BY <1>1, NoAttemptTyped
<1>4. Busy' = {}
  BY <1>2 DEF Busy
<1>5. TypeOK'
  BY <1>1, <1>2, <1>3 DEF TypeOK, Attempt
<1> QED
  BY <1>1, <1>2, <1>4, <1>5 DEF Inv, GoneIsQuiet, Single, Listened

\* A rejection that nobody catches ends the process.
LEMMA CrashKeepsInv ==
  ASSUME TypeOK, Crash, up' \in BOOLEAN, outages' \in 0..MaxOutages
  PROVE  Inv'
  BY ExitKeepsInv DEF Crash

\* One attempt goes on at a, or is over, and the others wait where they are.
Moved(s, e) ==
  /\ attempt' \in [Slot -> Attempt]
  /\ attempt'[s] = e
  /\ \A u \in Slot \ {s} : attempt'[u] = attempt[u]

\* A rejected attempt ends the process, or is the one that main gives up.
LEMMA ConnectFailsKeepsInv ==
  ASSUME Inv, NEW s \in Slot, attempt[s].at # "none", ConnectFails(s)
  PROVE  Inv'
<1>1. up' \in BOOLEAN /\ outages' \in 0..MaxOutages
  BY DEF ConnectFails, Inv, TypeOK
<1>2. CASE ~attempt[s].boot
  BY <1>1, <1>2, CrashKeepsInv DEF ConnectFails, Inv
<1>3. CASE attempt[s].boot
  <2>1. /\ proc' = "running" /\ skipped' = TRUE
        /\ attempt' = [attempt EXCEPT ![s] = NoAttempt]
        /\ UNCHANGED <<alive, listeners, connection, channel, doubled>>
    BY <1>3 DEF ConnectFails
  <2>2. attempt \in [Slot -> Attempt]
    BY DEF Inv, TypeOK, Attempt
  <2>3. attempt' \in [Slot -> Attempt] /\ attempt'[s].at = "none"
    BY <2>1, <2>2, NoAttemptTyped
  <2>4. \A u \in Slot \ {s} : attempt'[u] = attempt[u]
    BY <2>1, <2>2
  <2>5. TypeOK'
    BY <1>1, <2>1, <2>3, <2>4 DEF Inv, TypeOK, Attempt
  <2>6. Busy' \subseteq Busy
    BY <2>3, <2>4 DEF Busy
  <2>7. Single => Single'
    BY <2>1, <2>3, <2>4, <2>6 DEF Single
  <2> QED
    BY <2>1, <2>5, <2>7 DEF Inv, GoneIsQuiet, Listened
<1> QED
  BY <1>2, <1>3

-----------------------------------------------------------------------------
(***************************************************************************)
(* Every step keeps the invariant.                                         *)
(***************************************************************************)

\* An attempt that goes on: its record, and what stays busy.
LEMMA GoesOn ==
  ASSUME TypeOK, NEW s \in Slot, NEW e \in Attempt, attempt[s].at # "none", e.at # "none",
         attempt' = [attempt EXCEPT ![s] = e]
  PROVE  Moved(s, e) /\ Busy' = Busy
<1>1. attempt \in [Slot -> Attempt]
  BY DEF TypeOK, Attempt
<1>2. Moved(s, e)
  BY <1>1 DEF Moved
<1> QED
  BY <1>2 DEF Moved, Busy

\* connect: the broker accepts, and the variable holds the only connection.
LEMMA DialKeepsInv ==
  ASSUME Inv, NEW s \in Slot, Dial(s)
  PROVE  Inv'
<1>1. attempt[s].at = "dial"
  BY DEF Dial
<1>2. CASE ~up
  BY <1>1, <1>2, ConnectFailsKeepsInv DEF Dial
<1>3. CASE up
  <2>1. PICK c \in Conn :
          /\ alive' = alive \cup {c}
          /\ listeners' = [listeners EXCEPT ![c] = 0]
          /\ connection' = c
          /\ attempt' = [attempt EXCEPT ![s].at = "channel", ![s].conn = c]
          /\ UNCHANGED <<proc, up, channel, outages, skipped, doubled>>
    BY <1>3 DEF Dial, Dialled
  <2>2. PICK e : e = [attempt[s] EXCEPT !.at = "channel", !.conn = c]
    OBVIOUS
  <2>3. attempt' = [attempt EXCEPT ![s] = e]
    BY <2>1, <2>2
  <2>4. e \in Attempt /\ e.at = "channel" /\ e.conn = c
    BY <2>2 DEF Inv, TypeOK, Attempt
  <2>5. Moved(s, e) /\ Busy' = Busy
    BY <1>1, <2>3, <2>4, GoesOn DEF Inv
  <2>6. s \in Busy
    BY <1>1 DEF Busy
  <2>7. TypeOK'
    <3>1. listeners' \in [Conn -> Nat] /\ c # None
      BY <2>1, BrokerAssumption DEF Inv, TypeOK
    <3> QED
      BY <2>1, <2>4, <2>5, <3>1 DEF Inv, TypeOK, Attempt, Moved
  <2>8. GoneIsQuiet' /\ Listened'
    BY <2>1, <2>5, <2>6 DEF Inv, GoneIsQuiet, Listened
  <2>9. ASSUME ~doubled PROVE Single'
    <3>1. \A u \in Slot \ {s} : attempt'[u].at = "none"
      BY <2>5, <2>6, <2>9 DEF Inv, Single, Busy, Moved
    <3>2. alive = {}
      BY <1>1, <2>9 DEF Inv, Single
    <3> QED
      BY <2>1, <2>4, <2>5, <2>9, <3>1, <3>2 DEF Inv, Single, Moved
  <2> QED
    BY <2>1, <2>7, <2>8, <2>9 DEF Inv
<1> QED
  BY <1>2, <1>3

\* createChannel, of the connection that the attempt opened.
LEMMA OpenChannelKeepsInv ==
  ASSUME Inv, NEW s \in Slot, OpenChannel(s)
  PROVE  Inv'
<1>1. attempt[s].at = "channel"
  BY DEF OpenChannel
<1>2. CASE attempt[s].conn \notin alive
  BY <1>1, <1>2, ConnectFailsKeepsInv DEF OpenChannel
<1>3. CASE attempt[s].conn \in alive
  <2>1. PICK c : c = attempt[s].conn
    OBVIOUS
  <2>2. PICK e : e = [attempt[s] EXCEPT !.at = "configure"]
    OBVIOUS
  <2>3. /\ channel' = c
        /\ attempt' = [attempt EXCEPT ![s] = e]
        /\ UNCHANGED <<proc, up, alive, listeners, connection, outages, skipped, doubled>>
    BY <1>3, <2>1, <2>2 DEF OpenChannel
  <2>4. e \in Attempt /\ e.at = "configure" /\ e.conn = c /\ c \in Conn \cup {None} /\ c # None
    BY <1>1, <2>1, <2>2 DEF Inv, TypeOK, Attempt
  <2>5. Moved(s, e) /\ Busy' = Busy
    BY <1>1, <2>3, <2>4, GoesOn DEF Inv
  <2>6. s \in Busy
    BY <1>1 DEF Busy
  <2>7. TypeOK'
    BY <2>3, <2>4, <2>5 DEF Inv, TypeOK, Attempt, Moved
  <2>8. GoneIsQuiet' /\ Listened'
    BY <2>3, <2>5, <2>6 DEF Inv, GoneIsQuiet, Listened
  <2>9. ASSUME ~doubled PROVE Single'
    <3>1. \A u \in Slot \ {s} : attempt'[u].at = "none"
      BY <2>5, <2>6, <2>9 DEF Inv, Single, Busy, Moved
    <3>2. channel' = connection'
      BY <1>3, <2>1, <2>3, <2>9 DEF Inv, Single
    <3> QED
      BY <2>3, <2>4, <2>5, <2>9, <3>1, <3>2 DEF Inv, Single, Moved
  <2> QED
    BY <2>3, <2>7, <2>8, <2>9 DEF Inv
<1> QED
  BY <1>2, <1>3

\* The end of an attempt that succeeds: the connection is listened to.
LEMMA ConfigureKeepsInv ==
  ASSUME Inv, NEW s \in Slot, Configure(s)
  PROVE  Inv'
<1>1. attempt[s].at = "configure"
  BY DEF Configure
<1>2. CASE ~Usable \/ connection = None
  BY <1>1, <1>2, ConnectFailsKeepsInv DEF Configure
<1>3. CASE Usable /\ connection # None
  <2>1. /\ listeners' = [listeners EXCEPT ![connection] = @ + 1]
        /\ attempt' = [attempt EXCEPT ![s] = NoAttempt]
        /\ proc' = IF proc = "booting" THEN "running" ELSE proc
        /\ UNCHANGED <<up, alive, connection, channel, outages, skipped, doubled>>
    BY <1>3 DEF Configure
  <2>2. attempt \in [Slot -> Attempt] /\ connection \in Conn /\ listeners \in [Conn -> Nat]
    BY <1>3 DEF Inv, TypeOK, Attempt
  <2>3. /\ attempt' \in [Slot -> Attempt] /\ attempt'[s].at = "none"
        /\ \A u \in Slot \ {s} : attempt'[u] = attempt[u]
    BY <2>1, <2>2, NoAttemptTyped
  <2>4. listeners' \in [Conn -> Nat] /\ listeners'[connection] > 0
    BY <2>1, <2>2
  <2>5. TypeOK'
    BY <2>1, <2>3, <2>4 DEF Inv, TypeOK, Attempt
  <2>6. s \in Busy /\ Busy' \subseteq Busy
    BY <1>1, <2>3 DEF Busy
  <2>7. GoneIsQuiet'
    BY <2>1, <2>6 DEF Inv, GoneIsQuiet
  <2>8. ASSUME ~doubled PROVE Single' /\ Listened'
    <3>1. Single'
      BY <2>1, <2>3, <2>6, <2>8 DEF Inv, Single
    <3>2. channel = connection /\ connection \in alive
      BY <1>1, <1>3, <2>8 DEF Inv, Single, Usable
    <3> QED
      BY <2>1, <2>4, <3>1, <3>2 DEF Listened
  <2> QED
    BY <2>1, <2>5, <2>7, <2>8 DEF Inv
<1> QED
  BY <1>2, <1>3

\* Five seconds after the loss, reconnect dials.
LEMMA TimerKeepsInv ==
  ASSUME Inv, NEW s \in Slot, Timer(s)
  PROVE  Inv'
<1>1. PICK e : e = [attempt[s] EXCEPT !.at = "dial"]
  OBVIOUS
<1>2. /\ attempt[s].at = "timer"
      /\ attempt' = [attempt EXCEPT ![s] = e]
      /\ UNCHANGED <<proc, up, alive, listeners, connection, channel, outages, skipped, doubled>>
  BY <1>1 DEF Timer
<1>3. e \in Attempt /\ e.at = "dial"
  BY <1>1 DEF Inv, TypeOK, Attempt
<1>4. Moved(s, e) /\ Busy' = Busy
  BY <1>2, <1>3, GoesOn DEF Inv
<1>5. TypeOK'
  BY <1>2, <1>3, <1>4 DEF Inv, TypeOK, Attempt, Moved
<1>6. GoneIsQuiet' /\ (Listened => Listened')
  BY <1>2, <1>4 DEF Inv, GoneIsQuiet, Listened
<1>7. Single => Single'
  <2>1. \A u \in Slot \ {s} : attempt'[u] = attempt[u]
    BY <1>4 DEF Moved
  <2>2. attempt'[s].at = "dial"
    BY <1>3, <1>4 DEF Moved
  <2> QED
    BY <1>2, <1>4, <2>1, <2>2 DEF Single
<1> QED
  BY <1>2, <1>5, <1>6, <1>7 DEF Inv

\* A connection breaks: nothing listened to it yet, or one reconnect starts, or
\* the process connects twice from now on.
LEMMA BreakKeepsInv ==
  ASSUME Inv, NEW c \in Conn, NEW event \in {"error", "close"}, Break(c, event)
  PROVE  Inv'
<1>1. c \in alive /\ outages' \in 0..MaxOutages /\ UNCHANGED up /\ up \in BOOLEAN
  BY BrokerAssumption DEF Break, Inv, TypeOK
<1>2. CASE event = "error" /\ listeners[c] = 0
  BY <1>1, <1>2, CrashKeepsInv DEF Break, Inv
<1>3. CASE ~(event = "error" /\ listeners[c] = 0)
  <2>1. PICK n : n = Reconnects(c, event)
    OBVIOUS
  <2>2. /\ alive' = alive \ {c}
        /\ StartReconnects(n)
        /\ connection' = IF n > 0 THEN None ELSE connection
        /\ channel' = IF n > 0 THEN None ELSE channel
        /\ UNCHANGED <<proc, listeners, skipped>>
    BY <1>3, <2>1 DEF Break, Forget
  <2>3. n \in Nat /\ (listeners[c] > 0 => n > 0)
    BY <2>1 DEF Reconnects, Inv, TypeOK
  <2>4. TypeOK
    BY DEF Inv
  <2>5. /\ attempt' \in [Slot -> Attempt]
        /\ \A s \in Slot : attempt'[s] = attempt[s] \/ attempt'[s].at = "timer"
        /\ doubled => doubled'
        /\ doubled' \in BOOLEAN
        /\ ~doubled' /\ n = 0 => attempt' = attempt
        /\ ~doubled' /\ n > 0 => Busy = {} /\ \E x \in Slot : Busy' = {x} /\ attempt'[x].at = "timer"
    BY <2>2, <2>3, <2>4, StartReconnectsEffect
  <2>6. TypeOK'
    BY <1>1, <2>2, <2>5 DEF Inv, TypeOK, Attempt
  <2>7. GoneIsQuiet'
    BY <1>1, <2>2 DEF Inv, GoneIsQuiet
  <2>8. ASSUME ~doubled' PROVE Single' /\ Listened'
    <3>1. alive = {connection} /\ alive' = {} /\ Single /\ Listened
      BY <1>1, <2>2, <2>5, <2>8 DEF Inv, Single
    <3>2. CASE n = 0
      <4>1. attempt' = attempt /\ Busy' = Busy /\ listeners[c] = 0
        BY <2>3, <2>4, <2>5, <2>8, <3>2 DEF Busy, TypeOK
      <4>2. Single'
        BY <2>2, <3>1, <3>2, <4>1 DEF Single
      <4>3. Listened'
        BY <1>1, <2>2, <3>1, <4>1 DEF Listened
      <4> QED
        BY <4>2, <4>3
    <3>3. CASE n > 0
      <4>1. PICK x \in Slot : Busy' = {x} /\ attempt'[x].at = "timer"
        BY <2>5, <2>8, <3>3
      <4>2. \A s \in Slot : attempt'[s].at \in {"none", "timer"}
        BY <4>1 DEF Busy
      <4>3. Single'
        BY <3>1, <4>1, <4>2 DEF Single
      <4> QED
        BY <4>1, <4>3 DEF Listened
    <3> QED
      BY <2>3, <3>2, <3>3
  <2> QED
    BY <2>6, <2>7, <2>8 DEF Inv
<1> QED
  BY <1>2, <1>3

\* shutdown closes the only connection, or exits when it is broken.
LEMMA ShutdownKeepsInv ==
  ASSUME Inv, Shutdown
  PROVE  Inv'
<1>1. proc = "running" /\ UNCHANGED <<up, outages>> /\ up \in BOOLEAN /\ outages \in 0..MaxOutages
  BY DEF Shutdown, Inv, TypeOK
<1>2. CASE ~({channel, connection} \subseteq alive \cup {None})
  BY <1>1, <1>2, ExitKeepsInv DEF Shutdown, Inv
<1>3. CASE {channel, connection} \subseteq alive \cup {None}
  <2>1. PICK n : n = IF connection \in alive THEN listeners[connection] ELSE 0
    OBVIOUS
  <2>2. /\ proc' = "closing"
        /\ alive' = alive \ {connection}
        /\ connection' = None
        /\ channel' = None
        /\ StartReconnects(n)
        /\ UNCHANGED <<listeners, skipped>>
    BY <1>3, <2>1 DEF Shutdown, Forget
  <2>3. n \in Nat /\ TypeOK
    BY <2>1 DEF Inv, TypeOK
  <2>4. /\ attempt' \in [Slot -> Attempt]
        /\ \A s \in Slot : attempt'[s] = attempt[s] \/ attempt'[s].at = "timer"
        /\ doubled => doubled'
        /\ doubled' \in BOOLEAN
        /\ ~doubled' /\ n = 0 => attempt' = attempt
        /\ ~doubled' /\ n > 0 => Busy = {} /\ \E x \in Slot : Busy' = {x} /\ attempt'[x].at = "timer"
    BY <2>2, <2>3, StartReconnectsEffect
  <2>5. TypeOK'
    BY <1>1, <2>2, <2>4 DEF Inv, TypeOK, Attempt
  <2>6. GoneIsQuiet' /\ Listened'
    BY <2>2 DEF GoneIsQuiet, Listened
  <2>7. ASSUME ~doubled' PROVE Single'
    <3>1. alive' = {} /\ Single
      BY <2>2, <2>4, <2>7 DEF Inv, Single
    <3>2. CASE n = 0
      BY <2>2, <2>4, <2>7, <3>1, <3>2 DEF Single, Busy
    <3>3. CASE n > 0
      <4>1. PICK x \in Slot : Busy' = {x} /\ attempt'[x].at = "timer"
        BY <2>4, <2>7, <3>3
      <4>2. \A s \in Slot : attempt'[s].at \in {"none", "timer"}
        BY <4>1 DEF Busy
      <4> QED
        BY <3>1, <4>1, <4>2 DEF Single
    <3> QED
      BY <2>3, <3>2, <3>3
  <2> QED
    BY <2>5, <2>6, <2>7 DEF Inv
<1> QED
  BY <1>2, <1>3

\* main: a new process connects once.
LEMMA BootKeepsInv ==
  ASSUME Inv, Boot
  PROVE  Inv'
<1>1. PICK x : x = CHOOSE s \in Slot : TRUE
  OBVIOUS
<1>2. x \in Slot /\ BootSlots = {x}
  BY <1>1, BrokerAssumption DEF BootSlots
<1>3. PICK e : e = [NoAttempt EXCEPT !.at = "dial", !.boot = TRUE]
  OBVIOUS
<1>4. /\ proc = "crashed" /\ proc' = "booting"
      /\ attempt' = [s \in Slot |-> IF s \in {x} THEN e ELSE attempt[s]]
      /\ UNCHANGED <<up, alive, listeners, connection, channel, outages, skipped, doubled>>
  BY <1>2, <1>3 DEF Boot
<1>5. e \in Attempt /\ e.at = "dial"
  BY <1>3, NoAttemptTyped
<1>6. Busy = {} /\ alive = {}
  BY <1>4 DEF Inv, GoneIsQuiet
<1>7. /\ attempt' \in [Slot -> Attempt]
      /\ attempt'[x].at = "dial" /\ \A s \in Slot \ {x} : attempt'[s].at = "none"
  BY <1>2, <1>4, <1>5, <1>6 DEF Inv, TypeOK, Attempt, Busy
<1>8. TypeOK'
  BY <1>4, <1>7 DEF Inv, TypeOK, Attempt
<1>9. Single'
  BY <1>4, <1>6, <1>7 DEF Single, Busy
<1> QED
  BY <1>4, <1>8, <1>9 DEF Inv, GoneIsQuiet, Listened

\* At first the process is not there.
LEMMA InitInv ==
  ASSUME Init
  PROVE  Inv
<1>1. attempt \in [Slot -> Attempt] /\ \A s \in Slot : attempt[s].at = "none"
  BY NoAttemptTyped DEF Init
<1>2. TypeOK
  <2>1. listeners \in [Conn -> Nat] /\ outages \in 0..MaxOutages
    BY BrokerAssumption DEF Init
  <2>2. \A s \in Slot : attempt[s].at \notin {"channel", "configure"}
    BY <1>1
  <2> QED
    BY <1>1, <2>1, <2>2 DEF Init, TypeOK, Attempt
<1>3. Busy = {}
  BY <1>1 DEF Busy
<1> QED
  BY <1>1, <1>2, <1>3 DEF Init, Inv, GoneIsQuiet, Single, Listened

\* Every step of the process and of the broker keeps the invariant.
LEMMA NextInv ==
  ASSUME Inv, [Next]_vars
  PROVE  Inv'
<1>1. ASSUME NEW s \in Slot, Connecting(s)
      PROVE  Inv'
  BY <1>1, TimerKeepsInv, DialKeepsInv, OpenChannelKeepsInv, ConfigureKeepsInv DEF Connecting
<1>2. CASE BrokerDown \/ BrokerUp
  <2>1. /\ UNCHANGED <<proc, alive, listeners, connection, channel, attempt, skipped, doubled>>
        /\ up' \in BOOLEAN /\ outages' \in 0..MaxOutages
    <3>1. outages \in 0..MaxOutages /\ MaxOutages \in Nat
      BY BrokerAssumption DEF Inv, TypeOK
    <3>2. CASE BrokerDown
      <4>1. outages' \in 0..MaxOutages
        <5>1. outages < MaxOutages /\ outages' = outages + 1
          BY <3>2 DEF BrokerDown
        <5> QED
          BY <3>1, <5>1
      <4> QED
        BY <3>2, <4>1 DEF BrokerDown
    <3>3. CASE BrokerUp
      BY <3>1, <3>3 DEF BrokerUp
    <3> QED
      BY <1>2, <3>2, <3>3
  <2> QED
    BY <2>1 DEF Inv, TypeOK, GoneIsQuiet, Single, Listened, Busy
<1>3. CASE Stop
  BY <1>3, ExitKeepsInv DEF Stop, Inv, TypeOK
<1>4. CASE Start \/ UNCHANGED vars
  BY <1>4 DEF Start, vars, Inv, TypeOK, GoneIsQuiet, Single, Listened, Busy
<1> QED
  BY <1>1, <1>2, <1>3, <1>4, BootKeepsInv, ShutdownKeepsInv, BreakKeepsInv DEF Next

\* The invariant holds in every state, for any number of connections, attempts
\* and outages.
THEOREM Invariance == Spec => []Inv
<1>1. Init => Inv
  BY InitInv
<1>2. Inv /\ [Next]_vars => Inv'
  BY NextInv
<1> QED
  BY <1>1, <1>2, PTL DEF Spec

\* Every variable of the process keeps its type.
THEOREM TypeCorrect == Spec => []TypeOK
<1>1. Inv => TypeOK
  BY DEF Inv
<1> QED
  BY <1>1, Invariance, PTL

\* A process holds more than one open connection only after an error event and
\* the close event after it both started a reconnect (rabbitmq.ts:62-70).
THEOREM OneConnectionCorrect == Spec => []OneConnection
<1>1. Inv => OneConnection
  <2> SUFFICES ASSUME Inv, ~doubled
               PROVE  ~(Cardinality(alive) > 1)
    BY DEF Inv, TypeOK, OneConnection
  <2>1. alive = {} \/ alive = {connection}
    BY DEF Inv, Single
  <2>2. Cardinality(alive) \in {0, 1}
    BY <2>1, FS_EmptySet, FS_Singleton
  <2> QED
    BY <2>2
<1> QED
  BY <1>1, Invariance, PTL

\* A running process without a usable channel is connecting, unless it started
\* without a broker or connected twice (server.ts:16-20, rabbitmq.ts:62-70).
THEOREM LossIsNoticedCorrect == Spec => []LossIsNoticed
<1>1. Inv => LossIsNoticed
  BY BrokerAssumption DEF Inv, TypeOK, Listened, LossIsNoticed, Usable
<1> QED
  BY <1>1, Invariance, PTL
=============================================================================

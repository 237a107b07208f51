------------------------------ MODULE KeepAlive ------------------------------
(***************************************************************************)
(* When an idle connection between proxy client and proxy server stays up: *)
(* IdleCheckHandler on the server and on the Java client, the heartbeat    *)
(* goroutine of the Go client, the server's answer to a heartbeat, and the *)
(* back-off of ProxyClient, whose wait() holds the event loop it runs on.  *)
(* The connection is one that the loop may serve besides.                  *)
(***************************************************************************)
EXTENDS Integers, SequencesExt

CONSTANTS Unit,       \* seconds per tick
          Lag,        \* ticks a message is under way at most
          MaxChat     \* bound: messages on their way when an application writes

ASSUME KeepAliveAssumption == Unit \in Nat \ {0} /\ Lag \in Nat /\ MaxChat \in Nat

VARIABLES kaClient,   \* "java" or "go"
          kaOpen,     \* sides whose end is open
          kaHeard,    \* per side: ticks since it read something ...
          kaWrote,    \* ... and since it wrote something
          kaTimer,    \* Go: ticks since time.After was called
          kaWire,     \* per side: messages on the way to it
          kaSilent,   \* ticks since the network lets nothing pass, or Passing
          kaHeld,     \* ticks until the client's loop is back from wait()
          kaSleep,    \* sleepTimeMill, in seconds
          kaLong      \* wait() held the loop for longer than LongWait

kaVars == <<kaClient, kaOpen, kaHeard, kaWrote, kaTimer, kaWire, kaSilent, kaHeld, kaSleep, kaLong>>
kaWaits == <<kaHeld, kaSleep, kaLong>>

Sides   == {"client", "server"}
Passing == -1
LongWait == 8
Ticks(seconds) == (seconds + Unit - 1) \div Unit
Peer(side) == IF side = "client" THEN "server" ELSE "client"

ReadIdleTime == Ticks(60)
ClientWriteIdleUnchanged == Ticks(60)
ClientWriteIdle == Ticks(40 - 10)
WriteIdleTime(side) == IF side = "client" THEN ClientWriteIdle ELSE Ticks(40)
HeartbeatInterval == Ticks(30)

(* After this many ticks of silence each end is closed: the Go client      *)
(* looks every 30 s, and the Java client when its loop is back.            *)
DetectedAfter == IF kaClient = "go" THEN ReadIdleTime + HeartbeatInterval
                 ELSE ReadIdleTime + Ticks(64)

KeepAliveInit == /\ kaClient \in {"java", "go"}
                 /\ kaOpen = Sides
                 /\ kaHeard = [s \in Sides |-> 0] /\ kaWrote = [s \in Sides |-> 0]
                 /\ kaTimer = 0
                 /\ kaWire = [s \in Sides |-> <<>>]
                 /\ kaSilent = Passing
                 /\ kaHeld = 0 /\ kaSleep = 1 /\ kaLong = FALSE
------------------------------------------------------------------------------
Runs(side)  == side \in kaOpen /\ (side = "client" => kaHeld = 0)
Netty(side) == side = "server" \/ kaClient = "java"

Message(beat) == [age |-> 0, beat |-> beat]

(* A message to an end that is gone, or into the silence, is lost.         *)
Sent(side, wire, beat) ==
  IF kaSilent = Passing /\ Peer(side) \in kaOpen
  THEN [wire EXCEPT ![Peer(side)] = Append(@, Message(beat))] ELSE wire

Write(side, beat) == /\ kaWire' = Sent(side, kaWire, beat)
                     /\ kaWrote' = [kaWrote EXCEPT ![side] = 0]

Close(side) == /\ kaOpen' = kaOpen \ {side}
               /\ kaWire' = [kaWire EXCEPT ![side] = <<>>]

Chat(side) == /\ Runs(side) /\ Len(kaWire[Peer(side)]) < MaxChat
              /\ Write(side, FALSE)
              /\ UNCHANGED <<kaClient, kaOpen, kaHeard, kaTimer, kaSilent, kaWaits>>

(* The server answers a heartbeat with a heartbeat, the clients ignore it. *)
Receive(side) == LET m == Head(kaWire[side])
                     rest == [kaWire EXCEPT ![side] = Tail(@)] IN
  /\ Runs(side) /\ kaWire[side] # <<>>
  /\ kaHeard' = [kaHeard EXCEPT ![side] = 0]
  /\ IF side = "server" /\ m.beat
     THEN /\ kaWire' = Sent(side, rest, TRUE)
          /\ kaWrote' = [kaWrote EXCEPT ![side] = 0]
     ELSE kaWire' = rest /\ UNCHANGED kaWrote
  /\ UNCHANGED <<kaClient, kaOpen, kaTimer, kaSilent, kaWaits>>

(* channelIdle                                                             *)
WriteIdleDue(side) == Runs(side) /\ Netty(side) /\ kaWrote[side] >= WriteIdleTime(side)
WriteIdle(side) == /\ WriteIdleDue(side)
                   /\ Write(side, TRUE)
                   /\ UNCHANGED <<kaClient, kaOpen, kaHeard, kaTimer, kaSilent, kaWaits>>

ReadIdleDue(side) == Runs(side) /\ Netty(side) /\ kaHeard[side] >= ReadIdleTime
ReadIdle(side) == /\ ReadIdleDue(side)
                  /\ Close(side)
                  /\ UNCHANGED <<kaClient, kaHeard, kaWrote, kaTimer, kaSilent, kaWaits>>

(* startHeartbeat of the Go client                                         *)
GoTimerDue == kaClient = "go" /\ "client" \in kaOpen /\ kaTimer >= HeartbeatInterval
GoHeartbeatOnly == /\ GoTimerDue
                   /\ Write("client", TRUE) /\ kaTimer' = 0
                   /\ UNCHANGED <<kaClient, kaOpen, kaHeard, kaSilent, kaWaits>>
GoHeartbeat == /\ GoTimerDue
               /\ kaTimer' = 0
               /\ IF kaHeard["client"] >= 2 * HeartbeatInterval
                  THEN Close("client") /\ UNCHANGED kaWrote
                  ELSE Write("client", TRUE) /\ UNCHANGED kaOpen
               /\ UNCHANGED <<kaClient, kaHeard, kaSilent, kaWaits>>

(* The other end was closed and everything it had written is read.         *)
SeesEnd(side) == /\ Runs(side) /\ Peer(side) \notin kaOpen
                 /\ kaSilent = Passing /\ kaWire[side] = <<>>
PeerClosed(side) == /\ SeesEnd(side)
                    /\ Close(side)
                    /\ UNCHANGED <<kaClient, kaHeard, kaWrote, kaTimer, kaSilent, kaWaits>>

FallSilent == /\ kaSilent = Passing /\ kaOpen = Sides
              /\ kaSilent' = 0
              /\ kaWire' = [s \in Sides |-> <<>>]
              /\ UNCHANGED <<kaClient, kaOpen, kaHeard, kaWrote, kaTimer, kaWaits>>
------------------------------------------------------------------------------
Overdue(side) == \/ WriteIdleDue(side) \/ ReadIdleDue(side) \/ SeesEnd(side)
                 \/ Runs(side) /\ kaWire[side] # <<>> /\ Head(kaWire[side]).age >= Lag

(* reconnectWait, for another connection.  Each attempt to connect is on   *)
(* the next loop of the group: "here" when it is the loop of the           *)
(* connection modelled, which has then done what was due.                  *)
NeverReset == 2 * kaSleep
NextSleep == 2 * (IF kaSleep > 60 THEN 1 ELSE kaSleep)

ReconnectWait(here) ==
  /\ kaClient = "java" /\ kaHeld = 0 /\ ~Overdue("client")
  /\ kaSleep' = NextSleep
  /\ IF here THEN kaHeld' = Ticks(NextSleep) /\ kaLong' = (kaLong \/ NextSleep > LongWait)
             ELSE UNCHANGED <<kaHeld, kaLong>>
  /\ UNCHANGED <<kaClient, kaOpen, kaHeard, kaWrote, kaTimer, kaWire, kaSilent>>

(* The connect callback: the back-off starts again.                        *)
Reconnected == /\ kaHeld = 0 /\ kaSleep > 1 /\ kaSleep' = 1
               /\ UNCHANGED <<kaClient, kaOpen, kaHeard, kaWrote, kaTimer, kaWire, kaSilent,
                              kaHeld, kaLong>>

Older(messages) == [i \in DOMAIN messages |->
                      [messages[i] EXCEPT !.age = IF @ < Lag THEN @ + 1 ELSE @]]

Tick == /\ kaOpen # {} /\ ~GoTimerDue /\ \A s \in Sides : ~Overdue(s)
        /\ kaHeard' = [s \in Sides |-> IF s \in kaOpen THEN kaHeard[s] + 1 ELSE 0]
        /\ kaWrote' = [s \in Sides |-> IF s \in kaOpen THEN kaWrote[s] + 1 ELSE 0]
        /\ kaTimer' = IF kaClient = "go" /\ "client" \in kaOpen THEN kaTimer + 1 ELSE 0
        /\ kaWire' = [s \in Sides |-> Older(kaWire[s])]
        /\ kaSilent' = IF kaSilent = Passing THEN Passing ELSE kaSilent + 1
        /\ kaHeld' = IF kaHeld > 0 THEN kaHeld - 1 ELSE 0
        /\ UNCHANGED <<kaClient, kaOpen, kaSleep, kaLong>>

KeepAliveNext == \/ \E s \in Sides : \/ Chat(s) \/ Receive(s) \/ WriteIdle(s)
                                     \/ ReadIdle(s) \/ PeerClosed(s)
                 \/ GoHeartbeat \/ FallSilent \/ Reconnected \/ Tick
                 \/ \E here \in BOOLEAN : ReconnectWait(here)
------------------------------------------------------------------------------
KeepAliveTypeOK == /\ kaOpen \subseteq Sides
                   /\ kaSleep \in {2^i : i \in 0..6}
                   /\ kaHeld <= Ticks(64) /\ kaTimer <= HeartbeatInterval
                   /\ \A s \in kaOpen : s = "server" => kaHeard[s] <= ReadIdleTime

(* An idle connection that works is not closed, by either side, for being  *)
(* idle: what one side hears in 60 s depends on the timers of the other,   *)
(* on the way of its messages, and on an event loop that another           *)
(* connection holds; a wait of up to 8 s does no harm.                     *)
IdleStaysUp == kaSilent = Passing /\ ~kaLong => kaOpen = Sides

(* When the network falls silent without a word, both ends are closed in   *)
(* bounded time, whatever the ends go on writing into it.                  *)
SilenceDetected == kaSilent > DetectedAfter => kaOpen = {}
==============================================================================

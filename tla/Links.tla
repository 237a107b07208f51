-------------------------------- MODULE Links --------------------------------
(***************************************************************************)
(* The TCP connections the proxy client opens to the proxy server: one     *)
(* control connection per client session (Ctls) and a pool of data         *)
(* connections (Proxies).  A connection has a server end and a client end, *)
(* and one FIFO queue of ProxyMessages in each direction.  The transport   *)
(* (Netty, TCP) is external to the repository; it is modelled from the way *)
(* the handlers use it:                                                    *)
(*   - write to a connection one of whose ends is gone is silently lost;   *)
(*   - an end that is closed drops what it had not read yet;               *)
(*   - an end sees end-of-stream only after it has read all the queue;     *)
(*   - an end that has closed is inactive ("dead") at once, and its        *)
(*     channelInactive handler runs later ("closed" once it has run).      *)
(***************************************************************************)
EXTENDS Naturals, Sequences

CONSTANTS Users,      \* user connections accepted on the public port
          Proxies,    \* data connections a client may open
          Ctls,       \* control connections, one per client session
          None,       \* the Java null
          MaxBreaks   \* bound: connection failures in one behaviour

ASSUME LinksAssumption ==
  /\ Proxies \cap Ctls = {}
  /\ None \notin Users \cup Proxies \cup Ctls
  /\ MaxBreaks \in Nat

VARIABLES sEnd,       \* [Conns -> EndStates] the server's end
          cEnd,       \* [Conns -> EndStates] the client's end
          toS, toC,   \* [Conns -> Seq(Message)] in flight to the server, client
          breaks      \* failures so far

linkVars == <<sEnd, cEnd, toS, toC, breaks>>

Conns == Proxies \cup Ctls
EndStates == {"unused", "open", "dead", "closed"}

(* ProxyMessage: AUTH, CONNECT, DISCONNECT, TRANSFER; a TRANSFER's payload *)
(* is the ordinal n of the chunk its sender read.                          *)
AuthMsg          == [type |-> "auth",       user |-> None, n |-> 0]
ConnectMsg(u)    == [type |-> "connect",    user |-> u,    n |-> 0]
DisconnectMsg(u) == [type |-> "disconnect", user |-> u,    n |-> 0]
TransferMsg(u,n) == [type |-> "transfer",   user |-> u,    n |-> n]

Message == {AuthMsg} \cup
           [type : {"connect", "disconnect", "transfer"}, user : Users, n : Nat]

Linked(x) == sEnd[x] = "open" /\ cEnd[x] = "open"

(* channel.writeAndFlush(m), seen from the server and from the client.     *)
SendToC(x, m) == toC' = IF Linked(x) THEN [toC EXCEPT ![x] = Append(@, m)] ELSE toC
SendToS(x, m) == toS' = IF Linked(x) THEN [toS EXCEPT ![x] = Append(@, m)] ELSE toS

(* The message a channelRead0 is called with.                              *)
AtServer(x, t) == sEnd[x] = "open" /\ toS[x] # <<>> /\ Head(toS[x]).type = t
AtClient(x, t) == cEnd[x] = "open" /\ toC[x] # <<>> /\ Head(toC[x]).type = t

Read(q, x)     == [q EXCEPT ![x] = Tail(@)]
CloseEnd(e, x) == [e EXCEPT ![x] = "dead"]
Dropped(q, x)  == [q EXCEPT ![x] = <<>>]

LinksInit == /\ sEnd = [x \in Conns |-> "unused"]
             /\ cEnd = [x \in Conns |-> "unused"]
             /\ toS = [x \in Conns |-> <<>>]
             /\ toC = [x \in Conns |-> <<>>]
             /\ breaks = 0

LinksTypeOK == /\ sEnd \in [Conns -> EndStates]
               /\ cEnd \in [Conns -> EndStates]
               /\ toS \in [Conns -> Seq(Message)]
               /\ toC \in [Conns -> Seq(Message)]
               /\ breaks \in Nat

(* The selector reports end-of-stream: Netty closes the channel.           *)
ServerEof(x) == /\ sEnd[x] = "open" /\ cEnd[x] # "open" /\ toS[x] = <<>>
                /\ sEnd' = CloseEnd(sEnd, x)
                /\ UNCHANGED <<cEnd, toS, toC, breaks>>

ClientEof(x) == /\ cEnd[x] = "open" /\ sEnd[x] # "open" /\ toC[x] = <<>>
                /\ cEnd' = CloseEnd(cEnd, x)
                /\ UNCHANGED <<sEnd, toS, toC, breaks>>

(* A reset, or the read-idle timeout of IdleCheckHandler, closes one end   *)
(* and loses what it had not read.                                         *)
ServerBreak(x) == /\ breaks < MaxBreaks /\ sEnd[x] = "open"
                  /\ breaks' = breaks + 1
                  /\ sEnd' = CloseEnd(sEnd, x)
                  /\ toS' = Dropped(toS, x)
                  /\ UNCHANGED <<cEnd, toC>>

ClientBreak(x) == /\ breaks < MaxBreaks /\ cEnd[x] = "open"
                  /\ breaks' = breaks + 1
                  /\ cEnd' = CloseEnd(cEnd, x)
                  /\ toC' = Dropped(toC, x)
                  /\ UNCHANGED <<sEnd, toS>>
==============================================================================

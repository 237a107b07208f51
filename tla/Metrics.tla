------------------------------ MODULE Metrics -------------------------------
(***************************************************************************)
(* The traffic statistics of one user port: BytesMetricsHandler counts on  *)
(* the event loops of the user channels, and the administration pages read *)
(* and reset the counters of MetricsCollector from threads of their own.   *)
(* Each access to the map of collectors, to a counter or to the lock is a  *)
(* step.                                                                   *)
(***************************************************************************)
EXTENDS Integers, SequencesExt

CONSTANTS Channels,      \* user channels of the port, each on its event loop
          Reporters,     \* threads that call getAndResetAllMetrics
          NoCollector,
          MessageBytes,  \* readable bytes of a message
          MaxMessages    \* bound on the messages counted

ASSUME MetricsAssumption == /\ NoCollector \notin Nat
                            /\ Channels \cap Reporters = {}
                            /\ MessageBytes \in Nat \ {0} /\ MaxMessages \in Nat

VARIABLES mPc,           \* what each thread does next
          mRef,          \* local metricsCollector of each thread
          mThen,         \* ... and after getCollector
          mDir,          \* whether a channel counts a "read" or a "wrote"
          mOpen,         \* channels that are open
          metricsCollectors,  \* the collector of the port, or NoCollector
          collectors,    \* collector objects that exist: counters of each
          counted,       \* per counter: what channels added
          reported       \* per counter: what reports returned

metricsVars == <<mPc, mRef, mThen, mDir, mOpen, metricsCollectors, collectors, counted, reported>>

Counters == {"readBytes", "wroteBytes", "readMsgs", "wroteMsgs"}
Fields   == Counters \cup {"channels"}
Zero == [c \in Counters |-> 0]
MThreads == Channels \cup Reporters

BytesOf(dir) == IF dir = "read" THEN "readBytes" ELSE "wroteBytes"
MsgsOf(dir)  == IF dir = "read" THEN "readMsgs" ELSE "wroteMsgs"

MetricsInit == /\ mPc = [t \in MThreads |-> IF t \in Channels THEN "new" ELSE "idle"]
               /\ mRef = [t \in MThreads |-> NoCollector]
               /\ mThen = [t \in Channels |-> "idle"]
               /\ mDir = [t \in Channels |-> "read"]
               /\ mOpen = {}
               /\ metricsCollectors = NoCollector
               /\ collectors = <<>>
               /\ counted = Zero /\ reported = Zero

MGoto(t, l) == mPc' = [mPc EXCEPT ![t] = l]
Add(obj, c, n) == collectors' = [collectors EXCEPT ![obj][c] = @ + n]
totals == <<counted, reported>>

(* getCollector, on the way to the step l: found in the map, or looked for *)
(* again under the lock and put there.                                     *)
Look(ch, l) == /\ mRef' = [mRef EXCEPT ![ch] = metricsCollectors]
               /\ mThen' = [mThen EXCEPT ![ch] = l]
               /\ MGoto(ch, IF metricsCollectors = NoCollector THEN "create" ELSE l)

New(ch) == /\ mPc[ch] = "create"
           /\ collectors' = Append(collectors, [c \in Fields |-> 0])
           /\ metricsCollectors' = Len(collectors) + 1
           /\ mRef' = [mRef EXCEPT ![ch] = Len(collectors) + 1]
           /\ MGoto(ch, mThen[ch])
           /\ UNCHANGED <<mThen, mDir, mOpen, totals>>
Created(ch) == /\ mPc[ch] = "create" /\ metricsCollectors # NoCollector
               /\ mRef' = [mRef EXCEPT ![ch] = metricsCollectors]
               /\ MGoto(ch, mThen[ch])
               /\ UNCHANGED <<mThen, mDir, mOpen, metricsCollectors, collectors, totals>>
Create(ch) == metricsCollectors = NoCollector /\ New(ch)
------------------------------------------------------------------------------
(* BytesMetricsHandler                                                     *)

ChannelActive(ch) == /\ mPc[ch] = "new"
                     /\ Look(ch, "count channel")
                     /\ UNCHANGED <<mDir, mOpen, metricsCollectors, collectors, totals>>

CountChannel(ch) == /\ mPc[ch] = "count channel"
                    /\ Add(mRef[ch], "channels", 1)
                    /\ mOpen' = mOpen \cup {ch}
                    /\ MGoto(ch, "idle")
                    /\ UNCHANGED <<mRef, mThen, mDir, metricsCollectors, totals>>

(* channelRead and write: the bytes of a message, then the message.        *)
CountMessage(ch) == /\ mPc[ch] = "idle" /\ counted["readMsgs"] + counted["wroteMsgs"] < MaxMessages
                    /\ \E dir \in {"read", "wrote"} : mDir' = [mDir EXCEPT ![ch] = dir]
                    /\ Look(ch, "bytes")
                    /\ UNCHANGED <<mOpen, metricsCollectors, collectors, totals>>

CountBytes(ch) == /\ mPc[ch] = "bytes"
                  /\ Add(mRef[ch], BytesOf(mDir[ch]), MessageBytes)
                  /\ counted' = [counted EXCEPT ![BytesOf(mDir[ch])] = @ + MessageBytes]
                  /\ MGoto(ch, "msgs")
                  /\ UNCHANGED <<mRef, mThen, mDir, mOpen, metricsCollectors, reported>>

CountMsgs(ch) == /\ mPc[ch] = "msgs"
                 /\ Add(mRef[ch], MsgsOf(mDir[ch]), 1)
                 /\ counted' = [counted EXCEPT ![MsgsOf(mDir[ch])] = @ + 1]
                 /\ MGoto(ch, "idle")
                 /\ UNCHANGED <<mRef, mThen, mDir, mOpen, metricsCollectors, reported>>

ChannelInactive(ch) == /\ mPc[ch] = "idle"
                       /\ Look(ch, "uncount channel")
                       /\ UNCHANGED <<mDir, mOpen, metricsCollectors, collectors, totals>>

UncountChannel(ch) == /\ mPc[ch] = "uncount channel"
                      /\ Add(mRef[ch], "channels", -1)
                      /\ mOpen' = mOpen \ {ch}
                      /\ MGoto(ch, "closed")
                      /\ UNCHANGED <<mRef, mThen, mDir, metricsCollectors, totals>>

ChannelStep(ch) == \/ ChannelActive(ch) \/ CountChannel(ch) \/ CountMessage(ch)
                   \/ CountBytes(ch) \/ CountMsgs(ch)
                   \/ ChannelInactive(ch) \/ UncountChannel(ch)
                   \/ Create(ch) \/ Created(ch)
------------------------------------------------------------------------------
(* getAndResetMetrics: one getAndSet(0) after the other.                   *)
Order == <<"readBytes", "wroteBytes", "readMsgs", "wroteMsgs">>
After(i) == IF i = Len(Order) THEN "idle" ELSE Order[i+1]

StartReport(r) == /\ mPc[r] = "idle" /\ metricsCollectors # NoCollector
                  /\ mRef' = [mRef EXCEPT ![r] = metricsCollectors]
                  /\ MGoto(r, Order[1])
                  /\ UNCHANGED <<mThen, mDir, mOpen, metricsCollectors, collectors, totals>>

Report(r, i, reset) == /\ mPc[r] = Order[i]
                       /\ reported' = [reported EXCEPT ![Order[i]] =
                                         @ + collectors[mRef[r]][Order[i]]]
                       /\ collectors' = [collectors EXCEPT ![mRef[r]] =
                                           [c \in Fields |-> IF c \in reset THEN 0 ELSE @[c]]]
                       /\ MGoto(r, After(i))
                       /\ UNCHANGED <<mRef, mThen, mDir, mOpen, metricsCollectors, counted>>
ResetGauge(r) == \E i \in DOMAIN Order : Report(r, i, {Order[i], "channels"})
Reset(r)      == \E i \in DOMAIN Order : Report(r, i, {Order[i]})

MetricsNext == \/ \E ch \in Channels : ChannelStep(ch)
               \/ \E r \in Reporters : StartReport(r) \/ Reset(r)
------------------------------------------------------------------------------
(* A report in progress works on the collector of the port, and bytes are  *)
(* counted before messages.                                                *)
MetricsTypeOK == /\ metricsCollectors \in DOMAIN collectors \cup {NoCollector}
                 /\ \A r \in Reporters : mPc[r] # "idle" => mRef[r] = metricsCollectors
                 /\ \A dir \in {"read", "wrote"} :
                      /\ counted[BytesOf(dir)] >= MessageBytes * counted[MsgsOf(dir)]
                      /\ counted[BytesOf(dir)] <= MessageBytes * (counted[MsgsOf(dir)]
                                                                  + Cardinality(Channels))

Current(c) == IF metricsCollectors = NoCollector THEN 0 ELSE collectors[metricsCollectors][c]

(* Whatever channels and reports run at the same time, each byte and each  *)
(* message counted is returned by exactly one report or is still in the    *)
(* collector of the port: a counter is read and reset at once, and all     *)
(* channels find the same collector.                                       *)
MetricsConserved == \A c \in Counters : counted[c] = reported[c] + Current(c)

(* The gauge that the statistics show is the number of open channels, also *)
(* while reports reset the other counters.                                 *)
GaugeIsOpenChannels == Current("channels") = Cardinality(mOpen)
==============================================================================

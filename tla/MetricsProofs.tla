---------------------------- MODULE MetricsProofs ----------------------------
(***************************************************************************)
(* What the traffic statistics of a user port add up to, for any channels, *)
(* any reports that run at the same time, and any number of messages.      *)
(***************************************************************************)
EXTENDS Metrics, FiniteSetTheorems, TLAPS

MetricsSpec == MetricsInit /\ [][MetricsNext]_metricsVars

Counting == {"count channel", "bytes", "msgs", "uncount channel"}
Labels   == Counting \cup Counters \cup {"new", "create", "idle", "closed"}

MShape == /\ mPc \in [MThreads -> Labels]
          /\ mRef \in [MThreads -> {NoCollector, 1}]
          /\ mThen \in [Channels -> Counting \cup {"idle"}]
          /\ mDir \in [Channels -> {"read", "wrote"}]
          /\ counted \in [Counters -> Int] /\ reported \in [Counters -> Int]

(* The port has no collector, or exactly one, that all threads at work use. *)
OneCollector ==
  \/ metricsCollectors = NoCollector /\ collectors = <<>>
  \/ metricsCollectors = 1 /\ DOMAIN collectors = {1} /\ collectors[1] \in [Fields -> Int]

AtWork == \A t \in MThreads :
            mPc[t] \in Counting \cup Counters => mRef[t] = 1 /\ metricsCollectors = 1

Creating == \A ch \in Channels :
              /\ mPc[ch] \notin Counters
              /\ mPc[ch] = "create" => mThen[ch] \in Counting
              /\ mThen[ch] # "msgs"

Reporting == \A r \in Reporters : mPc[r] \in Counters \cup {"idle"}

(* A channel is open from the time it was added to the gauge.              *)
Opened == /\ mOpen \subseteq Channels /\ IsFiniteSet(mOpen)
          /\ \A ch \in Channels :
               /\ mPc[ch] \in {"new", "count channel", "closed"} => ch \notin mOpen
               /\ mPc[ch] = "create"
                  => (ch \in mOpen <=> mThen[ch] # "count channel")
               /\ mPc[ch] \in {"idle", "bytes", "msgs", "uncount channel"} => ch \in mOpen

MInv == /\ MShape /\ OneCollector /\ AtWork /\ Creating /\ Reporting /\ Opened
        /\ MetricsConserved /\ GaugeIsOpenChannels

LEMMA NoneIsNotOne == NoCollector # 1
<1>1. NoCollector \notin Nat /\ 1 \in Nat BY MetricsAssumption
<1> QED BY <1>1, Zenon

USE MetricsAssumption

LEMMA MInitInv == MetricsInit => MInv
<1> SUFFICES ASSUME MetricsInit PROVE MInv OBVIOUS
<1> USE DEF MetricsInit
<1>1. MShape BY DEF MShape, MThreads, Labels, Counting, Counters, Zero
<1>2. OneCollector /\ AtWork BY DEF OneCollector, AtWork, MThreads, Counting, Counters
<1>3. Creating /\ Reporting BY DEF Creating, Reporting, MThreads, Counters
<1>4. IsFiniteSet(mOpen) /\ Cardinality(mOpen) = 0 BY FS_EmptySet
<1>5. Opened BY <1>4 DEF Opened, MThreads
<1>6. MetricsConserved BY DEF MetricsConserved, Current, Zero, Counters
<1>7. GaugeIsOpenChannels BY <1>4 DEF GaugeIsOpenChannels, Current
<1> QED BY <1>1, <1>2, <1>3, <1>5, <1>6, <1>7 DEF MInv

(* Looking the collector up finds the one of the port, or none.            *)
LEMMA LookStep ==
  ASSUME MInv, NEW ch \in Channels, NEW l \in Counting \ {"msgs"}, Look(ch, l),
         l = "count channel" => mPc[ch] = "new",
         l # "count channel" => mPc[ch] = "idle",
         mDir' \in [Channels -> {"read", "wrote"}],
         UNCHANGED <<mOpen, metricsCollectors, collectors, totals>>
  PROVE  MInv'
<1> USE DEF MInv, Look, MGoto, MThreads, totals
<1>1. MShape' BY DEF MShape, Labels, OneCollector
<1>2. OneCollector' BY DEF OneCollector
<1>3. AtWork'
  BY DEF AtWork, OneCollector, MShape, Counting, Counters
<1>4. Creating' /\ Reporting' BY DEF Creating, Reporting, MShape, Counting, Counters
<1>5. Opened' BY DEF Opened, MShape, Counting
<1>6. MetricsConserved' /\ GaugeIsOpenChannels'
  BY DEF MetricsConserved, GaugeIsOpenChannels, Current
<1> QED BY <1>1, <1>2, <1>3, <1>4, <1>5, <1>6

LEMMA AppendFirst == ASSUME NEW x
                     PROVE  DOMAIN Append(<<>>, x) = {1} /\ Append(<<>>, x)[1] = x
OBVIOUS

LEMMA CreateStep ==
  ASSUME MInv, NEW ch \in Channels, Create(ch) \/ Created(ch)
  PROVE  MInv'
<1> USE DEF MInv, MGoto, MThreads, totals
<1>1. mThen[ch] \in Counting \ {"msgs"} /\ mPc[ch] = "create"
  BY DEF Creating, Create, New, Created
<1>2. CASE Create(ch)
  <2> USE <1>2 DEF Create, New
  <2> DEFINE fresh == [c \in Fields |-> 0]
  <2>1. collectors = <<>> /\ metricsCollectors = NoCollector
    BY DEF OneCollector
  <2>2. fresh \in [Fields -> Int] OBVIOUS
  <2>3. /\ collectors' = Append(<<>>, fresh) /\ metricsCollectors' = 1
        /\ mRef' = [mRef EXCEPT ![ch] = 1]
    BY <2>1
  <2>4. DOMAIN collectors' = {1} /\ collectors'[1] = fresh
    <3> HIDE DEF fresh
    <3> QED BY <2>3, AppendFirst
  <2>5. MShape' BY <1>1, <2>3 DEF MShape, Labels, Counting
  <2>6. OneCollector' BY <2>2, <2>3, <2>4 DEF OneCollector
  <2>7. AtWork' BY <2>1, <2>3 DEF AtWork, MShape
  <2>8. Creating' /\ Reporting'
    BY <1>1 DEF Creating, Reporting, MShape, Counting, Counters
  <2>9. Opened' BY <1>1 DEF Opened, MShape, Counting
  <2>10. Current("channels")' = Current("channels")
    BY <2>1, <2>3, <2>4 DEF Current, Fields
  <2>11. \A c \in Counters : Current(c)' = Current(c)
    BY <2>1, <2>3, <2>4 DEF Current, Fields
  <2>12. MetricsConserved' /\ GaugeIsOpenChannels'
    BY <2>10, <2>11 DEF MetricsConserved, GaugeIsOpenChannels
  <2> QED BY <2>5, <2>6, <2>7, <2>8, <2>9, <2>12
<1>3. CASE Created(ch)
  <2> USE <1>3 DEF Created
  <2>1. MShape' BY <1>1 DEF MShape, Labels, Counting, OneCollector
  <2>2. OneCollector' BY DEF OneCollector
  <2>3. AtWork' BY <1>1 DEF AtWork, OneCollector, MShape
  <2>4. Creating' /\ Reporting'
    BY <1>1 DEF Creating, Reporting, MShape, Counting, Counters
  <2>5. Opened' BY <1>1 DEF Opened, MShape, Counting
  <2>6. MetricsConserved' /\ GaugeIsOpenChannels'
    BY DEF MetricsConserved, GaugeIsOpenChannels, Current
  <2> QED BY <2>1, <2>2, <2>3, <2>4, <2>5, <2>6
<1> QED BY <1>2, <1>3

(* Adding to one field of the collector of the port changes that field.    *)
LEMMA AddTo ==
  ASSUME OneCollector, metricsCollectors = 1, NEW f \in Fields, NEW n \in Int, Add(1, f, n)
  PROVE  /\ DOMAIN collectors' = {1} /\ collectors'[1] \in [Fields -> Int]
         /\ collectors'[1] = [collectors[1] EXCEPT ![f] = @ + n]
         /\ collectors[1] \in [Fields -> Int]
<1>1. DOMAIN collectors = {1} /\ collectors[1] \in [Fields -> Int]
  BY MetricsAssumption DEF OneCollector
<1> DEFINE changed == [collectors[1] EXCEPT ![f] = @ + n]
<1>2. changed \in [Fields -> Int] BY <1>1
<1>3. collectors' = [collectors EXCEPT ![1] = changed] BY DEF Add
<1> HIDE DEF changed
<1>4. DOMAIN collectors' = {1} /\ collectors'[1] = changed
  BY <1>1, <1>2, <1>3
<1> QED BY <1>1, <1>2, <1>4 DEF changed

(* A channel at work adds to a counter of the collector and to the total.  *)
LEMMA CountStep ==
  ASSUME MInv, NEW ch \in Channels, CountBytes(ch) \/ CountMsgs(ch)
  PROVE  MInv'
<1> USE DEF MInv, MGoto, MThreads, totals
<1>1. mPc[ch] \in {"bytes", "msgs"} BY DEF CountBytes, CountMsgs
<1>2. mRef[ch] = 1 /\ metricsCollectors = 1 BY <1>1 DEF AtWork, Counting
<1> DEFINE f == IF mPc[ch] = "bytes" THEN BytesOf(mDir[ch]) ELSE MsgsOf(mDir[ch])
           n == IF mPc[ch] = "bytes" THEN MessageBytes ELSE 1
           l == IF mPc[ch] = "bytes" THEN "msgs" ELSE "idle"
<1>3. /\ f \in Counters /\ n \in Int /\ l \in {"msgs", "idle"}
      /\ Add(1, f, n)
      /\ counted' = [counted EXCEPT ![f] = @ + n]
      /\ mPc' = [mPc EXCEPT ![ch] = l]
      /\ UNCHANGED <<mRef, mThen, mDir, mOpen, metricsCollectors, reported>>
  <2>1. f \in Counters /\ n \in Int /\ l \in {"msgs", "idle"}
    BY MetricsAssumption DEF BytesOf, MsgsOf, Counters
  <2>2. CASE CountBytes(ch) BY <1>2, <2>1, <2>2 DEF CountBytes
  <2>3. CASE CountMsgs(ch) BY <1>2, <2>1, <2>3 DEF CountMsgs
  <2> QED BY <2>1, <2>2, <2>3
<1> HIDE DEF f, n, l
<1>4. /\ DOMAIN collectors' = {1} /\ collectors'[1] \in [Fields -> Int]
      /\ collectors'[1] = [collectors[1] EXCEPT ![f] = @ + n]
      /\ collectors[1] \in [Fields -> Int]
  BY <1>2, <1>3, AddTo DEF Fields
<1>5. MShape'
  <2>1. counted' \in [Counters -> Int] BY <1>3 DEF MShape
  <2>2. mPc' \in [MThreads -> Labels] BY <1>3 DEF MShape, Labels, Counting
  <2> QED BY <1>3, <2>1, <2>2 DEF MShape
<1>6. OneCollector' BY <1>2, <1>3, <1>4 DEF OneCollector
<1>7. AtWork' BY <1>1, <1>2, <1>3 DEF AtWork, MShape, Counting, Counters
<1>8. Creating' /\ Reporting' BY <1>1, <1>3 DEF Creating, Reporting, MShape, Counters
<1>9. Opened' BY <1>1, <1>3 DEF Opened, MShape
<1>10. ASSUME NEW c \in Counters PROVE counted'[c] = reported'[c] + Current(c)'
  <2>1. Current(c)' = Current(c) + (IF c = f THEN n ELSE 0)
    BY <1>2, <1>3, <1>4 DEF Current, Fields
  <2>2. counted'[c] = counted[c] + (IF c = f THEN n ELSE 0) BY <1>3 DEF MShape
  <2>3. /\ counted[c] = reported[c] + Current(c)
        /\ counted[c] \in Int /\ reported[c] \in Int /\ Current(c) \in Int
    BY <1>2, <1>4 DEF MetricsConserved, MShape, Current, Fields
  <2> QED BY <1>3, <2>1, <2>2, <2>3
<1>11. GaugeIsOpenChannels'
  BY <1>2, <1>3, <1>4 DEF GaugeIsOpenChannels, Current, Fields, Counters
<1> QED BY <1>5, <1>6, <1>7, <1>8, <1>9, <1>10, <1>11 DEF MetricsConserved

(* The gauge follows the set of open channels.                             *)
LEMMA GaugeFollows ==
  ASSUME MInv, NEW ch \in Channels, NEW n \in Int, NEW l \in {"idle", "closed"},
         mPc[ch] \in {"count channel", "uncount channel"},
         Add(mRef[ch], "channels", n), MGoto(ch, l),
         UNCHANGED <<mRef, mThen, mDir, metricsCollectors, totals>>,
         Opened', Cardinality(mOpen) \in Nat, Cardinality(mOpen') = Cardinality(mOpen) + n
  PROVE  MInv'
<1> USE DEF MInv, MGoto, MThreads, totals
<1>1. mRef[ch] = 1 /\ metricsCollectors = 1 BY DEF AtWork, Counting
<1>2. /\ DOMAIN collectors' = {1} /\ collectors'[1] \in [Fields -> Int]
      /\ collectors'[1] = [collectors[1] EXCEPT !["channels"] = @ + n]
      /\ collectors[1] \in [Fields -> Int]
  <2>1. Add(1, "channels", n) BY <1>1
  <2> QED BY <1>1, <2>1, AddTo DEF Fields
<1>3. MShape' BY DEF MShape, Labels
<1>4. OneCollector' BY <1>1, <1>2 DEF OneCollector
<1>5. AtWork' BY <1>1 DEF AtWork, MShape, Counting, Counters
<1>6. Creating' /\ Reporting' BY MetricsAssumption DEF Creating, Reporting, MShape, Counters
<1>7. MetricsConserved'
  BY <1>1, <1>2, MetricsAssumption DEF MetricsConserved, Current, Fields, Counters
<1>8. GaugeIsOpenChannels'
  <2>1. Current("channels")' = Current("channels") + n
    <3>1. "channels" \in Fields BY DEF Fields
    <3>2. collectors'[1]["channels"] = collectors[1]["channels"] + n BY <1>2, <3>1
    <3>3. collectors[1]["channels"] \in Int BY <1>2, <3>1
    <3>4. metricsCollectors' = 1 /\ NoCollector # 1 BY <1>1, NoneIsNotOne
    <3>5. Current("channels")' = collectors'[1]["channels"] BY <3>4 DEF Current
    <3>6. Current("channels") = collectors[1]["channels"] BY <1>1, <3>4 DEF Current
    <3> QED BY <3>2, <3>5, <3>6
  <2> QED BY <2>1 DEF GaugeIsOpenChannels
<1> QED BY <1>3, <1>4, <1>5, <1>6, <1>7, <1>8

LEMMA GaugeStep ==
  ASSUME MInv, NEW ch \in Channels, CountChannel(ch) \/ UncountChannel(ch)
  PROVE  MInv'
<1>1. IsFiniteSet(mOpen) /\ Cardinality(mOpen) \in Nat
  BY FS_CardinalityType DEF MInv, Opened
<1>2. CASE CountChannel(ch)
  <2> USE <1>2 DEF CountChannel, MGoto
  <2>1. ch \notin mOpen BY DEF MInv, Opened
  <2>2. IsFiniteSet(mOpen') /\ Cardinality(mOpen') = Cardinality(mOpen) + 1
    BY <1>1, <2>1, FS_AddElement
  <2>3. Opened' BY <2>2 DEF MInv, Opened, MShape, MThreads
  <2>4. /\ mPc[ch] \in {"count channel", "uncount channel"}
        /\ 1 \in Int /\ "idle" \in {"idle", "closed"}
    <3>1. mPc[ch] = "count channel" BY Zenon
    <3>2. 1 \in Int BY ONLY SMT
    <3> QED BY ONLY <3>1, <3>2, Zenon
  <2>6. /\ Add(mRef[ch], "channels", 1) /\ mPc' = [mPc EXCEPT ![ch] = "idle"]
        /\ UNCHANGED <<mRef, mThen, mDir, metricsCollectors, totals>>
    <3>1. Add(mRef[ch], "channels", 1) BY Zenon
    <3>2. mPc' = [mPc EXCEPT ![ch] = "idle"] BY Zenon
    <3>3. UNCHANGED <<mRef, mThen, mDir, metricsCollectors, totals>> BY Zenon
    <3> QED BY <3>1, <3>2, <3>3, Zenon
  <2> QED BY ONLY MInv, ch \in Channels, <1>1, <2>2, <2>3, <2>4, <2>6, GaugeFollows, Zenon DEF MGoto
<1>3. CASE UncountChannel(ch)
  <2> USE <1>3 DEF UncountChannel, MGoto
  <2>1. ch \in mOpen BY DEF MInv, Opened
  <2>2. IsFiniteSet(mOpen') /\ Cardinality(mOpen') = Cardinality(mOpen) - 1
    BY <1>1, <2>1, FS_RemoveElement
  <2>3. Cardinality(mOpen') = Cardinality(mOpen) + (-1) BY <1>1, <2>2
  <2>4. Opened' BY <2>2 DEF MInv, Opened, MShape, MThreads
  <2>5. /\ mPc[ch] \in {"count channel", "uncount channel"}
        /\ -1 \in Int /\ "closed" \in {"idle", "closed"}
    <3>1. mPc[ch] = "uncount channel" BY Zenon
    <3>2. -1 \in Int BY ONLY SMT
    <3> QED BY ONLY <3>1, <3>2, Zenon
  <2>6. /\ Add(mRef[ch], "channels", -1) /\ mPc' = [mPc EXCEPT ![ch] = "closed"]
        /\ UNCHANGED <<mRef, mThen, mDir, metricsCollectors, totals>>
    <3>1. Add(mRef[ch], "channels", -1) BY Zenon
    <3>2. mPc' = [mPc EXCEPT ![ch] = "closed"] BY Zenon
    <3>3. UNCHANGED <<mRef, mThen, mDir, metricsCollectors, totals>> BY Zenon
    <3> QED BY <3>1, <3>2, <3>3, Zenon
  <2> QED BY ONLY MInv, ch \in Channels, <1>1, <2>3, <2>4, <2>5, <2>6, GaugeFollows, Zenon DEF MGoto
<1> QED BY <1>2, <1>3

LEMMA ReportStep ==
  ASSUME MInv, NEW r \in Reporters, StartReport(r) \/ Reset(r)
  PROVE  MInv'
<1> USE DEF MInv, MGoto, MThreads, totals
<1>1. CASE StartReport(r)
  <2> USE <1>1 DEF StartReport
  <2>1. metricsCollectors = 1 BY DEF OneCollector
  <2>2. mPc' = [mPc EXCEPT ![r] = "readBytes"] BY DEF Order
  <2>3. MShape' BY <2>1, <2>2 DEF MShape, Labels, Counters
  <2>4. OneCollector' BY DEF OneCollector
  <2>5. AtWork' BY <2>1, <2>2 DEF AtWork, MShape
  <2>6. Creating' /\ Reporting'
    BY <2>2, MetricsAssumption DEF Creating, Reporting, MShape, Counters
  <2>7. Opened' BY <2>2, MetricsAssumption DEF Opened, MShape
  <2>8. MetricsConserved' /\ GaugeIsOpenChannels'
    BY DEF MetricsConserved, GaugeIsOpenChannels, Current
  <2> QED BY <2>3, <2>4, <2>5, <2>6, <2>7, <2>8
<1>2. CASE Reset(r)
  <2>1. PICK i \in DOMAIN Order : Report(r, i, {Order[i]}) BY <1>2 DEF Reset
  <2> DEFINE f == Order[i]
             kept == [c \in Fields |-> IF c \in {f} THEN 0 ELSE collectors[1][c]]
  <2>2. f \in Counters /\ mPc[r] = f BY <2>1 DEF Report, Order, Counters
  <2>3. mRef[r] = 1 /\ metricsCollectors = 1 BY <2>2 DEF AtWork
  <2>4. DOMAIN collectors = {1} /\ collectors[1] \in [Fields -> Int]
    BY <2>3 DEF OneCollector
  <2>5. /\ collectors' = [collectors EXCEPT ![1] = kept]
        /\ reported' = [reported EXCEPT ![f] = @ + collectors[1][f]]
        /\ mPc' = [mPc EXCEPT ![r] = After(i)]
        /\ UNCHANGED <<mRef, mThen, mDir, mOpen, metricsCollectors, counted>>
    BY <2>1, <2>3 DEF Report
  <2>6. kept \in [Fields -> Int] BY <2>4
  <2>7. After(i) \in Counters \cup {"idle"} BY DEF After, Order, Counters
  <2>8. DOMAIN collectors' = {1} /\ collectors'[1] = kept
    <3> HIDE DEF kept
    <3> QED BY <2>4, <2>5, <2>6
  <2>9. collectors[1][f] \in Int BY <2>2, <2>4 DEF Fields
  <2>10. MShape' BY <2>2, <2>5, <2>7, <2>9 DEF MShape, Labels
  <2>11. OneCollector' BY <2>3, <2>5, <2>6, <2>8 DEF OneCollector
  <2>12. AtWork' BY <2>3, <2>5 DEF AtWork, MShape
  <2>13. Creating' /\ Reporting' BY <2>5, <2>7 DEF Creating, Reporting, MShape
  <2>14. Opened' BY <2>5 DEF Opened, MShape
  <2>15. ASSUME NEW c \in Counters PROVE counted'[c] = reported'[c] + Current(c)'
    <3>1. Current(c)' = IF c = f THEN 0 ELSE Current(c)
      BY <2>3, <2>5, <2>8 DEF Current, Fields
    <3>2. reported'[c] = IF c = f THEN reported[c] + Current(c) ELSE reported[c]
      BY <2>2, <2>3, <2>5 DEF MShape, Current
    <3>3. /\ counted[c] = reported[c] + Current(c)
          /\ counted[c] \in Int /\ reported[c] \in Int /\ Current(c) \in Int
      BY <2>3, <2>4 DEF MetricsConserved, MShape, Current, Fields
    <3> QED BY <2>5, <3>1, <3>2, <3>3
  <2>16. GaugeIsOpenChannels'
    BY <2>2, <2>3, <2>5, <2>8 DEF GaugeIsOpenChannels, Current, Fields, Counters
  <2> QED BY <2>10, <2>11, <2>12, <2>13, <2>14, <2>15, <2>16 DEF MetricsConserved
<1> QED BY <1>1, <1>2
------------------------------------------------------------------------------
LEMMA MNextInv == MInv /\ [MetricsNext]_metricsVars => MInv'
<1> SUFFICES ASSUME MInv, [MetricsNext]_metricsVars PROVE MInv' OBVIOUS
<1>1. ASSUME NEW ch \in Channels, ChannelStep(ch) PROVE MInv'
  <2>1. CASE ChannelActive(ch) BY <2>1, LookStep DEF ChannelActive, Counting, MInv, MShape
  <2>2. CASE CountMessage(ch) BY <2>2, LookStep DEF CountMessage, Counting, MInv, MShape
  <2>3. CASE ChannelInactive(ch) BY <2>3, LookStep DEF ChannelInactive, Counting, MInv, MShape
  <2> QED BY <1>1, <2>1, <2>2, <2>3, CountStep, GaugeStep, CreateStep DEF ChannelStep
<1>2. CASE UNCHANGED metricsVars
  <2> USE <1>2 DEF MInv, metricsVars
  <2>1. MShape' /\ OneCollector' /\ AtWork' /\ Creating' /\ Reporting'
    BY DEF MShape, OneCollector, AtWork, Creating, Reporting
  <2>2. Opened' BY DEF Opened
  <2>3. MetricsConserved' /\ GaugeIsOpenChannels'
    BY DEF MetricsConserved, GaugeIsOpenChannels, Current
  <2> QED BY <2>1, <2>2, <2>3
<1> QED BY <1>1, <1>2, ReportStep DEF MetricsNext

(* Every byte and every message that is counted is returned by exactly one *)
(* report or is still in the collector of the port, whatever reports run   *)
(* while channels count (getAndSet of MetricsCollector).                   *)
THEOREM MetricsAreConserved == MetricsSpec => []MetricsConserved
<1>1. MInv => MetricsConserved BY DEF MInv
<1> QED BY <1>1, MInitInv, MNextInv, PTL DEF MetricsSpec

(* The gauge of BytesMetricsHandler is the number of open channels, though *)
(* reports reset the counters beside it.                                   *)
THEOREM GaugeIsExact == MetricsSpec => []GaugeIsOpenChannels
<1>1. MInv => GaugeIsOpenChannels BY DEF MInv
<1> QED BY <1>1, MInitInv, MNextInv, PTL DEF MetricsSpec
==============================================================================

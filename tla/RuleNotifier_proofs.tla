------------------------ MODULE RuleNotifier_proofs ------------------------
(***************************************************************************)
(* Proofs about the rule update notifier, for any number of receivers and  *)
(* fetchers, any channel capacity and any number of rule changes.          *)
(***************************************************************************)
EXTENDS RuleNotifier, SequenceTheorems, TLAPS

\* A channel is in updateChannels exactly while its receiver is subscribed or
\* its removal is pending.
ListInv == \A r \in Receivers : r \in subscribed <=> rpc[r] \in {"in", "cancelled"}

IInv == TypeOK /\ NoLostWakeup /\ SubscriberCurrent /\ ListInv

LEMMA InitIInv == Init => IInv
BY RuleNotifierAssumption DEF Init, IInv, TypeOK, NoLostWakeup, SubscriberCurrent, ListInv, Lists

\* What Deliver puts on the channels keeps their types and capacity.
LEMMA DeliverType ==
    ASSUME TypeOK, NEW f \in Fetchers, Deliver(f)
    PROVE  TypeOK'
<1>1. found[f] \in Lists
    BY DEF TypeOK
<1>2. /\ buf' \in [Receivers -> Seq(Lists)]
      /\ \A r \in Receivers : Len(buf'[r]) <= BufCap
    <2>1. CASE Modified(f)
        <3>1. ASSUME NEW r \in Receivers
              PROVE  buf'[r] \in Seq(Lists) /\ Len(buf'[r]) <= BufCap
            <4>1. buf[r] \in Seq(Lists) /\ Len(buf[r]) <= BufCap /\ Len(buf[r]) \in Nat
                BY DEF TypeOK
            <4>2. CASE HasRoom(r)
                <5>1. buf'[r] = Append(buf[r], found[f])
                    BY <2>1, <4>2 DEF Deliver
                <5>2. Len(buf'[r]) = Len(buf[r]) + 1 /\ buf'[r] \in Seq(Lists)
                    BY <1>1, <4>1, <5>1
                <5> QED
                    BY <4>1, <4>2, <5>2, RuleNotifierAssumption DEF HasRoom
            <4>3. CASE ~HasRoom(r)
                BY <2>1, <4>1, <4>3 DEF Deliver
            <4> QED
                BY <4>2, <4>3
        <3>2. buf' = [r \in Receivers |-> buf'[r]]
            BY <2>1 DEF Deliver
        <3> QED
            BY <3>1, <3>2
    <2>2. CASE ~Modified(f)
        BY <2>2 DEF Deliver, TypeOK
    <2> QED
        BY <2>1, <2>2
<1>3. latest' \in Lists /\ heard' \in [Receivers -> Lists] /\ dropped' \in SUBSET Receivers
    BY <1>1 DEF Deliver, TypeOK
<1> QED
    BY <1>2, <1>3 DEF Deliver, Fetch, TypeOK

LEMMA NextType == TypeOK /\ [Next]_vars => TypeOK'
<1> SUFFICES ASSUME TypeOK, [Next]_vars
             PROVE  TypeOK'
    OBVIOUS
<1> USE RuleNotifierAssumption
<1>1. CASE RulesChange
    <2>1. groups' \in Lists
        BY <1>1 DEF RulesChange, TypeOK, Lists
    <2> QED
        BY <1>1, <2>1 DEF RulesChange, TypeOK, receivers
<1>2. ASSUME NEW r \in Receivers, NotifyC(r) \/ Cancel(r) \/ RemoveChannel(r)
      PROVE  TypeOK'
    <2>1. CASE NotifyC(r)
        <3>1. fpc' \in [Fetchers -> {"idle", "start", "waiting", "find", "deliver", "ended"}]
            BY <2>1 DEF NotifyC, Broadcast, TypeOK
        <3>2. rpc' \in [Receivers -> {"out", "in", "cancelled", "gone"}]
            BY <2>1 DEF NotifyC, TypeOK
        <3>3. subscribed' \in SUBSET Receivers /\ heard' \in [Receivers -> Lists]
            BY <2>1 DEF NotifyC, TypeOK
        <3> QED
            BY <2>1, <3>1, <3>2, <3>3 DEF NotifyC, TypeOK
    <2>2. CASE Cancel(r)
        BY <2>2 DEF Cancel, TypeOK
    <2>3. CASE RemoveChannel(r)
        BY <2>3 DEF RemoveChannel, TypeOK
    <2> QED
        BY <1>2, <2>1, <2>2, <2>3
<1>3. ASSUME NEW r \in Receivers, Receive(r)
      PROVE  TypeOK'
    <2>1. buf[r] \in Seq(Lists) /\ buf[r] # <<>> /\ Len(buf[r]) <= BufCap
        BY <1>3 DEF Receive, TypeOK
    <2>2. Tail(buf[r]) \in Seq(Lists) /\ Len(Tail(buf[r])) = Len(buf[r]) - 1
        BY <2>1
    <2>3. Len(buf[r]) \in Nat
        BY <2>1
    <2>4. Len(Tail(buf[r])) <= BufCap
        BY <2>1, <2>2, <2>3
    <2> QED
        BY <1>3, <2>2, <2>4 DEF Receive, TypeOK
<1>4. ASSUME NEW f \in Fetchers,
             Tick(f) \/ TickerStops(f) \/ AwaitReceiver(f) \/ FindGroups(f) \/ FindGroupsFails(f)
      PROVE  TypeOK'
    BY <1>4 DEF Tick, TickerStops, AwaitReceiver, FindGroups, FindGroupsFails, Fetch, TypeOK, receivers
<1>5. CASE UNCHANGED vars
    BY <1>5 DEF vars, receivers, TypeOK
<1> QED
    BY <1>1, <1>2, <1>3, <1>4, <1>5, DeliverType DEF Next, FetchRules, Abandoned

\* A fetcher begins to wait only while updateChannels is empty, and the first
\* channel of the list wakes every fetcher up.
LEMMA NextWakeup == TypeOK /\ NoLostWakeup /\ [Next]_vars => NoLostWakeup'
<1> SUFFICES ASSUME TypeOK, NoLostWakeup, [Next]_vars
             PROVE  NoLostWakeup'
    OBVIOUS
<1> USE DEF NoLostWakeup, TypeOK
<1>1. ASSUME NEW r \in Receivers, NotifyC(r)
      PROVE  NoLostWakeup'
    BY <1>1 DEF NotifyC, Broadcast
<1>2. ASSUME NEW r \in Receivers, Cancel(r) \/ RemoveChannel(r) \/ Receive(r)
      PROVE  NoLostWakeup'
    BY <1>2 DEF Cancel, RemoveChannel, Receive
<1>3. ASSUME NEW f \in Fetchers, FetchRules(f) \/ FindGroupsFails(f) \/ TickerStops(f)
      PROVE  NoLostWakeup'
    BY <1>3 DEF FetchRules, Tick, TickerStops, AwaitReceiver, FindGroups, FindGroupsFails, Deliver,
                Fetch, receivers
<1>4. CASE RulesChange \/ UNCHANGED vars
    BY <1>4 DEF RulesChange, vars, receivers
<1> QED
    BY <1>1, <1>2, <1>3, <1>4 DEF Next, Abandoned

LEMMA NextList == TypeOK /\ ListInv /\ [Next]_vars => ListInv'
<1> SUFFICES ASSUME TypeOK, ListInv, [Next]_vars
             PROVE  ListInv'
    OBVIOUS
<1> USE DEF ListInv, TypeOK
<1>1. ASSUME NEW r \in Receivers, NotifyC(r) \/ Cancel(r) \/ RemoveChannel(r) \/ Receive(r)
      PROVE  ListInv'
    BY <1>1 DEF NotifyC, Cancel, RemoveChannel, Receive
<1>2. ASSUME NEW f \in Fetchers, FetchRules(f) \/ FindGroupsFails(f) \/ TickerStops(f)
      PROVE  ListInv'
    BY <1>2 DEF FetchRules, Tick, TickerStops, AwaitReceiver, FindGroups, FindGroupsFails, Deliver,
                receivers
<1>3. CASE RulesChange \/ UNCHANGED vars
    BY <1>3 DEF RulesChange, vars, receivers
<1> QED
    BY <1>1, <1>2, <1>3 DEF Next, Abandoned

\* An update reaches every subscribed channel that has room, and those without
\* room are the ones recorded as dropped.
LEMMA NextCurrent == TypeOK /\ SubscriberCurrent /\ [Next]_vars => SubscriberCurrent'
<1> SUFFICES ASSUME TypeOK, SubscriberCurrent, [Next]_vars
             PROVE  SubscriberCurrent'
    OBVIOUS
<1> USE DEF SubscriberCurrent
<1>1. ASSUME NEW r \in Receivers, NotifyC(r)
      PROVE  SubscriberCurrent'
    BY <1>1 DEF NotifyC, TypeOK
<1>2. ASSUME NEW r \in Receivers, Cancel(r) \/ RemoveChannel(r) \/ Receive(r)
      PROVE  SubscriberCurrent'
    BY <1>2 DEF Cancel, RemoveChannel, Receive
<1>3. ASSUME NEW f \in Fetchers, Deliver(f)
      PROVE  SubscriberCurrent'
    <2>1. CASE Modified(f)
        <3>1. ASSUME NEW r \in subscribed \ dropped'
              PROVE  HasRoom(r)
            <4>1. Len(buf[r]) <= BufCap /\ Len(buf[r]) # BufCap /\ Len(buf[r]) \in Nat
                BY <1>3, <2>1, <3>1 DEF Deliver, TypeOK
            <4> QED
                BY <3>1, <4>1, RuleNotifierAssumption DEF HasRoom
        <3> QED
            BY <1>3, <2>1, <3>1 DEF Deliver, TypeOK
    <2>2. CASE ~Modified(f)
        BY <1>3, <2>2 DEF Deliver
    <2> QED
        BY <2>1, <2>2
<1>4. ASSUME NEW f \in Fetchers,
             Tick(f) \/ TickerStops(f) \/ AwaitReceiver(f) \/ FindGroups(f) \/ FindGroupsFails(f)
      PROVE  SubscriberCurrent'
    BY <1>4 DEF Tick, TickerStops, AwaitReceiver, FindGroups, FindGroupsFails, receivers
<1>5. CASE RulesChange \/ UNCHANGED vars
    BY <1>5 DEF RulesChange, vars, receivers
<1> QED
    BY <1>1, <1>2, <1>3, <1>4, <1>5 DEF Next, FetchRules, Abandoned

\* The inductive invariant holds in every reachable state.
THEOREM NotifierInvariant == Spec => []IInv
<1>1. IInv /\ [Next]_vars => IInv'
    BY NextType, NextWakeup, NextList, NextCurrent DEF IInv
<1> QED
    BY InitIInv, <1>1, PTL DEF Spec

\* The channels never hold more than their capacity, and everything has its type.
THEOREM NotifierTypeOK == Spec => []TypeOK
BY NotifierInvariant, PTL DEF IInv

\* FetchRules waits on its condition variable only while there is no receiver,
\* for any number of receivers and fetchers.
THEOREM NotifierNoLostWakeup == Spec => []NoLostWakeup
BY NotifierInvariant, PTL DEF IInv

\* A subscribed receiver whose channel was not full at the last update was
\* given the latest list.
THEOREM NotifierSubscriberCurrent == Spec => []SubscriberCurrent
BY NotifierInvariant, PTL DEF IInv

\* The channel of a receiver whose removal is done gets nothing any more.
THEOREM NotifierNothingAfterRemoval == Spec => NothingAfterRemoval
<1>1. ASSUME IInv, [Next]_vars, NEW r \in Receivers, rpc[r] = "gone"
      PROVE  Len(buf'[r]) <= Len(buf[r])
    <2>0. TypeOK /\ r \notin subscribed
        BY <1>1 DEF IInv, ListInv
    <2>1. buf[r] \in Seq(Lists) /\ Len(buf[r]) \in Nat
        BY <2>0 DEF TypeOK
    <2>2. ASSUME NEW q \in Receivers, Receive(q)
          PROVE  Len(buf'[r]) <= Len(buf[r])
        <3>1. CASE q = r
            <4>1. buf'[r] = Tail(buf[r]) /\ buf[r] # <<>>
                BY <2>0, <2>2, <3>1 DEF Receive, TypeOK
            <4>2. Len(buf'[r]) = Len(buf[r]) - 1
                BY <2>1, <4>1
            <4> QED
                BY <2>1, <4>2
        <3>2. CASE q # r
            BY <2>0, <2>1, <2>2, <3>2 DEF Receive, TypeOK
        <3> QED
            BY <3>1, <3>2
    <2>3. ASSUME NEW f \in Fetchers, Deliver(f)
          PROVE  buf'[r] = buf[r]
        BY <2>0, <2>3 DEF Deliver, HasRoom
    <2>4. CASE ~(\E q \in Receivers : Receive(q)) /\ ~(\E f \in Fetchers : Deliver(f))
        <3>1. buf' = buf
            BY <1>1, <2>4 DEF Next, FetchRules, RulesChange, NotifyC, Cancel, RemoveChannel, Tick,
                   TickerStops, AwaitReceiver, FindGroups, FindGroupsFails, Abandoned, vars, receivers
        <3> QED
            BY <2>1, <3>1
    <2> QED
        BY <2>1, <2>2, <2>3, <2>4
<1>2. IInv /\ [Next]_vars
        => [\A r \in Receivers : rpc[r] = "gone" => Len(buf'[r]) <= Len(buf[r])]_vars
    BY <1>1
<1> QED
    BY NotifierInvariant, <1>2, PTL DEF Spec, NothingAfterRemoval
=============================================================================

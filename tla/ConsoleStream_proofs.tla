------------------------- MODULE ConsoleStream_proofs -------------------------
(* What a client of the event stream gets is continuous, for any number of   *)
(* clients, workers, slots and events and any page.                          *)
EXTENDS ConsoleStream, FiniteSetTheorems, TLAPS

(* The rows r that a stream has still to send are in the table, whose last    *)
(* row is e, and follow the last one it sent, l, which is the last one of the *)
(* ids g that its client got.                                                *)
Follow(r, g, l, e) ==
  /\ Contiguous(r) /\ Contiguous(g)
  /\ \A i \in DOMAIN r : r[i] \in 1..e
  /\ l <= e
  /\ r # <<>> /\ l # 0 => r[1] = l + 1
  /\ g # <<>> => l # 0 /\ g[Len(g)] = l

RowsFollow(c) == Follow(rows[c], received[c], lastId[c], events)

(* The alerts n that it has still to send are of workers it has not spoken    *)
(* of, those of t it has.                                                    *)
New(n, t, m) ==
  /\ Once(t)
  /\ \A i \in DOMAIN t : t[i] \in m
  /\ n \cap m = {}

AlertsAreNew(c) == New(news[c], told[c], emitted[c])

IInv == TypeOK /\ \A c \in Clients : RowsFollow(c) /\ AlertsAreNew(c)

-----------------------------------------------------------------------------
(* Sequences.                                                                *)

LEMMA TailContiguous ==
  ASSUME NEW s \in Seq(Nat), s # <<>>, Contiguous(s)
  PROVE  /\ Tail(s) \in Seq(Nat) /\ Contiguous(Tail(s))
         /\ Len(Tail(s)) = Len(s) - 1
         /\ \A i \in 1..Len(Tail(s)) : Tail(s)[i] = s[i + 1]
         /\ Tail(s) # <<>> => Tail(s)[1] = s[1] + 1
BY DEF Contiguous

LEMMA AppendContiguous ==
  ASSUME NEW s \in Seq(Nat), NEW n \in Nat, Contiguous(s),
         s # <<>> => n = s[Len(s)] + 1
  PROVE  /\ Append(s, n) \in Seq(Nat) /\ Contiguous(Append(s, n))
         /\ Append(s, n) # <<>> /\ Append(s, n)[Len(Append(s, n))] = n
<1> DEFINE t == Append(s, n)
<1>1. t \in Seq(Nat) /\ Len(t) = Len(s) + 1 /\ t[Len(t)] = n /\ t # <<>>
  OBVIOUS
<1>2. \A i \in 1..Len(s) : t[i] = s[i]
  OBVIOUS
<1>3. ASSUME NEW i \in 1..(Len(t) - 1) PROVE t[i + 1] = t[i] + 1
  <2>1. CASE i < Len(s)
    BY <1>1, <1>2, <2>1 DEF Contiguous
  <2>2. CASE i = Len(s)
    BY <1>1, <1>2, <2>2
  <2> QED
    BY <1>1, <2>1, <2>2
<1> QED
  BY <1>1, <1>3 DEF Contiguous

LEMMA AppendOnce ==
  ASSUME NEW S, NEW s \in Seq(S), NEW x \in S, Once(s),
         \A i \in DOMAIN s : s[i] # x
  PROVE  /\ Append(s, x) \in Seq(S) /\ Once(Append(s, x))
         /\ \A i \in DOMAIN Append(s, x) : Append(s, x)[i] = x \/ \E j \in DOMAIN s : Append(s, x)[i] = s[j]
BY DEF Once

LEMMA FromIsContiguous ==
  ASSUME NEW first \in Nat, NEW last \in Nat, first <= last + 1
  PROVE  /\ From(first, last) \in Seq(Nat) /\ Contiguous(From(first, last))
         /\ Len(From(first, last)) = last - first + 1
         /\ \A i \in 1..(last - first + 1) : From(first, last)[i] = first + i - 1
<1> DEFINE n == last - first + 1
<1>1. n \in Nat
  OBVIOUS
<1>2. From(first, last) \in [1..n -> Nat]
  BY <1>1 DEF From
<1>3. From(first, last) \in Seq(Nat) /\ Len(From(first, last)) = n
  BY <1>1, <1>2
<1>4. \A i \in 1..n : From(first, last)[i] = first + i - 1
  BY DEF From
<1> QED
  BY <1>1, <1>3, <1>4 DEF Contiguous

\* What a poll reads follows the last id, and is in the table.
LEMMA RecentEventsFollow ==
  ASSUME NEW after \in Nat, events \in Nat, after <= events
  PROVE  /\ RecentEvents(after) \in Seq(Nat) /\ Contiguous(RecentEvents(after))
         /\ \A i \in DOMAIN RecentEvents(after) : RecentEvents(after)[i] \in 1..events
         /\ RecentEvents(after) # <<>> /\ after # 0 =>
              RecentEvents(after)[1] = after + 1
<1>1. \A n \in Nat : AtMost(n) \in Nat /\ AtMost(n) <= n
  BY ConsoleAssumption DEF AtMost
<1>2. CASE after = 0
  <2>1. events - AtMost(events) + 1 \in Nat /\ events - AtMost(events) + 1 <= events + 1
        /\ events - AtMost(events) + 1 >= 1
    BY <1>1
  <2> QED
    <3> DEFINE f == events - AtMost(events) + 1
    <3>1. RecentEvents(after) = From(f, events)
      BY <1>2 DEF RecentEvents
    <3>2. f \in Nat /\ f <= events + 1 /\ f >= 1
      BY <2>1
    <3>3. /\ From(f, events) \in Seq(Nat) /\ Contiguous(From(f, events))
          /\ Len(From(f, events)) = events - f + 1
          /\ \A i \in 1..(events - f + 1) : From(f, events)[i] = f + i - 1
      BY <3>2, FromIsContiguous
    <3> HIDE DEF f
    <3> QED
      BY <1>2, <3>1, <3>2, <3>3
<1>3. CASE after # 0
  <2>1. events - after \in Nat
    OBVIOUS
  <2>2. after + AtMost(events - after) \in Nat /\ after + AtMost(events - after) <= events
        /\ after + 1 <= after + AtMost(events - after) + 1
    BY <1>1, <2>1
  <2> QED
    <3> DEFINE l == after + AtMost(events - after)
    <3>1. RecentEvents(after) = From(after + 1, l)
      BY <1>3 DEF RecentEvents
    <3>2. /\ From(after + 1, l) \in Seq(Nat) /\ Contiguous(From(after + 1, l))
          /\ Len(From(after + 1, l)) = l - (after + 1) + 1
          /\ \A i \in 1..(l - (after + 1) + 1) : From(after + 1, l)[i] = after + 1 + i - 1
      <4>1. after + 1 \in Nat /\ l \in Nat /\ after + 1 <= l + 1
        BY <2>2
      <4> HIDE DEF l
      <4> QED
        BY <4>1, FromIsContiguous
    <3> HIDE DEF l
    <3>3. l \in Nat /\ l <= events
      BY <2>2 DEF l
    <3> QED
      BY <3>1, <3>2, <3>3
<1> QED
  BY <1>2, <1>3

-----------------------------------------------------------------------------
(* Types.                                                                    *)

LEMMA InitType == Init => TypeOK
BY ConsoleAssumption DEF Init, TypeOK, Phases

LEMMA StepKeepsType ==
  ASSUME TypeOK, [Next]_vars, \A c \in Clients : lastId[c] <= events
  PROVE  TypeOK'
<1>1. CASE Others
  <2>1. CASE AppendEvent
    BY <1>1, <2>1, ConsoleAssumption DEF Others, AppendEvent, TypeOK, stream, client
  <2>2. CASE QueryAlerts
    BY <1>1, <2>2 DEF Others, QueryAlerts, Opened, TypeOK, stream, client
  <2>3. ASSUME NEW w \in Workers, Beat(w) \/ GrowStale(w) \/ ResolveAlert(w) PROVE TypeOK'
    BY <1>1, <2>3 DEF Others, Beat, GrowStale, ResolveAlert, TypeOK, stream, client
  <2> QED
    BY <1>1, <2>1, <2>2, <2>3 DEF Others
<1> SUFFICES ASSUME NEW c \in Clients, Connect(c) \/ Disconnect(c) \/ Serve(c) PROVE TypeOK'
  BY <1>1 DEF Next, vars, store, stream, client, TypeOK
<1>2. CASE Connect(c)
  BY <1>2, ConsoleAssumption DEF Connect, TypeOK, Phases, store
<1>3. CASE Disconnect(c)
  BY <1>3 DEF Disconnect, TypeOK, store, stream, client
<1>4. CASE ReadEvents(c)
  <2>1. RecentEvents(lastId[c]) \in Seq(Nat)
    BY RecentEventsFollow, ConsoleAssumption DEF TypeOK
  <2> QED
    BY <1>4, <2>1 DEF ReadEvents, TypeOK, Phases, store, client
<1>5. CASE EvaluateAlerts(c)
  BY <1>5 DEF EvaluateAlerts, Opened, Stale, TypeOK, Phases, client
<1>6. CASE SendKeepalive(c)
  BY <1>6 DEF SendKeepalive, TypeOK, Phases, store, stream, client
<1>7. CASE SendEvent(c)
  <2>1. Head(rows[c]) \in Nat /\ Tail(rows[c]) \in Seq(Nat)
    BY <1>7 DEF SendEvent, TypeOK
  <2> QED
    BY <1>7, <2>1 DEF SendEvent, Passed, TypeOK, store
<1>8. ASSUME NEW w \in Workers, SendAlert(c, w) PROVE TypeOK'
  BY <1>8 DEF SendAlert, TypeOK, store
<1>9. CASE PollAgain(c)
  BY <1>9 DEF PollAgain, TypeOK, Phases, store, stream, client
<1>10. CASE WriteFails(c)
  BY <1>10, ConsoleAssumption DEF WriteFails, Release, TypeOK, Phases, store, stream, client
<1> QED
  BY <1>2, <1>3, <1>4, <1>5, <1>6, <1>7, <1>8, <1>9, <1>10 DEF Serve

-----------------------------------------------------------------------------
(* Continuity.                                                               *)

LEMMA InitInv == Init => IInv
BY InitType DEF Init, IInv, RowsFollow, Follow, AlertsAreNew, New, Contiguous, Once, TypeOK

\* A table that grows takes nothing back.
LEMMA FollowGrows ==
  ASSUME NEW r \in Seq(Nat), NEW g, NEW l \in Nat, NEW e \in Nat, NEW f \in Nat,
         e <= f, Follow(r, g, l, e)
  PROVE  Follow(r, g, l, f)
BY DEF Follow

\* The next row is sent.
LEMMA FollowSent ==
  ASSUME NEW r \in Seq(Nat), NEW g \in Seq(Nat), NEW l \in Nat, NEW e \in Nat,
         r # <<>>, Follow(r, g, l, e)
  PROVE  Follow(Tail(r), Append(g, r[1]), r[1], e)
<1>1. Contiguous(r) /\ Contiguous(g)
  BY DEF Follow
<1>2. r[1] \in 1..e /\ r[1] \in Nat
  BY DEF Follow
<1>3. g # <<>> => r[1] = g[Len(g)] + 1
  BY DEF Follow
<1>4. /\ Tail(r) \in Seq(Nat) /\ Contiguous(Tail(r))
      /\ \A i \in 1..Len(Tail(r)) : Tail(r)[i] = r[i + 1]
      /\ Tail(r) # <<>> => Tail(r)[1] = r[1] + 1
      /\ Len(Tail(r)) = Len(r) - 1
  BY <1>1, TailContiguous
<1>5. /\ Append(g, r[1]) \in Seq(Nat) /\ Contiguous(Append(g, r[1]))
      /\ Append(g, r[1])[Len(Append(g, r[1]))] = r[1]
  BY <1>1, <1>2, <1>3, AppendContiguous
<1>6. \A i \in DOMAIN Tail(r) : Tail(r)[i] \in 1..e
  <2> SUFFICES ASSUME NEW i \in 1..Len(Tail(r)) PROVE Tail(r)[i] \in 1..e
    BY <1>4
  <2>1. i + 1 \in DOMAIN r
    BY <1>4
  <2> QED
    BY <1>4, <2>1 DEF Follow
<1> HIDE DEF Contiguous
<1> QED
  BY <1>2, <1>4, <1>5, <1>6 DEF Follow

\* A poll reads the rows that follow.
LEMMA FollowRead ==
  ASSUME TypeOK, NEW c \in Clients, RowsFollow(c)
  PROVE  Follow(RecentEvents(lastId[c]), received[c], lastId[c], events)
<1>1. lastId[c] \in Nat /\ events \in Nat /\ lastId[c] <= events
  BY DEF TypeOK, RowsFollow, Follow
<1> QED
  BY <1>1, RecentEventsFollow DEF RowsFollow, Follow

LEMMA StepKeepsRows ==
  ASSUME IInv, [Next]_vars, TypeOK', NEW d \in Clients
  PROVE  RowsFollow(d)'
<1>1. RowsFollow(d) /\ TypeOK
  BY DEF IInv
<1>2. /\ rows[d] \in Seq(Nat) /\ received[d] \in Seq(Nat) /\ lastId[d] \in Nat
      /\ events \in Nat /\ events' \in Nat
  BY <1>1 DEF TypeOK
<1>3. CASE /\ rows'[d] = rows[d] /\ received'[d] = received[d] /\ lastId'[d] = lastId[d]
           /\ events' >= events
  BY <1>1, <1>2, <1>3, FollowGrows DEF RowsFollow
<1>4. CASE Others \/ UNCHANGED vars
  BY <1>2, <1>3, <1>4 DEF Others, AppendEvent, QueryAlerts, Beat, GrowStale, ResolveAlert, vars, store, stream, client
<1> SUFFICES ASSUME NEW c \in Clients, Connect(c) \/ Disconnect(c) \/ Serve(c)
             PROVE  RowsFollow(d)'
  BY <1>4 DEF Next
<1>5. CASE Connect(c)
  <2>1. CASE d # c
    BY <1>1, <1>2, <1>3, <1>5, <2>1 DEF Connect, TypeOK, store
  <2>2. CASE d = c
    <3>1. rows'[d] = <<>> /\ received'[d] = <<>> /\ lastId'[d] = 0
      BY <1>1, <1>5, <2>2 DEF Connect, TypeOK
    <3> QED
      BY <1>2, <3>1 DEF RowsFollow, Follow, Contiguous
  <2> QED
    BY <2>1, <2>2
<1>6. CASE ReadEvents(c)
  <2>1. CASE d # c
    BY <1>1, <1>2, <1>3, <1>6, <2>1 DEF ReadEvents, TypeOK, store, client
  <2>2. CASE d = c
    <3>1. /\ rows'[d] = RecentEvents(lastId[d])
          /\ received'[d] = received[d] /\ lastId'[d] = lastId[d] /\ events' = events
      BY <1>1, <1>6, <2>2 DEF ReadEvents, TypeOK, store, client
    <3> QED
      BY <1>1, <3>1, FollowRead DEF RowsFollow
  <2> QED
    BY <2>1, <2>2
<1>7. CASE SendEvent(c)
  <2>1. CASE d # c
    BY <1>1, <1>2, <1>3, <1>7, <2>1 DEF SendEvent, Passed, TypeOK, store
  <2>2. CASE d = c
    <3>1. /\ rows[d] # <<>> /\ rows'[d] = Tail(rows[d]) /\ lastId'[d] = rows[d][1]
          /\ received'[d] = Append(received[d], rows[d][1]) /\ events' = events
      BY <1>1, <1>2, <1>7, <2>2 DEF SendEvent, Passed, TypeOK, store
    <3> QED
      BY <1>1, <1>2, <3>1, FollowSent DEF RowsFollow
  <2> QED
    BY <2>1, <2>2
<1>8. CASE Disconnect(c) \/ EvaluateAlerts(c) \/ SendKeepalive(c) \/ PollAgain(c) \/ WriteFails(c)
  BY <1>2, <1>3, <1>8 DEF Disconnect, EvaluateAlerts, SendKeepalive, PollAgain, WriteFails,
    store, stream, client
<1>9. ASSUME NEW w \in Workers, SendAlert(c, w) PROVE RowsFollow(d)'
  BY <1>2, <1>3, <1>9 DEF SendAlert, store
<1> QED
  BY <1>5, <1>6, <1>7, <1>8, <1>9 DEF Serve

LEMMA StepKeepsAlerts ==
  ASSUME IInv, [Next]_vars, TypeOK', NEW d \in Clients
  PROVE  AlertsAreNew(d)'
<1>1. AlertsAreNew(d) /\ TypeOK
  BY DEF IInv
<1>2. CASE news'[d] = news[d] /\ told'[d] = told[d] /\ emitted'[d] = emitted[d]
  BY <1>1, <1>2 DEF AlertsAreNew
<1>3. CASE Others \/ UNCHANGED vars
  BY <1>2, <1>3 DEF Others, vars, stream, client
<1> SUFFICES ASSUME NEW c \in Clients, Connect(c) \/ Disconnect(c) \/ Serve(c)
             PROVE  AlertsAreNew(d)'
  BY <1>3 DEF Next
<1>4. CASE Connect(c)
  <2>1. CASE d # c
    BY <1>1, <1>2, <1>4, <2>1 DEF Connect, TypeOK
  <2>2. CASE d = c
    <3>1. news'[d] = {} /\ told'[d] = <<>> /\ emitted'[d] = {}
      BY <1>1, <1>4, <2>2 DEF Connect, TypeOK
    <3> QED
      BY <3>1 DEF AlertsAreNew, New, Once
  <2> QED
    BY <2>1, <2>2
<1>5. CASE EvaluateAlerts(c)
  <2>1. CASE d # c
    BY <1>1, <1>2, <1>5, <2>1 DEF EvaluateAlerts, TypeOK, client
  <2>2. CASE d = c
    <3>1. news'[d] = Stale \ emitted[d] /\ told'[d] = told[d] /\ emitted'[d] = emitted[d]
      BY <1>1, <1>5, <2>2 DEF EvaluateAlerts, TypeOK, client
    <3> QED
      BY <1>1, <3>1 DEF AlertsAreNew, New
  <2> QED
    BY <2>1, <2>2
<1>6. ASSUME NEW w \in Workers, SendAlert(c, w) PROVE AlertsAreNew(d)'
  <2>1. CASE d # c
    BY <1>1, <1>2, <1>6, <2>1 DEF SendAlert, TypeOK
  <2>2. CASE d = c
    <3>1. /\ told'[d] = Append(told[d], w) /\ emitted'[d] = emitted[d] \cup {w}
          /\ news'[d] = news[d] \ {w} /\ told[d] \in Seq(Workers) /\ w \in news[d]
      BY <1>1, <1>6, <2>2 DEF SendAlert, TypeOK
    <3>2. Once(told[d]) /\ (\A i \in DOMAIN told[d] : told[d][i] \in emitted[d])
          /\ news[d] \cap emitted[d] = {}
      BY <1>1 DEF AlertsAreNew, New
    <3>3. \A i \in DOMAIN told[d] : told[d][i] # w
      BY <3>1, <3>2
    <3>4. /\ Once(Append(told[d], w))
          /\ \A i \in DOMAIN Append(told[d], w) :
               \/ Append(told[d], w)[i] = w
               \/ \E j \in DOMAIN told[d] : Append(told[d], w)[i] = told[d][j]
      BY <3>1, <3>2, <3>3, AppendOnce
    <3>5. \A i \in DOMAIN Append(told[d], w) :
            Append(told[d], w)[i] \in emitted[d] \cup {w}
      BY <3>2, <3>4
    <3> QED
      BY <3>1, <3>2, <3>4, <3>5 DEF AlertsAreNew, New
  <2> QED
    BY <2>1, <2>2
<1>7. CASE \/ Disconnect(c) \/ ReadEvents(c) \/ SendKeepalive(c) \/ SendEvent(c)
           \/ PollAgain(c) \/ WriteFails(c)
  BY <1>2, <1>7 DEF Disconnect, ReadEvents, SendKeepalive, SendEvent, PollAgain, WriteFails,
    stream, client
<1> QED
  BY <1>4, <1>5, <1>6, <1>7 DEF Serve

LEMMA StepKeepsInv == IInv /\ [Next]_vars => IInv'
<1> SUFFICES ASSUME IInv, [Next]_vars PROVE IInv'
  OBVIOUS
<1>1. TypeOK'
  BY StepKeepsType DEF IInv, RowsFollow, Follow
<1> QED
  BY <1>1, StepKeepsRows, StepKeepsAlerts DEF IInv

(* Whatever arrives between two polls and whoever else is served, a client    *)
(* gets the events of the table in their order without a gap, and the alert   *)
(* of a worker once (sse_stream, list_recent_events, evaluate_alerts).        *)
THEOREM StreamsAreContinuous == Spec => []StreamContinuous
<1>1. IInv => StreamContinuous
  BY DEF IInv, RowsFollow, Follow, AlertsAreNew, New, StreamContinuous
<1> QED
  BY InitInv, StepKeepsInv, <1>1, PTL DEF Spec

-----------------------------------------------------------------------------
(* Slots.                                                                    *)

SlotsCounted == active = Cardinality(Open)

LEMMA StepKeepsCount ==
  ASSUME IInv, SlotsCounted, [Next]_vars
  PROVE  SlotsCounted'
<1>1. TypeOK /\ active \in Nat /\ IsFiniteSet(Open)
  <2>1. IsFiniteSet(Open)
    BY ConsoleAssumption, FS_Subset DEF Open
  <2> QED
    BY <2>1 DEF IInv, TypeOK
<1>2. CASE active' = active /\ Open' = Open
  BY <1>2 DEF SlotsCounted
<1>3. CASE Others \/ UNCHANGED vars
  BY <1>2, <1>3 DEF Others, vars, Open
<1> SUFFICES ASSUME NEW c \in Clients, Connect(c) \/ Disconnect(c) \/ Serve(c)
             PROVE  SlotsCounted'
  BY <1>3 DEF Next
<1>4. CASE Connect(c)
  <2>1. Open' = Open \cup {c} /\ c \notin Open /\ active' = active + 1
    BY <1>1, <1>4 DEF Connect, Open, TypeOK
  <2> QED
    BY <1>1, <2>1, FS_AddElement DEF SlotsCounted
<1>5. CASE WriteFails(c)
  <2>1. Open' = Open \ {c} /\ c \in Open
    BY <1>1, <1>5 DEF WriteFails, Open, TypeOK
  <2>2. Cardinality(Open') = active - 1 /\ Cardinality(Open') \in Nat
    BY <1>1, <2>1, FS_RemoveElement, FS_CardinalityType DEF SlotsCounted
  <2>3. active' = active - 1
    BY <1>1, <1>5, <2>2 DEF WriteFails, Release
  <2> QED
    BY <2>2, <2>3 DEF SlotsCounted
<1>6. CASE Disconnect(c) \/ SendEvent(c) \/ \E w \in Workers : SendAlert(c, w)
  BY <1>2, <1>6 DEF Disconnect, SendEvent, SendAlert, Open, stream
<1>7. CASE ReadEvents(c) \/ EvaluateAlerts(c) \/ SendKeepalive(c) \/ PollAgain(c)
  <2>1. active' = active /\ Open' = Open
    BY <1>1, <1>7 DEF ReadEvents, EvaluateAlerts, SendKeepalive, PollAgain, Open, TypeOK
  <2> QED
    BY <1>2, <2>1
<1> QED
  BY <1>4, <1>5, <1>6, <1>7 DEF Serve

(* active_sse_connections is the number of streams that are open, for any      *)
(* number of clients, so the limit is kept and no slot is lost, however a      *)
(* stream ends (_try_acquire_sse_slot, _release_sse_slot).                    *)
THEOREM SlotsAreCounted == Spec => [](SlotsCounted /\ active <= Slots)
<1>1. Init => SlotsCounted
  <2> SUFFICES ASSUME Init PROVE SlotsCounted
    OBVIOUS
  <2>1. Open = {}
    BY DEF Init, Open
  <2> QED
    BY <2>1, FS_EmptySet DEF SlotsCounted, Init
<1>2. IInv /\ SlotsCounted /\ [Next]_vars => SlotsCounted'
  BY StepKeepsCount
<1>3. IInv /\ SlotsCounted => SlotsCounted /\ active <= Slots
  BY ConsoleAssumption DEF IInv, TypeOK
<1> QED
  BY InitInv, StepKeepsInv, <1>1, <1>2, <1>3, PTL DEF Spec
=============================================================================

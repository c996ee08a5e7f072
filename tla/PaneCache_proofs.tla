--------------------------- MODULE PaneCache_proofs ---------------------------
(***************************************************************************)
(* Proofs about PaneCache: the state stays well-typed, the last event of a   *)
(* pane is never dropped, what is settled of a pane stays, and the binding of *)
(* a closed pane does not return, for any number of panes, versions, events  *)
(* in flight and disconnections.                                             *)
(***************************************************************************)
EXTENDS LiveBindings, TLAPS

\* What pane.list answers is a view of the session's panes.
LEMMA ListIsView ==
  ASSUME server \in [Panes -> Versions \cup {Missing, Closed}]
  PROVE  PaneList \in Views
BY DEF PaneList, Views

\* A view stays one after an event.
LEMMA AppliedIsView ==
  ASSUME NEW view \in Views, NEW e \in Event
  PROVE  Applied(view, e) \in Views
BY DEF Applied, Views, Event

-----------------------------------------------------------------------------
\* The state stays well-typed: at every moment the cache is a view, never one
\* with an entry of a closed pane, and the stream is bounded.
THEOREM CacheTypeCorrect == Spec => []TypeOK
<1> USE CacheAssumption
<1>1. Init => TypeOK
  <2> SUFFICES ASSUME Init PROVE TypeOK
    OBVIOUS
  <2>1. server \in [Panes -> Versions \cup {Missing, Closed}]
    BY DEF Init, Versions
  <2>2. cache \in Views
    BY <2>1, ListIsView DEF Init
  <2>3. fetched \in [Threads -> Views \cup {Nothing}]
    BY DEF Init
  <2> QED
    BY <2>1, <2>2, <2>3 DEF Init, TypeOK
<1>2. TypeOK /\ [Next]_vars => TypeOK'
  <2> SUFFICES ASSUME TypeOK, [Next]_vars PROVE TypeOK'
    OBVIOUS
  <2>1. ASSUME NEW p \in Panes, NEW version \in Versions \cup {Closed}, Changes(p, version)
        PROVE  TypeOK'
    <3>1. server' \in [Panes -> Versions \cup {Missing, Closed}]
      BY <2>1 DEF Changes, TypeOK
    <3>2. stream' \in Seq(Event) /\ Len(stream') <= MaxStream
      <4>1. [pane |-> p, version |-> version] \in Event
        BY DEF Event
      <4> QED
        BY <2>1, <4>1 DEF Changes, TypeOK
    <3> QED
      BY <2>1, <3>1, <3>2 DEF Changes, TypeOK
  <2>2. ASSUME NEW p \in Panes, PaneOpens(p) \/ PaneUpdates(p) \/ PaneCloses(p)
        PROVE  TypeOK'
    <3>1. CASE PaneOpens(p)
      <4>1. 1 \in Versions
        BY DEF Versions
      <4> QED
        BY <3>1, <4>1, <2>1 DEF PaneOpens
    <3>2. CASE PaneUpdates(p)
      <4>1. server[p] + 1 \in Versions
        BY <3>2 DEF PaneUpdates, Versions
      <4> QED
        BY <3>2, <4>1, <2>1 DEF PaneUpdates
    <3>3. CASE PaneCloses(p)
      BY <3>3, <2>1 DEF PaneCloses
    <3> QED
      BY <2>2, <3>1, <3>2, <3>3
  <2>3. CASE Subscribe
    BY <2>3 DEF Subscribe, TypeOK
  <2>4. CASE Disconnect
    BY <2>4 DEF Disconnect, TypeOK
  <2>5. CASE ApplyEvent
    <3>1. /\ Head(stream) \in Event /\ Tail(stream) \in Seq(Event)
          /\ Len(Tail(stream)) <= MaxStream
      BY <2>5 DEF ApplyEvent, TypeOK
    <3>2. cache' \in Views
      BY <2>5, <3>1, AppliedIsView DEF ApplyEvent, TypeOK
    <3> QED
      BY <2>5, <3>1, <3>2 DEF ApplyEvent, TypeOK
  <2>6. CASE FetchFails
    BY <2>6 DEF FetchFails, TypeOK
  <2>7. ASSUME NEW t \in Threads, Fetch(t) PROVE TypeOK'
    <3>1. PaneList \in Views
      BY ListIsView DEF TypeOK
    <3> QED
      BY <2>7, <3>1 DEF Fetch, TypeOK
  <2>8. ASSUME NEW t \in Threads, Replace(t) PROVE TypeOK'
    <3>1. fetched[t] \in Views
      BY <2>8 DEF Replace, TypeOK
    <3> QED
      BY <2>8, <3>1 DEF Replace, TypeOK
  <2>9. CASE UNCHANGED vars
    BY <2>9, ListIsView DEF vars, TypeOK
  <2> QED
    BY <2>2, <2>3, <2>4, <2>5, <2>6, <2>7, <2>8, <2>9 DEF Next
<1> QED
  BY <1>1, <1>2, PTL DEF Spec

-----------------------------------------------------------------------------
\* The check of revisions never drops the news.  The invariant: what is in
\* flight is in order and ends with Herdr's state, and nothing the daemon holds
\* is ahead of Herdr, so the last event of a pane is never older than the entry.

\* Events flow only while the monitor is subscribed.
FlowsWhileStreaming == stream # <<>> => monitor = "streaming"

\* The monitor re-reads pane.list only between two subscriptions.
ReadsBetween == fetched["monitor"] # Nothing => monitor = "waiting"

\* No event of a pane comes later in the stream than the i-th.
LastOfPane(i) == \A j \in i + 1 .. Len(stream) : stream[j].pane # stream[i].pane

\* What Herdr has of a pane is not behind a version; only a closed pane reached
\* being closed.
Reached(p, version) == server[p] = Closed \/ (version # Closed /\ version <= server[p])

StreamEndsAtServer ==
  \A i \in 1 .. Len(stream) :
    /\ Reached(stream[i].pane, stream[i].version)
    /\ LastOfPane(i) => stream[i].version = server[stream[i].pane]

NeverAhead ==
  \A p \in Panes :
    /\ Reached(p, cache[p])
    /\ \A t \in Threads : fetched[t] # Nothing => Reached(p, fetched[t][p])

CatchInv == FlowsWhileStreaming /\ ReadsBetween /\ StreamEndsAtServer /\ NeverAhead

\* A pane of the daemon's view after an event is ahead of Herdr only if it was
\* so before, or the event is.
LEMMA AppliedReached ==
  ASSUME TypeOK, NEW e \in Event, NEW p \in Panes,
         Reached(p, cache[p]), Reached(e.pane, e.version)
  PROVE  Reached(p, Applied(cache, e)[p])
<1>1. /\ cache \in [Panes -> Versions \cup {Missing}]
      /\ server[p] \in Versions \cup {Missing, Closed}
  BY DEF TypeOK, Views
<1>2. Applied(cache, e)[p] \in {cache[p]} \cup (IF e.pane = p THEN {Missing, e.version} ELSE {})
  BY <1>1 DEF Applied
<1>3. Reached(p, Missing)
  BY <1>1 DEF Reached, Versions, Missing, Closed
<1> QED
  BY <1>2, <1>3

\* What pane.list answers is what Herdr has.
LEMMA ListReached ==
  ASSUME TypeOK, NEW p \in Panes
  PROVE  Reached(p, PaneList[p])
<1>1. server[p] \in Versions \cup {Missing, Closed}
  BY DEF TypeOK
<1> QED
  BY <1>1, CacheAssumption DEF Reached, PaneList, Versions, Missing, Closed

\* A change of a pane that moves Herdr forward keeps the invariant, told or not.
LEMMA ChangesKeepCatchInv ==
  ASSUME TypeOK, CatchInv, NEW p \in Panes, NEW version \in Versions \cup {Closed},
         Changes(p, version),
         server[p] # Closed, version = Closed \/ server[p] <= version
  PROVE  CatchInv'
<1> DEFINE told == [pane |-> p, version |-> version]
<1>1. /\ server \in [Panes -> Versions \cup {Missing, Closed}]
      /\ stream \in Seq(Event) /\ Len(stream) \in Nat
      /\ cache \in Views /\ fetched \in [Threads -> Views \cup {Nothing}]
  BY DEF TypeOK
<1>2. /\ server' = [server EXCEPT ![p] = version]
      /\ UNCHANGED <<monitor, fetched, cache>>
      /\ \/ monitor = "streaming" /\ stream' = Append(stream, told)
         \/ monitor # "streaming" /\ stream' = stream
  BY DEF Changes
<1>3. ASSUME NEW q \in Panes, NEW v \in Int, Reached(q, v)
      PROVE  Reached(q, v)'
  <2>1. CASE q # p
    BY <1>1, <1>2, <1>3, <2>1 DEF Reached
  <2>2. CASE q = p
    <3>1. server'[p] = version /\ v # Closed /\ v <= server[p] /\ server[p] \in Int
      BY <1>1, <1>2, <1>3, <2>2 DEF Reached, Versions, Missing, Closed
    <3>2. version \in Int
      BY DEF Versions, Closed
    <3> QED
      BY <2>2, <3>1, <3>2 DEF Reached
  <2> QED
    BY <2>1, <2>2
<1>4. FlowsWhileStreaming' /\ ReadsBetween'
  BY <1>2 DEF CatchInv, FlowsWhileStreaming, ReadsBetween
<1>5. NeverAhead'
  <2> SUFFICES ASSUME NEW q \in Panes
               PROVE  /\ Reached(q, cache[q])'
                      /\ \A t \in Threads : fetched'[t] # Nothing => Reached(q, fetched[t][q])'
    BY DEF NeverAhead
  <2>1. Reached(q, cache[q])'
    <3>1. cache[q] \in Int
      BY <1>1 DEF Views, Versions, Missing
    <3> QED
      BY <1>2, <1>3, <3>1 DEF CatchInv, NeverAhead, Reached
  <2>2. ASSUME NEW t \in Threads, fetched'[t] # Nothing
        PROVE  Reached(q, fetched[t][q])'
    <3>1. fetched[t][q] \in Int
      BY <1>1, <1>2, <2>2 DEF Views, Versions, Missing
    <3> QED
      BY <1>2, <1>3, <2>2, <3>1 DEF CatchInv, NeverAhead, Reached
  <2> QED
    BY <2>1, <2>2
<1>6. StreamEndsAtServer'
  <2>1. CASE stream' = stream /\ monitor # "streaming"
    <3>1. stream' = <<>>
      BY <2>1 DEF CatchInv, FlowsWhileStreaming
    <3> QED
      BY <3>1 DEF StreamEndsAtServer
  <2>2. CASE stream' = Append(stream, told)
    <3>1. /\ Len(stream') = Len(stream) + 1
          /\ stream'[Len(stream) + 1] = told
          /\ \A i \in 1 .. Len(stream) : stream'[i] = stream[i] /\ stream[i] \in Event
      BY <1>1, <2>2
    <3> SUFFICES ASSUME NEW i \in 1 .. Len(stream')
                 PROVE  /\ Reached(stream[i].pane, stream[i].version)'
                        /\ LastOfPane(i)' => stream'[i].version = server'[stream'[i].pane]
      BY DEF StreamEndsAtServer, Reached
    <3>2. CASE i = Len(stream) + 1
      <4>1. server'[p] = version /\ version \in Int
        BY <1>1, <1>2 DEF Versions, Closed
      <4> QED
        BY <3>1, <3>2, <4>1 DEF Reached
    <3>3. CASE i \in 1 .. Len(stream)
      <4>1. /\ stream'[i] = stream[i] /\ stream[i].pane \in Panes /\ stream[i].version \in Int
            /\ Reached(stream[i].pane, stream[i].version)
        BY <3>1, <3>3 DEF Event, CatchInv, StreamEndsAtServer, Versions, Closed
      <4>2. Reached(stream[i].pane, stream[i].version)'
        BY <1>3, <4>1 DEF Reached
      <4>3. ASSUME LastOfPane(i)' PROVE stream'[i].version = server'[stream'[i].pane]
        <5>1. \A j \in i + 1 .. Len(stream) + 1 : stream'[j].pane # stream'[i].pane
          BY <3>1, <4>3 DEF LastOfPane
        <5>2. stream[i].pane # p
          <6>1. Len(stream) + 1 \in i + 1 .. Len(stream) + 1
            BY <1>1, <3>3
          <6> QED
            BY <3>1, <4>1, <5>1, <6>1
        <5>3. LastOfPane(i)
          <6> SUFFICES ASSUME NEW j \in i + 1 .. Len(stream)
                       PROVE  stream[j].pane # stream[i].pane
            BY DEF LastOfPane
          <6>1. j \in 1 .. Len(stream) /\ j \in i + 1 .. Len(stream) + 1
            BY <1>1, <3>3
          <6> QED
            BY <3>1, <4>1, <5>1, <6>1
        <5> QED
          BY <1>1, <1>2, <3>3, <4>1, <5>2, <5>3 DEF CatchInv, StreamEndsAtServer
      <4> QED
        BY <4>2, <4>3
    <3> QED
      BY <1>1, <3>1, <3>2, <3>3
  <2> QED
    BY <1>2, <2>1, <2>2
<1> QED
  BY <1>4, <1>5, <1>6 DEF CatchInv

\* Applying the first event in flight keeps the invariant.
LEMMA ApplyKeepsCatchInv ==
  ASSUME TypeOK, CatchInv, ApplyEvent
  PROVE  CatchInv'
<1>1. /\ stream \in Seq(Event) /\ stream # <<>>
      /\ cache' = Applied(cache, Head(stream)) /\ stream' = Tail(stream)
      /\ UNCHANGED <<server, monitor, fetched>>
  BY DEF ApplyEvent, TypeOK
<1>2. /\ Len(stream) \in Nat \ {0} /\ Len(stream') = Len(stream) - 1
      /\ Head(stream) = stream[1] /\ stream[1] \in Event
      /\ \A i \in 1 .. Len(stream') : stream'[i] = stream[i + 1]
  BY <1>1
<1>3. FlowsWhileStreaming' /\ ReadsBetween'
  BY <1>1 DEF CatchInv, FlowsWhileStreaming, ReadsBetween
<1>4. NeverAhead'
  <2> SUFFICES ASSUME NEW q \in Panes
               PROVE  /\ Reached(q, cache[q])'
                      /\ \A t \in Threads : fetched'[t] # Nothing => Reached(q, fetched[t][q])'
    BY DEF NeverAhead
  <2>1. Reached(stream[1].pane, stream[1].version) /\ Reached(q, cache[q])
    BY <1>2 DEF CatchInv, StreamEndsAtServer, NeverAhead
  <2>2. Reached(q, Applied(cache, stream[1])[q])
    BY <1>2, <2>1, AppliedReached
  <2>3. Reached(q, cache[q])'
    BY <1>1, <1>2, <2>2 DEF Reached
  <2> QED
    BY <1>1, <2>3 DEF CatchInv, NeverAhead, Reached
<1>5. StreamEndsAtServer'
  <2> SUFFICES ASSUME NEW i \in 1 .. Len(stream')
               PROVE  /\ Reached(stream[i].pane, stream[i].version)'
                      /\ LastOfPane(i)' => stream'[i].version = server'[stream'[i].pane]
    BY DEF StreamEndsAtServer, Reached
  <2>1. i + 1 \in 1 .. Len(stream) /\ stream'[i] = stream[i + 1]
    BY <1>2
  <2>2. Reached(stream[i].pane, stream[i].version)'
    BY <1>1, <2>1 DEF CatchInv, StreamEndsAtServer, Reached
  <2>3. ASSUME LastOfPane(i)' PROVE LastOfPane(i + 1)
    <3> SUFFICES ASSUME NEW j \in i + 1 + 1 .. Len(stream)
                 PROVE  stream[j].pane # stream[i + 1].pane
      BY DEF LastOfPane
    <3>1. /\ j - 1 \in i + 1 .. Len(stream') /\ j - 1 \in 1 .. Len(stream')
          /\ (j - 1) + 1 = j
      BY <1>2, <2>1
    <3>2. stream'[j - 1] = stream[j]
      BY <1>2, <3>1
    <3> QED
      BY <2>1, <2>3, <3>1, <3>2 DEF LastOfPane
  <2> QED
    BY <1>1, <2>1, <2>2, <2>3 DEF CatchInv, StreamEndsAtServer
<1> QED
  BY <1>3, <1>4, <1>5 DEF CatchInv

\* The invariant holds in every reachable state.
LEMMA AlwaysCatchInv == Spec => []CatchInv
<1> USE CacheAssumption
<1>1. Init => CatchInv
  <2> SUFFICES ASSUME Init PROVE CatchInv
    OBVIOUS
  <2>1. /\ server \in [Panes -> {Missing, 1}] /\ stream = <<>>
        /\ fetched = [t \in Threads |-> Nothing] /\ cache = PaneList
    BY DEF Init
  <2>2. FlowsWhileStreaming /\ StreamEndsAtServer
    BY <2>1 DEF FlowsWhileStreaming, StreamEndsAtServer
  <2>3. ReadsBetween
    BY <2>1 DEF ReadsBetween, Threads
  <2>4. NeverAhead
    <3> SUFFICES ASSUME NEW p \in Panes PROVE Reached(p, PaneList[p])
      BY <2>1 DEF NeverAhead
    <3>1. server[p] \in {Missing, 1}
      BY <2>1
    <3> QED
      BY <3>1 DEF Reached, PaneList, Versions, Missing, Closed
  <2> QED
    BY <2>2, <2>3, <2>4 DEF CatchInv
<1>2. TypeOK /\ CatchInv /\ [Next]_vars => CatchInv'
  <2> SUFFICES ASSUME TypeOK, CatchInv, [Next]_vars PROVE CatchInv'
    OBVIOUS
  <2>1. ASSUME NEW p \in Panes, PaneOpens(p) \/ PaneUpdates(p) \/ PaneCloses(p)
        PROVE  CatchInv'
    <3>1. CASE PaneOpens(p)
      <4>1. 1 \in Versions /\ server[p] # Closed /\ server[p] <= 1 /\ Changes(p, 1)
        BY <3>1 DEF PaneOpens, Versions, Missing, Closed
      <4> QED
        BY <4>1, ChangesKeepCatchInv
    <3>2. CASE PaneUpdates(p)
      <4>1. /\ server[p] + 1 \in Versions /\ server[p] # Closed /\ server[p] <= server[p] + 1
            /\ Changes(p, server[p] + 1)
        BY <3>2 DEF PaneUpdates, Versions, Closed
      <4> QED
        BY <4>1, ChangesKeepCatchInv
    <3>3. CASE PaneCloses(p)
      <4>1. server[p] # Closed /\ Changes(p, Closed)
        BY <3>3 DEF PaneCloses, Versions, Closed
      <4> QED
        BY <4>1, ChangesKeepCatchInv
    <3> QED
      BY <2>1, <3>1, <3>2, <3>3
  <2>2. CASE Subscribe
    <3>1. ReadsBetween'
      BY <2>2 DEF CatchInv, ReadsBetween, Subscribe
    <3> QED
      BY <2>2, <3>1 DEF CatchInv, FlowsWhileStreaming, StreamEndsAtServer, LastOfPane,
                        NeverAhead, Reached, Subscribe
  <2>3. CASE Disconnect
    <3>1. StreamEndsAtServer' /\ FlowsWhileStreaming'
      BY <2>3 DEF StreamEndsAtServer, FlowsWhileStreaming, Disconnect
    <3> QED
      BY <2>3, <3>1 DEF CatchInv, ReadsBetween, NeverAhead, Reached, Disconnect
  <2>4. CASE ApplyEvent
    BY <2>4, ApplyKeepsCatchInv
  <2>5. CASE FetchFails
    <3>1. stream = <<>>
      BY <2>5 DEF CatchInv, FlowsWhileStreaming, FetchFails
    <3> QED
      BY <2>5, <3>1 DEF CatchInv, FlowsWhileStreaming, ReadsBetween, StreamEndsAtServer,
                        NeverAhead, Reached, FetchFails
  <2>6. ASSUME NEW t \in Threads, Fetch(t) PROVE CatchInv'
    <3>1. /\ fetched' = [fetched EXCEPT ![t] = PaneList] /\ fetched \in [Threads -> Views \cup {Nothing}]
          /\ UNCHANGED <<server, stream, monitor, cache>>
          /\ t = "monitor" => monitor = "waiting"
      BY <2>6 DEF Fetch, TypeOK
    <3>2. ReadsBetween'
      BY <3>1 DEF CatchInv, ReadsBetween, Threads
    <3>3. NeverAhead'
      BY <3>1, ListReached DEF CatchInv, NeverAhead, Reached
    <3> QED
      BY <3>1, <3>2, <3>3 DEF CatchInv, FlowsWhileStreaming, StreamEndsAtServer, LastOfPane, Reached
  <2>7. ASSUME NEW t \in Threads, Replace(t) PROVE CatchInv'
    <3>1. /\ fetched[t] # Nothing /\ cache' = fetched[t]
          /\ fetched' = [fetched EXCEPT ![t] = Nothing] /\ fetched \in [Threads -> Views \cup {Nothing}]
          /\ monitor' = IF t = "monitor" THEN "subscribing" ELSE monitor
          /\ UNCHANGED <<server, stream>>
      BY <2>7 DEF Replace, TypeOK
    <3>2. FlowsWhileStreaming' /\ ReadsBetween'
      BY <3>1 DEF CatchInv, FlowsWhileStreaming, ReadsBetween, Threads
    <3>3. NeverAhead'
      BY <3>1 DEF CatchInv, NeverAhead, Reached
    <3> QED
      BY <3>1, <3>2, <3>3 DEF CatchInv, StreamEndsAtServer, LastOfPane, Reached
  <2>8. CASE UNCHANGED vars
    BY <2>8 DEF vars, CatchInv, FlowsWhileStreaming, ReadsBetween, StreamEndsAtServer,
                LastOfPane, NeverAhead, Reached
  <2> QED
    BY <2>1, <2>2, <2>3, <2>4, <2>5, <2>6, <2>7, <2>8 DEF Next
<1> QED
  BY <1>1, <1>2, CacheTypeCorrect, PTL DEF Spec

\* When the last event in flight of a pane has been applied, the cache shows the
\* pane as Herdr has it (pane_cache.rs apply).
THEOREM NewsIsNeverDropped == Spec => LastEventCatchesUp
<1> USE CacheAssumption
<1>1. ASSUME TypeOK, CatchInv, ApplyEvent,
             \A i \in 2 .. Len(stream) : stream[i].pane # stream[1].pane
      PROVE  cache'[stream[1].pane] = PaneList[stream[1].pane]
  <2> DEFINE e == stream[1]
  <2>1. /\ e \in Event /\ 1 \in 1 .. Len(stream) /\ cache' = Applied(cache, e)
    BY <1>1 DEF ApplyEvent, TypeOK
  <2>2. /\ cache \in [Panes -> Versions \cup {Missing}]
        /\ e.pane \in Panes /\ e.version \in Versions \cup {Closed}
    BY <1>1, <2>1 DEF TypeOK, Views, Event
  <2>3. LastOfPane(1)
    BY <1>1 DEF LastOfPane
  <2>4. e.version = server[e.pane] /\ Reached(e.pane, cache[e.pane])
    BY <1>1, <2>1, <2>2, <2>3 DEF CatchInv, StreamEndsAtServer, NeverAhead
  <2> HIDE DEF e
  <2>5. CASE e.version = Closed
    <3>1. Applied(cache, e)[e.pane] = Missing
      BY <2>2, <2>5 DEF Applied
    <3>2. Closed \notin Versions
      BY DEF Versions, Closed
    <3>3. PaneList[e.pane] = Missing
      BY <2>2, <2>4, <2>5, <3>2 DEF PaneList
    <3> QED
      BY <2>1, <3>1, <3>3 DEF e
  <2>6. CASE e.version # Closed
    <3>1. e.version \in Versions /\ PaneList[e.pane] = e.version
      BY <2>2, <2>4, <2>6 DEF PaneList
    <3>2. cache[e.pane] <= e.version
      BY <2>4, <2>6 DEF Reached
    <3>3. \/ Revision(e.pane, e.version) = 0
          \/ Revision(e.pane, e.version) >= Revision(e.pane, cache[e.pane])
      BY <2>2, <3>1, <3>2 DEF Revision, Versions, Missing
    <3>4. Applied(cache, e) = [cache EXCEPT ![e.pane] = e.version]
      BY <2>6, <3>3 DEF Applied
    <3> QED
      BY <2>1, <2>2, <3>1, <3>4 DEF e
  <2> QED
    BY <2>5, <2>6 DEF e
<1>2. TypeOK /\ CatchInv /\ [Next]_vars =>
        [ApplyEvent /\ (\A i \in 2 .. Len(stream) : stream[i].pane # stream[1].pane)
           => cache'[stream[1].pane] = PaneList[stream[1].pane]]_vars
  BY <1>1
<1> QED
  BY <1>2, CacheTypeCorrect, AlwaysCatchInv, PTL DEF Spec, LastEventCatchesUp

-----------------------------------------------------------------------------
\* What is settled of a pane stays: an event in flight is not ahead of Herdr, so
\* one that is older than the entry does not get past the check of revisions.

\* An event keeps what is settled of its pane, when the pane carries revisions or
\* has closed.
LEMMA ApplyKeepsSettled ==
  ASSUME TypeOK, CatchInv, ApplyEvent, NEW p \in Panes, Settled(p),
         p \notin Unrevised \/ server[p] = Closed
  PROVE  Settled(p)'
<1> DEFINE e == stream[1]
<1>1. /\ stream \in Seq(Event) /\ Len(stream) \in Nat \ {0} /\ e \in Event
      /\ cache' = Applied(cache, e) /\ stream' = Tail(stream)
      /\ UNCHANGED <<server, fetched>>
  BY DEF ApplyEvent, TypeOK
<1>2. /\ cache \in [Panes -> Versions \cup {Missing}]
      /\ server[p] \in Versions \cup {Missing, Closed}
      /\ e.pane \in Panes /\ e.version \in Versions \cup {Closed}
      /\ cache[p] = PaneList[p]
  BY <1>1 DEF TypeOK, Views, Event, Settled
<1>3. Reached(e.pane, e.version)
  BY <1>1 DEF CatchInv, StreamEndsAtServer
<1>4. e.pane = p /\ server[p] = Closed => e.version = Closed
  BY <1>1 DEF Settled
<1>5. /\ Len(stream') = Len(stream) - 1
      /\ \A i \in 1 .. Len(stream') : i + 1 \in 1 .. Len(stream) /\ stream'[i] = stream[i + 1]
  BY <1>1
<1> HIDE DEF e
<1>6. Applied(cache, e)[p] = PaneList[p]
  <2>1. CASE e.pane # p
    BY <1>2, <2>1 DEF Applied
  <2>2. CASE e.pane = p /\ server[p] = Closed
    <3>1. Applied(cache, e)[p] = Missing
      BY <1>2, <1>4, <2>2 DEF Applied
    <3> QED
      BY <2>2, <3>1 DEF PaneList, Versions, Closed
  <2>3. CASE e.pane = p /\ server[p] # Closed
    <3>1. e.version # Closed /\ e.version <= server[p] /\ e.version \in Versions
      BY <1>2, <1>3, <2>3 DEF Reached
    <3>2. cache[p] = server[p] /\ cache[p] \in Versions
      BY <1>2, <2>3, <3>1 DEF PaneList, Versions, Missing, Closed
    <3>3. Revision(p, e.version) = e.version /\ Revision(p, cache[p]) = cache[p]
      BY <2>3 DEF Revision
    <3>4. CASE e.version = cache[p]
      BY <1>2, <2>3, <3>1, <3>4 DEF Applied
    <3>5. CASE e.version # cache[p]
      <4>1. ~(\/ cache[p] = Missing \/ e.version = 0 \/ e.version >= cache[p])
        BY <3>1, <3>2, <3>5, CacheAssumption DEF Versions, Missing
      <4>2. Applied(cache, e) = cache
        BY <2>3, <3>1, <3>3, <4>1 DEF Applied
      <4> QED
        BY <1>2, <4>2
    <3> QED
      BY <3>4, <3>5
  <2> QED
    BY <2>1, <2>2, <2>3
<1>7. PaneList' = PaneList
  BY <1>1 DEF PaneList
<1> QED
  BY <1>1, <1>5, <1>6, <1>7 DEF Settled

\* A step that leaves a pane as it is in Herdr keeps what is settled of it, when
\* the pane carries revisions or has closed.
LEMMA StepKeepsSettled ==
  ASSUME TypeOK, CatchInv, [Next]_vars, NEW p \in Panes, Settled(p), server'[p] = server[p],
         p \notin Unrevised \/ server[p] = Closed
  PROVE  Settled(p)'
<1> USE CacheAssumption
<1>1. /\ server \in [Panes -> Versions \cup {Missing, Closed}] /\ stream \in Seq(Event)
      /\ fetched \in [Threads -> Views \cup {Nothing}]
  BY DEF TypeOK
<1>2. PaneList'[p] = PaneList[p]
  BY DEF PaneList
<1>3. ASSUME NEW q \in Panes, NEW version \in Versions \cup {Closed}, Changes(q, version),
             server[q] # version
      PROVE  Settled(p)'
  <2>1. q # p /\ UNCHANGED <<cache, fetched>>
    BY <1>1, <1>3 DEF Changes
  <2>2. ASSUME server[p] = Closed
        PROVE  \A i \in 1 .. Len(stream') : stream'[i].pane = p => stream'[i].version = Closed
    <3>1. CASE stream' = stream
      BY <2>2, <3>1 DEF Settled
    <3>2. CASE stream' = Append(stream, [pane |-> q, version |-> version])
      <4>1. /\ Len(stream) \in Nat /\ Len(stream') = Len(stream) + 1
            /\ stream'[Len(stream) + 1].pane = q
            /\ \A i \in 1 .. Len(stream) : stream'[i] = stream[i]
        BY <1>1, <3>2
      <4>2. \A i \in 1 .. Len(stream') : i \in 1 .. Len(stream) \/ i = Len(stream) + 1
        BY <4>1
      <4> QED
        BY <2>1, <2>2, <4>1, <4>2 DEF Settled
    <3> QED
      BY <1>3, <3>1, <3>2 DEF Changes
  <2> QED
    BY <1>2, <2>1, <2>2 DEF Settled
<1>4. ASSUME NEW q \in Panes, PaneOpens(q) \/ PaneUpdates(q) \/ PaneCloses(q)
      PROVE  Settled(p)'
  <2>1. CASE PaneOpens(q)
    BY <1>3, <2>1 DEF PaneOpens, Versions, Missing
  <2>2. CASE PaneUpdates(q)
    <3>1. server[q] + 1 \in Versions /\ server[q] # server[q] + 1
      BY <2>2 DEF PaneUpdates, Versions
    <3> QED
      BY <1>3, <2>2, <3>1 DEF PaneUpdates
  <2>3. CASE PaneCloses(q)
    <3>1. server[q] # Closed
      BY <2>3 DEF PaneCloses, Versions, Closed
    <3> QED
      BY <1>3, <2>3, <3>1 DEF PaneCloses
  <2> QED
    BY <1>4, <2>1, <2>2, <2>3
<1>5. CASE Subscribe \/ FetchFails \/ UNCHANGED vars
  BY <1>2, <1>5 DEF Subscribe, FetchFails, vars, Settled
<1>6. CASE Disconnect
  BY <1>2, <1>6 DEF Disconnect, Settled
<1>7. CASE ApplyEvent
  BY <1>7, ApplyKeepsSettled
<1>8. ASSUME NEW t \in Threads, Fetch(t) PROVE Settled(p)'
  BY <1>1, <1>2, <1>8 DEF Fetch, Settled
<1>9. ASSUME NEW t \in Threads, Replace(t) PROVE Settled(p)'
  BY <1>1, <1>2, <1>9 DEF Replace, Settled
<1> QED
  BY <1>4, <1>5, <1>6, <1>7, <1>8, <1>9 DEF Next

\* What the daemon holds of a pane with revisions, once it is as Herdr has it,
\* stays so until Herdr changes the pane (pane_cache.rs apply).
THEOREM NewsStays == Spec => SettledStays
<1>1. TypeOK /\ CatchInv /\ [Next]_vars =>
        [\A p \in Panes \ Unrevised :
           Settled(p) /\ server'[p] = server[p] => Settled(p)']_vars
  BY StepKeepsSettled
<1> QED
  BY <1>1, CacheTypeCorrect, AlwaysCatchInv, PTL DEF Spec, SettledStays

-----------------------------------------------------------------------------
\* The bindings above the cache.

\* Bindings change nothing below them: a behaviour of LiveBindings is one of
\* PaneCache.
LEMMA LiveCache == LiveSpec => Spec
<1>1. LiveInit => Init
  BY DEF LiveInit
<1>2. [LiveNext]_bvars => [Next]_vars
  BY DEF LiveNext, bvars, vars, Bind, Tick
<1> QED
  BY <1>1, <1>2, PTL DEF LiveSpec, Spec

\* Herdr does not reopen a pane that has closed.
LEMMA ClosedForGood ==
  ASSUME TypeOK, [Next]_vars, NEW p \in Panes, server[p] = Closed
  PROVE  server'[p] = Closed
<1>1. server \in [Panes -> Versions \cup {Missing, Closed}]
  BY DEF TypeOK
<1>2. ASSUME NEW q \in Panes, PaneOpens(q) \/ PaneUpdates(q) \/ PaneCloses(q)
      PROVE  server'[p] = Closed
  BY <1>1, <1>2 DEF PaneOpens, PaneUpdates, PaneCloses, Changes, Versions, Missing, Closed
<1> QED
  BY <1>2 DEF Next, Subscribe, Disconnect, ApplyEvent, FetchFails, Fetch, Replace, vars

\* The binding of a closed pane does not come back, once nothing the daemon holds
\* shows the pane open (core.rs reconcile).
THEOREM ForgottenForGood == LiveSpec => ForgottenStays
<1>1. TypeOK /\ CatchInv /\ [LiveNext]_bvars =>
        [\A p \in Panes : Forgotten(p) => Forgotten(p)']_bvars
  <2> SUFFICES ASSUME TypeOK, CatchInv, [LiveNext]_bvars, NEW p \in Panes, Forgotten(p)
               PROVE  Forgotten(p)'
    OBVIOUS
  <2>1. [Next]_vars
    BY DEF LiveNext, bvars, vars, Bind, Tick
  <2>2. server'[p] = Closed
    BY <2>1, ClosedForGood DEF Forgotten
  <2>3. Settled(p)'
    BY <2>1, <2>2, StepKeepsSettled DEF Forgotten
  <2>4. p \notin bound'
    <3>1. p \notin Cached
      BY DEF Cached, Forgotten, Settled, PaneList, Versions, Closed
    <3> QED
      BY <3>1 DEF LiveNext, Bind, Tick, Kept, Forgotten, bvars
  <2> QED
    BY <2>2, <2>3, <2>4 DEF Forgotten
<1>2. LiveSpec => []TypeOK
  BY LiveCache, CacheTypeCorrect, PTL
<1>3. LiveSpec => []CatchInv
  BY LiveCache, AlwaysCatchInv, PTL
<1> QED
  BY <1>1, <1>2, <1>3, PTL DEF LiveSpec, ForgottenStays
=============================================================================

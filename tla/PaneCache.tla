------------------------------ MODULE PaneCache ------------------------------
(***************************************************************************)
(* The live view of one Herdr session's panes (src/pane_cache.rs over the   *)
(* socket of src/herdr.rs).  Two threads fill it: the monitor applies the   *)
(* events of one subscription, and re-reads pane.list after a               *)
(* disconnection before it subscribes again; the other re-reads pane.list   *)
(* every five seconds.  A pane.list answer is in flight between being read  *)
(* by Herdr and replacing the cache: these are two steps.                   *)
(***************************************************************************)
EXTENDS Integers, Sequences

CONSTANTS Panes,      \* the pane ids of the session
          Unrevised,  \* those whose payloads carry no revision (it decodes as 0)
          MaxVersion, \* bound: how often a pane changes
          MaxStream,  \* bound: events in flight
          MaxDrops    \* bound: how often the event stream breaks

ASSUME CacheAssumption == /\ Unrevised \subseteq Panes
                          /\ MaxVersion \in Nat \ {0} /\ MaxStream \in Nat /\ MaxDrops \in Nat

Missing == 0    \* not open yet, or not in the view
Closed  == -1   \* closed for good: Herdr does not give an id twice
Versions == 1 .. MaxVersion
Views == [Panes -> Versions \cup {Missing}]
Nothing == [p \in {} |-> Missing]   \* no snapshot in flight

VARIABLES
  server,    \* Herdr: the version of each pane, Missing or Closed
  stream,    \* events sent to the monitor and not yet applied
  monitor,   \* what the monitor thread does: see TypeOK
  drops,     \* how often the stream broke
  fetched,   \* fetched[t]: the snapshot thread t holds, or Nothing
  cache      \* the cached panes, by version
vars == <<server, stream, monitor, drops, fetched, cache>>

Threads == {"monitor", "reconcile"}
Event == [pane : Panes, version : Versions \cup {Closed}]

TypeOK == /\ server \in [Panes -> Versions \cup {Missing, Closed}]
          /\ stream \in Seq(Event) /\ Len(stream) <= MaxStream
          /\ monitor \in {"subscribing", "streaming", "waiting"}
          /\ drops \in 0 .. MaxDrops
          /\ fetched \in [Threads -> Views \cup {Nothing}]
          /\ cache \in Views

\* What pane.list answers.
PaneList == [p \in Panes |-> IF server[p] \in Versions THEN server[p] ELSE Missing]

\* The cache is seeded from a complete snapshot; nothing is subscribed yet.
Init == /\ server \in [Panes -> {Missing, 1}]
        /\ stream = <<>> /\ monitor = "subscribing" /\ drops = 0
        /\ fetched = [t \in Threads |-> Nothing]
        /\ cache = PaneList

-----------------------------------------------------------------------------
\* Herdr opens, updates and closes panes, and tells its subscriber.
Changes(p, version) ==
  /\ server' = [server EXCEPT ![p] = version]
  /\ IF monitor = "streaming"
       THEN /\ Len(stream) < MaxStream
            /\ stream' = Append(stream, [pane |-> p, version |-> version])
       ELSE UNCHANGED stream
  /\ UNCHANGED <<monitor, drops, fetched, cache>>

PaneOpens(p)   == server[p] = Missing /\ Changes(p, 1)
PaneUpdates(p) == server[p] \in 1 .. MaxVersion - 1 /\ Changes(p, server[p] + 1)
PaneCloses(p)  == server[p] \in Versions /\ Changes(p, Closed)

\* The subscription starts: only later changes are sent.
Subscribe == /\ monitor = "subscribing"
             /\ monitor' = "streaming"
             /\ UNCHANGED <<server, stream, drops, fetched, cache>>

\* The stream ends, an event does not decode, or connecting fails: what was in
\* flight is lost, and the monitor sleeps for a second.
Disconnect == /\ monitor \in {"subscribing", "streaming"}
              /\ drops < MaxDrops
              /\ drops' = drops + 1
              /\ stream' = <<>>
              /\ monitor' = "waiting"
              /\ UNCHANGED <<server, fetched, cache>>

\* Mutant of Revision: every payload decodes as revision 0.
RevisionLost(p, version) == 0
\* The revision a payload shows.
Revision(p, version) == IF p \in Unrevised THEN 0 ELSE version

\* Mutant of Applied: a removal leaves an entry behind.
AppliedBlindly(view, e) == [view EXCEPT ![e.pane] = e.version]
\* Mutant of Applied: an event without a revision is not newer than any entry.
AppliedIfNewer(view, e) ==
  IF e.version = Closed THEN [view EXCEPT ![e.pane] = Missing]
  ELSE IF view[e.pane] = Missing \/ Revision(e.pane, e.version) > Revision(e.pane, view[e.pane])
       THEN [view EXCEPT ![e.pane] = e.version]
       ELSE view
\* A view after an event.
Applied(view, e) ==
  IF e.version = Closed THEN [view EXCEPT ![e.pane] = Missing]
  ELSE IF \/ view[e.pane] = Missing
          \/ Revision(e.pane, e.version) = 0
          \/ Revision(e.pane, e.version) >= Revision(e.pane, view[e.pane])
       THEN [view EXCEPT ![e.pane] = e.version]
       ELSE view

ApplyEvent == /\ stream # <<>>
              /\ cache' = Applied(cache, Head(stream))
              /\ stream' = Tail(stream)
              /\ UNCHANGED <<server, monitor, drops, fetched>>

\* Herdr answers a pane.list; the answer is on its way to thread t.
Fetch(t) == /\ fetched[t] = Nothing
            /\ t = "monitor" => monitor = "waiting"
            /\ fetched' = [fetched EXCEPT ![t] = PaneList]
            /\ UNCHANGED <<server, stream, monitor, drops, cache>>

\* A re-read that fails leaves the cache as it is; the monitor subscribes again.
FetchFails == /\ monitor = "waiting" /\ fetched["monitor"] = Nothing
              /\ monitor' = "subscribing"
              /\ UNCHANGED <<server, stream, drops, fetched, cache>>

\* Mutant of Replace: a snapshot only adds panes.
ReplaceMerging(t) ==
  /\ fetched[t] # Nothing
  /\ cache' = [p \in Panes |-> IF fetched[t][p] = Missing THEN cache[p] ELSE fetched[t][p]]
  /\ fetched' = [fetched EXCEPT ![t] = Nothing]
  /\ monitor' = IF t = "monitor" THEN "subscribing" ELSE monitor
  /\ UNCHANGED <<server, stream, drops>>

\* The snapshot replaces the cache, whatever was applied since it was read.
Replace(t) == /\ fetched[t] # Nothing
              /\ cache' = fetched[t]
              /\ fetched' = [fetched EXCEPT ![t] = Nothing]
              /\ monitor' = IF t = "monitor" THEN "subscribing" ELSE monitor
              /\ UNCHANGED <<server, stream, drops>>

Next == \/ \E p \in Panes : PaneOpens(p) \/ PaneUpdates(p) \/ PaneCloses(p)
        \/ Subscribe \/ Disconnect \/ ApplyEvent \/ FetchFails
        \/ \E t \in Threads : Fetch(t) \/ Replace(t)

\* The reconcile thread never stops and Herdr answers it; events in the stream
\* arrive.  Nothing obliges the monitor to get a subscription.
Fairness == /\ WF_vars(Fetch("reconcile")) /\ WF_vars(Replace("reconcile"))
            /\ WF_vars(Replace("monitor")) /\ WF_vars(ApplyEvent)

Spec == Init /\ [][Next]_vars /\ Fairness

-----------------------------------------------------------------------------
\* Properties.

\* The check of revisions never drops the news: when the last event in flight of
\* a pane has been applied, the cache shows the pane as Herdr has it, whatever
\* snapshots, stale or fresh, came among the events, also a pane whose payloads
\* carry no revision.  So between two snapshots only a stale snapshot or a broken
\* stream can leave the cache behind (pane_cache.rs apply).
LastEventCatchesUp ==
  [][ApplyEvent /\ (\A i \in 2 .. Len(stream) : stream[i].pane # stream[1].pane)
       => cache'[stream[1].pane] = PaneList[stream[1].pane]]_vars

\* The daemon holds nothing of pane p that Herdr does not say: the cache and the
\* answers in flight show it as Herdr has it, and if it has closed no event in
\* flight says otherwise.
Settled(p) ==
  /\ cache[p] = PaneList[p]
  /\ \A t \in Threads : fetched[t] # Nothing => fetched[t][p] = PaneList[p]
  /\ server[p] = Closed =>
       \A i \in 1 .. Len(stream) : stream[i].pane = p => stream[i].version = Closed

\* A pane with revisions that the cache shows as Herdr has it stays so until Herdr
\* changes it, whichever of its older events are still in flight, and whatever is
\* read, lost or subscribed meanwhile (pane_cache.rs apply).
SettledStays ==
  [][\A p \in Panes \ Unrevised :
       Settled(p) /\ server'[p] = server[p] => Settled(p)']_vars

\* Once Herdr's panes stop changing (every pane is changed a bounded number of
\* times) the cache becomes and stays what pane.list answers, whatever events
\* were lost, whichever stale snapshot came last (pane_cache.rs: the periodic
\* reconciliation "is the correctness backstop").
CacheConverges == <>[](cache = PaneList)
=============================================================================

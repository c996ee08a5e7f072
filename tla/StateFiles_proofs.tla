-------------------------- MODULE StateFiles_proofs --------------------------
(***************************************************************************)
(* What StateFiles promises, for any number of panes, sessions, commands    *)
(* and deaths.  A process that is about to save holds what its save needs:  *)
(* of bindings.json everything acknowledged (but for binds that raced a     *)
(* preview), of surfaces.json its session's change and the file's records of *)
(* the others (but for sessions whose commands mixed).                       *)
(***************************************************************************)
EXTENDS StateFiles, TLAPS

\* The steps of a process that holds the panes or the reconciled ledger, and
\* those of a daemon that holds a changed ledger.
Holding == {"load", "write", "rename"}
Rewriting == {"writeChange", "renameChange"}

\* Who is asked for what.
AskedFor ==
  /\ ask[Daemon] \in Requests \cup {Status}
  /\ \A x \in Commands : ask[x].file = "bindings" => ask[x] = Status

\* Only temporary files are ever half-written.
OnlyTemporary == half \subseteq Procs /\ ~torn

\* What was acknowledged is seen by whoever reads the panes, is not being
\* released, and is in whatever a ledger will be saved from.
Preserved ==
  /\ kept \subseteq live \cap cache
  /\ pc[Daemon] # "ready" => kept \cap ask[Daemon].release = {}
  /\ kept \ raced \subseteq ledger
  /\ \A x \in Procs : pc[x] \in Holding /\ ask[x].file = "bindings" =>
       kept \ raced \subseteq copy[x]
  /\ pc[Daemon] \in Rewriting => (kept \ raced) \cup ask[Daemon].bind \subseteq copy[Daemon]

\* The handles that records have for session s.
HandlesOf(state, s) == {r.handle : r \in {q \in state : q.session = s}}

\* The records are what was adopted, and who will save has its own change and the
\* file's records of the other sessions.
Recording ==
  /\ \A s \in Sessions \ mixed : HandlesOf(surfaces, s) = {adopted[s]} \ {NoHandle}
  /\ \A x \in Recorders :
       /\ HandlesOf(records[x], ask[x].session) = {ask[x].handle} \ {NoHandle}
       /\ \A t \in Sessions \ mixed : t # ask[x].session =>
            HandlesOf(records[x], t) = HandlesOf(surfaces, t)

IInv == TypeOK /\ AskedFor /\ OnlyTemporary /\ Preserved /\ Recording

-----------------------------------------------------------------------------
\* The state of the files and of the processes stays well-typed.
THEOREM StateFilesTypeCorrect == Spec => []TypeOK
<1>1. Init => TypeOK
  <2> SUFFICES ASSUME Init PROVE TypeOK
    OBVIOUS
  <2> USE DEF Init
  <2>1. /\ fresh \subseteq Panes /\ live \subseteq Panes \ fresh /\ cache \subseteq Panes \ fresh
        /\ shown \subseteq Handles /\ ledger \subseteq Panes
    OBVIOUS
  <2>2. surfaces \subseteq SurfaceRecord /\ half \subseteq Files \cup Procs
    OBVIOUS
  <2>3. pc \in [Procs -> Steps]
    BY DEF Steps
  <2>4. ask \in [Procs -> Asks]
    BY DEF Asks, Status
  <2>5. copy \in [Procs -> SUBSET Panes] /\ records \in [Procs -> SUBSET SurfaceRecord]
    OBVIOUS
  <2>6. kept \subseteq Panes /\ adopted \in [Sessions -> Handles \cup {NoHandle}]
    OBVIOUS
  <2>7. torn \in BOOLEAN /\ raced \subseteq Panes /\ mixed \subseteq Sessions
    BY Zenon
  <2> QED
    BY <2>1, <2>2, <2>3, <2>4, <2>5, <2>6, <2>7 DEF TypeOK
<1>2. TypeOK /\ [Next]_vars => TypeOK'
  <2> SUFFICES ASSUME TypeOK, [Next]_vars PROVE TypeOK'
    OBVIOUS
  <2> USE DEF TypeOK, World, Disk, Memory, History, Counts
  <2>1. Daemon \in Procs /\ Commands \subseteq Procs /\ Status \in Asks
    BY DEF Procs, Asks, Status
  <2>2. ASSUME NEW x \in Procs, NEW what \in Asks, Begin(x, what), kept' \subseteq kept
        PROVE  TypeOK'
    BY <2>2 DEF Begin, Steps
  <2>3. ASSUME NEW r \in Requests, Request(r) PROVE TypeOK'
    <3>1. r \in Asks
      BY <2>3 DEF Requests, Asks
    <3> QED
      BY <2>1, <2>2, <2>3, <3>1 DEF Request
  <2>4. CASE Tick
    BY <2>1, <2>2, <2>4 DEF Tick
  <2>5. ASSUME NEW x \in Commands, CommandRuns(x) PROVE TypeOK'
    <3>1. \E what \in Asks : Command(x, what)
      BY <2>1, <2>5 DEF CommandRuns, Preview, Adopt, Forget, Asks
    <3> QED
      BY <2>1, <2>2, <3>1 DEF Command
  <2>6. ASSUME NEW x \in Procs, Load(x) PROVE TypeOK'
    <3>1. ASSUME LoadBindings(x) PROVE TypeOK'
      BY <2>6, <3>1 DEF Load, LoadBindings, GoTo, Steps
    <3>2. ASSUME LoadSurfaces(x) PROVE TypeOK'
      <4> DEFINE changed == Recorded(surfaces, ask[x].session, ask[x].handle)
      <4>1. changed \subseteq SurfaceRecord
        BY <3>2 DEF LoadSurfaces, Recorded, SurfaceRecord, Asks
      <4>2. CASE Done(x) /\ ask[x].file = "surfaces"
        BY <2>1, <2>6, <4>2 DEF Load, Done, Steps
      <4>3. CASE records' = [records EXCEPT ![x] = changed] /\ GoTo(x, "write") /\ UNCHANGED copy
        BY <2>6, <4>1, <4>3 DEF Load, GoTo, Steps
      <4> QED
        BY <3>2, <4>2, <4>3 DEF LoadSurfaces
    <3> QED
      BY <2>6, <3>1, <3>2 DEF Load
  <2>7. ASSUME NEW x \in Procs, WriteSome(x) \/ Write(x) PROVE TypeOK'
    BY <2>7 DEF WriteSome, Write, Target, GoTo, Steps
  <2>8. ASSUME NEW x \in Procs, Acknowledge(x), ledger' \subseteq Panes,
               UNCHANGED <<World, surfaces, half, adopted, torn, mixed>>
        PROVE  TypeOK'
    BY <2>1, <2>8 DEF Acknowledge, Done, Steps, Asks
  <2>9. ASSUME NEW x \in Procs, Rename(x) PROVE TypeOK'
    <3> DEFINE changed == (copy[x] \cup ask[x].bind) \ ask[x].release
    <3>1. changed \subseteq Panes /\ copy[x] \subseteq Panes
      BY <2>9 DEF Rename, Asks
    <3>2. CASE Acknowledge(x)
      BY <2>8, <2>9, <3>1, <3>2 DEF Rename
    <3>3. CASE /\ copy' = [copy EXCEPT ![x] = changed] /\ GoTo(x, "writeChange")
               /\ UNCHANGED <<records, kept, raced>>
      BY <2>9, <3>1, <3>3 DEF Rename, GoTo, Steps
    <3> QED
      BY <2>9, <3>2, <3>3 DEF Rename
  <2>10. CASE RenameChange(Daemon)
    BY <2>1, <2>8, <2>10 DEF RenameChange
  <2>11. ASSUME NEW x \in Procs, RenameSurfaces(x) PROVE TypeOK'
    <3>1. ask[x].session \in Sessions /\ ask[x].handle \in Handles \cup {NoHandle}
      BY <2>11 DEF RenameSurfaces, Asks
    <3> QED
      BY <2>1, <2>11, <3>1 DEF RenameSurfaces, Done, Steps
  <2>12. ASSUME NEW x \in Procs, Crash(x) PROVE TypeOK'
    BY <2>1, <2>12 DEF Crash, Done, Steps
  <2>13. ASSUME NEW p \in Panes, PaneCloses(p) PROVE TypeOK'
    BY <2>13 DEF PaneCloses, Changing
  <2>14. ASSUME NEW h \in Handles, SurfaceCloses(h) PROVE TypeOK'
    BY <2>14 DEF SurfaceCloses, Changing
  <2>16. ASSUME NEW x \in Procs, Read(x) PROVE TypeOK'
    <3>1. CASE copy' = [copy EXCEPT ![x] = Seen(x)] /\ GoTo(x, "load") /\ UNCHANGED records
      BY <2>16, <3>1 DEF Read, Seen, GoTo, Steps
    <3>2. CASE Done(x)
      BY <2>1, <2>16, <3>2 DEF Read, Done, Steps
    <3> QED
      BY <2>16, <3>1, <3>2 DEF Read
  <2>17. ASSUME NEW p \in Panes, PaneOpens(p) PROVE TypeOK'
    BY <2>17 DEF PaneOpens, Changing
  <2>18. ASSUME NEW view \in SUBSET (Panes \ fresh), CacheShows(view) PROVE TypeOK'
    BY <2>18 DEF CacheShows, Changing
  <2>15. CASE UNCHANGED vars
    BY <2>15 DEF vars
  <2> QED
    BY <2>3, <2>4, <2>5, <2>6, <2>7, <2>9, <2>10, <2>11, <2>12, <2>13, <2>14, <2>15, <2>16, <2>17, <2>18
    DEF Next, Saves
<1> QED
  BY <1>1, <1>2, PTL DEF Spec

\* The daemon works on bindings.json only, and a command changes no binding.
LEMMA AskedForStays == ASSUME TypeOK, AskedFor, [Next]_vars PROVE AskedFor'
<1> USE StateFilesAssumption DEF TypeOK, AskedFor, World, Disk, Memory, History, Counts
<1>1. Daemon \in Procs /\ Commands \subseteq Procs /\ Daemon \notin Commands
  BY DEF Procs
<1>2. ASSUME NEW x \in Procs, Done(x) PROVE AskedFor'
  BY <1>1, <1>2 DEF Done
<1>3. ASSUME UNCHANGED ask PROVE AskedFor'
  BY <1>3 DEF Requests
<1>4. ASSUME NEW r \in Requests \cup {Status}, Begin(Daemon, r) PROVE AskedFor'
  BY <1>1, <1>4 DEF Begin, Requests, Status
<1>5. ASSUME NEW x \in Commands, CommandRuns(x) PROVE AskedFor'
  BY <1>1, <1>5 DEF CommandRuns, Preview, Adopt, Forget, Command, Begin, Requests
<1>6. ASSUME NEW x \in Procs, Load(x) PROVE AskedFor'
  BY <1>2, <1>3, <1>6 DEF Load, LoadBindings, LoadSurfaces, GoTo
<1>7. ASSUME NEW x \in Procs, WriteSome(x) \/ Write(x) PROVE AskedFor'
  BY <1>3, <1>7 DEF WriteSome, Write, GoTo
<1>8. ASSUME NEW x \in Procs, Rename(x) \/ RenameChange(x) \/ RenameSurfaces(x) \/ Crash(x)
      PROVE  AskedFor'
  BY <1>2, <1>3, <1>8 DEF Rename, RenameChange, RenameSurfaces, Crash, Acknowledge, GoTo
<1>9. ASSUME NEW p \in Panes, PaneCloses(p) PROVE AskedFor'
  BY <1>3, <1>9 DEF PaneCloses, Changing
<1>10. ASSUME NEW h \in Handles, SurfaceCloses(h) PROVE AskedFor'
  BY <1>3, <1>10 DEF SurfaceCloses, Changing
<1>12. ASSUME NEW x \in Procs, Read(x) PROVE AskedFor'
  BY <1>2, <1>3, <1>12 DEF Read, GoTo
<1>13. ASSUME NEW p \in Panes, PaneOpens(p) PROVE AskedFor'
  BY <1>3, <1>13 DEF PaneOpens, Changing
<1>14. ASSUME NEW view, CacheShows(view) PROVE AskedFor'
  BY <1>3, <1>14 DEF CacheShows, Changing
<1>11. CASE UNCHANGED vars
  BY <1>3, <1>11 DEF vars
<1> QED
  BY <1>1, <1>4, <1>5, <1>6, <1>7, <1>8, <1>9, <1>10, <1>11, <1>12, <1>13,
     <1>14
  DEF Next, Saves, Request, Tick

\* A save writes its own temporary file only.
LEMMA OnlyTemporaryStays == ASSUME TypeOK, OnlyTemporary, [Next]_vars PROVE OnlyTemporary'
<1> USE TemporaryAssumption DEF OnlyTemporary, World, Disk, Memory, History, Counts
<1>1. ASSUME NEW x \in Procs, NEW what, Begin(x, what) \/ Read(x) PROVE OnlyTemporary'
  BY <1>1 DEF Begin, Read
<1>2. ASSUME NEW x \in Procs, Load(x) PROVE OnlyTemporary'
  <2>1. ask[x].file \in Files
    BY <1>2 DEF TypeOK, Asks, Files
  <2> QED
    BY <1>2, <2>1 DEF Load
<1>3. ASSUME NEW x \in Procs, WriteSome(x) \/ Write(x) PROVE OnlyTemporary'
  BY <1>3 DEF WriteSome, Write, Target
<1>4. ASSUME NEW x \in Procs, Rename(x) \/ RenameChange(x) \/ RenameSurfaces(x) \/ Crash(x)
      PROVE  OnlyTemporary'
  BY <1>4 DEF Rename, RenameChange, RenameSurfaces, Crash, Acknowledge
<1>5. ASSUME Changing PROVE OnlyTemporary'
  BY <1>5 DEF Changing
<1>6. CASE UNCHANGED vars
  BY <1>6 DEF vars
<1> QED
  BY <1>1, <1>2, <1>3, <1>4, <1>5, <1>6
  DEF Next, Saves, Request, Tick, CommandRuns, Preview, Adopt, Forget, Command, Procs,
      PaneOpens, PaneCloses, CacheShows, SurfaceCloses

\* Nobody loads half a state file, whoever writes and dies.
THEOREM StateFilesAreWhole == Spec => []LoadsAreWhole
<1>1. Init => OnlyTemporary
  BY DEF Init, OnlyTemporary
<1>2. OnlyTemporary => LoadsAreWhole
  BY TemporaryAssumption DEF OnlyTemporary, LoadsAreWhole
<1> QED
  BY <1>1, <1>2, OnlyTemporaryStays, StateFilesTypeCorrect, PTL DEF Spec

\* Whatever is acknowledged is in every ledger still to be saved: a daemon's copy
\* has its bind and what was acknowledged before, and a preview's has what its
\* panes and its ledger were not too old for.
LEMMA PreservedStays ==
  ASSUME TypeOK, AskedFor, Preserved, [Next]_vars PROVE Preserved'
<1> USE StateFilesAssumption DEF TypeOK, Preserved, Holding, Rewriting, World, Disk, Memory,
                                 History, Counts
<1>1. Daemon \in Procs /\ Commands \subseteq Procs /\ Daemon \notin Commands
  BY DEF Procs
<1>2. ASSUME NEW r \in Requests, Request(r) PROVE Preserved'
  BY <1>1, <1>2 DEF Request, Begin
<1>3. CASE Tick
  BY <1>1, <1>3 DEF Tick, Begin, Status
<1>4. ASSUME NEW x \in Commands, NEW what, what.file \in Files, Command(x, what)
      PROVE  Preserved'
  <2>1. pc'[x] = "load" => ask'[x].file # "bindings"
    BY <1>1, <1>4 DEF Command, Begin, Files
  <2> QED
    BY <1>1, <1>4, <2>1 DEF Command, Begin
<1>5. ASSUME NEW x \in Procs, Read(x) PROVE Preserved'
  <2>1. CASE copy' = [copy EXCEPT ![x] = Seen(x)] /\ GoTo(x, "load")
    BY <1>1, <1>5, <2>1 DEF Read, Seen, GoTo
  <2>2. CASE Done(x)
    BY <1>1, <1>5, <2>2 DEF Read, Done
  <2> QED
    BY <1>5, <2>1, <2>2 DEF Read
<1>6. ASSUME NEW x \in Procs, Load(x) PROVE Preserved'
  <2>1. CASE LoadBindings(x)
    BY <1>1, <1>6, <2>1 DEF Load, LoadBindings, GoTo
  <2>2. CASE LoadSurfaces(x)
    <3>1. x # Daemon
      BY <2>2 DEF LoadSurfaces, AskedFor, Requests, Status
    <3>2. CASE Done(x)
      BY <1>1, <1>6, <3>1, <3>2 DEF Load, Done
    <3>3. CASE GoTo(x, "write") /\ UNCHANGED copy
      BY <1>1, <1>6, <2>2, <3>1, <3>3 DEF Load, LoadSurfaces, GoTo
    <3> QED
      BY <2>2, <3>2, <3>3 DEF LoadSurfaces
  <2> QED
    BY <1>6, <2>1, <2>2 DEF Load
<1>7. ASSUME NEW x \in Procs, WriteSome(x) \/ Write(x) PROVE Preserved'
  BY <1>1, <1>7 DEF WriteSome, Write, GoTo
<1>8. ASSUME NEW x \in Procs, Acknowledge(x), ledger' = copy[x], UNCHANGED World,
             x # Daemon => ask[x] = Status,
             (kept \ raced) \cup (ask[x].bind \cap live) \subseteq copy[x]
      PROVE  Preserved'
  <2>1. kept' \subseteq live' \cap cache'
    BY <1>8 DEF Acknowledge
  <2>2. pc'[Daemon] # "ready" => x # Daemon /\ pc'[Daemon] = pc[Daemon]
                                 /\ ask'[Daemon] = ask[Daemon] /\ copy'[Daemon] = copy[Daemon]
    BY <1>1, <1>8 DEF Acknowledge, Done
  <2>3. x # Daemon => kept' = kept /\ raced' = raced
    BY <1>8 DEF Acknowledge, Status
  <2>4. \A p \in kept' \ raced' : p \in kept \ raced \/ p \in ask[x].bind \cap live
    BY <1>8 DEF Acknowledge
  <2>5. ASSUME NEW y \in Procs, pc'[y] \in Holding, ask'[y].file = "bindings"
        PROVE  kept' \ raced' \subseteq copy'[y]
    <3>1. y # x /\ pc'[y] = pc[y] /\ ask'[y] = ask[y] /\ copy'[y] = copy[y]
      BY <1>8, <2>5 DEF Acknowledge, Done
    <3>2. CASE x = Daemon
      <4> SUFFICES ASSUME NEW p \in kept' \ raced' PROVE p \in copy[y]
        BY <3>1
      <4>1. CASE p \in ask[x].bind
        <5>1. Outdated(p) = {}
          BY <1>8, <2>1, <4>1 DEF Acknowledge
        <5>2. y \in Commands
          BY <3>1, <3>2 DEF Procs
        <5> QED
          BY <2>5, <3>1, <5>1, <5>2 DEF Outdated
      <4>2. CASE p \notin ask[x].bind
        BY <2>4, <2>5, <3>1, <4>2
      <4> QED
        BY <4>1, <4>2
    <3>3. CASE x # Daemon
      BY <2>3, <2>5, <3>1, <3>3
    <3> QED
      BY <3>2, <3>3
  <2>6. kept' \ raced' \subseteq ledger'
    BY <1>8, <2>4
  <2>7. pc'[Daemon] \in Rewriting =>
          (kept' \ raced') \cup ask'[Daemon].bind \subseteq copy'[Daemon]
    BY <2>2, <2>3
  <2>8. pc'[Daemon] # "ready" => kept' \cap ask'[Daemon].release = {}
    BY <2>2, <2>3
  <2> QED
    BY <2>1, <2>5, <2>6, <2>7, <2>8
<1>9. ASSUME NEW x \in Procs, Rename(x) PROVE Preserved'
  <2> DEFINE changed == (copy[x] \cup ask[x].bind) \ ask[x].release
  <2>1. pc[x] = "rename" /\ ask[x].file = "bindings" /\ ledger' = copy[x] /\ UNCHANGED World
    BY <1>9 DEF Rename
  <2>2. x # Daemon => ask[x] = Status
    BY <2>1 DEF AskedFor, Procs
  <2>3. ask[x].bind \cap ask[x].release = {}
    BY <2>2 DEF AskedFor, Requests, Status
  <2>4. CASE changed # copy[x]
    <3>1. x = Daemon
      BY <2>2, <2>4 DEF Status
    <3>2. /\ copy' = [copy EXCEPT ![x] = changed] /\ pc' = [pc EXCEPT ![x] = "writeChange"]
          /\ UNCHANGED <<ask, kept, raced>>
      BY <1>9, <2>4 DEF Rename, GoTo
    <3> QED
      BY <1>1, <2>1, <2>3, <3>1, <3>2
  <2>5. CASE Acknowledge(x) /\ changed = copy[x]
    <3>1. (kept \ raced) \cup (ask[x].bind \cap live) \subseteq copy[x]
      BY <2>1, <2>3, <2>5
    <3> QED
      BY <1>8, <2>1, <2>2, <2>5, <3>1
  <2> QED
    BY <1>9, <2>4, <2>5 DEF Rename
<1>10. CASE RenameChange(Daemon)
  BY <1>1, <1>8, <1>10 DEF RenameChange
<1>11. ASSUME NEW x \in Procs, RenameSurfaces(x) \/ Crash(x) PROVE Preserved'
  BY <1>1, <1>11 DEF RenameSurfaces, Crash, Done
<1>12. ASSUME Changing, kept' \subseteq kept \cap live' \cap cache' PROVE Preserved'
  BY <1>12 DEF Changing
<1>13. ASSUME NEW p \in Panes, PaneOpens(p) \/ PaneCloses(p) PROVE Preserved'
  BY <1>12, <1>13 DEF PaneOpens, PaneCloses
<1>14. ASSUME NEW view, CacheShows(view) PROVE Preserved'
  BY <1>12, <1>14 DEF CacheShows
<1>15. ASSUME NEW h \in Handles, SurfaceCloses(h) PROVE Preserved'
  BY <1>12, <1>15 DEF SurfaceCloses
<1>16. CASE UNCHANGED vars
  BY <1>16 DEF vars
<1>17. ASSUME NEW x \in Commands, CommandRuns(x) PROVE Preserved'
  <2>1. ASSUME NEW s, NEW h PROVE [file |-> "surfaces", session |-> s, handle |-> h].file \in Files
    BY DEF Files
  <2>2. Status.file \in Files
    BY DEF Status, Files
  <2>3. PICK what : what.file \in Files /\ Command(x, what)
    BY <1>17, <2>1, <2>2, Zenon DEF CommandRuns, Preview, Adopt, Forget
  <2> QED
    BY <1>4, <2>3
<1> QED
  BY <1>2, <1>3, <1>5, <1>6, <1>7, <1>9, <1>10, <1>11, <1>13, <1>14, <1>15, <1>16, <1>17
  DEF Next, Saves

\* An acknowledged bind stays in the ledger, until a cause takes it away, unless a
\* preview held older panes or an older ledger when it was acknowledged: in any
\* other order of reading panes, loading and saving, whatever opens, closes or is
\* missed by the cache meanwhile.
THEOREM AcknowledgedKeptUnlessRaced == Spec => []KeptUnlessRaced
<1>1. Init => AskedFor /\ Preserved
  BY StateFilesAssumption DEF Init, AskedFor, Preserved, Holding, Rewriting, Procs, Requests, Status
<1>2. Preserved => KeptUnlessRaced
  BY DEF Preserved, KeptUnlessRaced
<1> QED
  BY <1>1, <1>2, AskedForStays, PreservedStays, StateFilesTypeCorrect, PTL DEF Spec

\* Recording h for session s leaves the other sessions' records alone.
LEMMA RecordedHandles ==
  ASSUME NEW state, NEW s, NEW h, NEW t
  PROVE  /\ t = s => HandlesOf(Recorded(state, s, h), t) = {h} \ {NoHandle}
         /\ t # s => HandlesOf(Recorded(state, s, h), t) = HandlesOf(state, t)
<1> DEFINE new == [session |-> s, handle |-> h]
<1>1. CASE t = s /\ h = NoHandle
  <2>1. {q \in Recorded(state, s, h) : q.session = t} = {}
    BY <1>1 DEF Recorded
  <2> QED
    BY <1>1, <2>1 DEF HandlesOf
<1>2. CASE t = s /\ h # NoHandle
  <2>1. {q \in Recorded(state, s, h) : q.session = t} = {new}
    BY <1>2 DEF Recorded
  <2>2. new.handle = h
    OBVIOUS
  <2> QED
    BY <1>2, <2>1, <2>2 DEF HandlesOf
<1>3. CASE t # s
  <2>1. {q \in Recorded(state, s, h) : q.session = t} = {q \in state : q.session = t}
    BY <1>3 DEF Recorded
  <2> QED
    BY <1>3, <2>1 DEF HandlesOf
<1> QED
  BY <1>1, <1>2, <1>3

\* Who saves the records holds its own change and, of the sessions that are not
\* mixed, what the file has.
LEMMA RecordingStays ==
  ASSUME TypeOK, AskedFor, Recording, [Next]_vars PROVE Recording'
<1> USE StateFilesAssumption DEF TypeOK, Recording, World, Disk, Memory, History, Counts
<1>1. Daemon \in Procs /\ Commands \subseteq Procs /\ Daemon \notin Commands
  BY DEF Procs
<1>2. ASSUME UNCHANGED <<surfaces, adopted, mixed>>,
             \A x \in Recorders' :
               \/ x \in Recorders /\ ask'[x] = ask[x] /\ records'[x] = records[x]
               \/ records'[x] = Recorded(surfaces, ask'[x].session, ask'[x].handle)
      PROVE  Recording'
  <2> SUFFICES ASSUME NEW x \in Recorders'
               PROVE  /\ HandlesOf(records'[x], ask'[x].session) = {ask'[x].handle} \ {NoHandle}
                      /\ \A t \in Sessions \ mixed : t # ask'[x].session =>
                           HandlesOf(records'[x], t) = HandlesOf(surfaces, t)
    BY <1>2 DEF HandlesOf
  <2>1. CASE x \in Recorders /\ ask'[x] = ask[x] /\ records'[x] = records[x]
    BY <2>1, Zenon
  <2>2. CASE records'[x] = Recorded(surfaces, ask'[x].session, ask'[x].handle)
    <3> DEFINE s == ask'[x].session
               h == ask'[x].handle
    <3>1. HandlesOf(Recorded(surfaces, s, h), s) = {h} \ {NoHandle}
      BY RecordedHandles
    <3>2. ASSUME NEW t, t # s PROVE HandlesOf(Recorded(surfaces, s, h), t) = HandlesOf(surfaces, t)
      BY <3>2, RecordedHandles
    <3> QED
      BY <2>2, <3>1, <3>2, Zenon
  <2> QED
    BY <1>2, <2>1, <2>2
<1>3. ASSUME NEW x \in Procs, NEW what, Begin(x, what) PROVE Recording'
  BY <1>1, <1>2, <1>3 DEF Begin, Recorders
<1>4. ASSUME NEW x \in Procs, Read(x) PROVE Recording'
  BY <1>1, <1>2, <1>4 DEF Read, GoTo, Done, Recorders
<1>5. ASSUME NEW x \in Procs, Load(x) PROVE Recording'
  <2>1. CASE LoadBindings(x)
    BY <1>1, <1>2, <1>5, <2>1 DEF Load, LoadBindings, GoTo, Recorders
  <2>2. CASE LoadSurfaces(x)
    <3> DEFINE changed == Recorded(surfaces, ask[x].session, ask[x].handle)
    <3>1. CASE Done(x)
      BY <1>1, <1>2, <1>5, <3>1 DEF Load, Done, Recorders
    <3>2. CASE records' = [records EXCEPT ![x] = changed] /\ GoTo(x, "write")
      BY <1>1, <1>2, <1>5, <3>2 DEF Load, GoTo, Recorders
    <3> QED
      BY <2>2, <3>1, <3>2 DEF LoadSurfaces
  <2> QED
    BY <1>5, <2>1, <2>2 DEF Load
<1>6. ASSUME NEW x \in Procs, WriteSome(x) \/ Write(x) PROVE Recording'
  BY <1>1, <1>2, <1>6 DEF WriteSome, Write, GoTo, Recorders
<1>7. ASSUME NEW x \in Procs, Rename(x) \/ RenameChange(x) \/ Crash(x) PROVE Recording'
  BY <1>1, <1>2, <1>7 DEF Rename, RenameChange, Crash, Acknowledge, Done, GoTo, Recorders
<1>8. ASSUME NEW x \in Procs, RenameSurfaces(x) PROVE Recording'
  <2> DEFINE s == ask[x].session
             h == ask[x].handle
  <2>1. x \in Recorders /\ s \in Sessions
    <3>1. x # Daemon /\ s \in Sessions
      BY <1>8 DEF RenameSurfaces, AskedFor, Requests, Status, Asks
    <3> QED
      BY <1>8, <3>1 DEF RenameSurfaces, Recorders, Procs
  <2>2. /\ surfaces' = records[x] /\ adopted' = [adopted EXCEPT ![s] = h]
        /\ mixed \ {s} \subseteq mixed' /\ (Recorders # {x} => s \in mixed')
    BY <1>8 DEF RenameSurfaces
  <2>3. \A t \in Sessions \ mixed' : t # s =>
          t \notin mixed /\ adopted'[t] = adopted[t]
            /\ HandlesOf(surfaces', t) = HandlesOf(surfaces, t)
    BY <2>1, <2>2
  <2>4. ASSUME NEW t \in Sessions \ mixed'
        PROVE  HandlesOf(surfaces', t) = {adopted'[t]} \ {NoHandle}
    <3>1. CASE t = s
      BY <2>1, <2>2, <3>1
    <3>2. CASE t # s
      <4>1. HandlesOf(surfaces, t) = {adopted[t]} \ {NoHandle}
        BY <2>3, <3>2
      <4> QED
        BY <2>3, <3>2, <4>1, Zenon
    <3> QED
      BY <3>1, <3>2
  <2>5. ASSUME NEW y \in Recorders'
        PROVE  /\ HandlesOf(records'[y], ask'[y].session) = {ask'[y].handle} \ {NoHandle}
               /\ \A t \in Sessions \ mixed' : t # ask'[y].session =>
                    HandlesOf(records'[y], t) = HandlesOf(surfaces', t)
    <3>1. y # x /\ y \in Recorders /\ ask'[y] = ask[y] /\ records'[y] = records[y]
      BY <1>1, <1>8 DEF RenameSurfaces, Done, Recorders
    <3>2. s \in mixed'
      BY <2>2, <3>1
    <3>3. ASSUME NEW t \in Sessions \ mixed', t # ask[y].session
          PROVE  HandlesOf(records[y], t) = HandlesOf(surfaces', t)
      <4>1. t # s /\ t \notin mixed /\ HandlesOf(surfaces', t) = HandlesOf(surfaces, t)
        BY <2>3, <3>2
      <4>2. HandlesOf(records[y], t) = HandlesOf(surfaces, t)
        BY <3>1, <3>3, <4>1
      <4> QED
        BY <4>1, <4>2, Zenon
    <3>4. HandlesOf(records[y], ask[y].session) = {ask[y].handle} \ {NoHandle}
      BY <3>1
    <3> QED
      BY <3>1, <3>3, <3>4, Zenon
  <2> QED
    BY <2>4, <2>5
<1>9. ASSUME Changing PROVE Recording'
  BY <1>2, <1>9 DEF Changing, Recorders
<1>10. CASE UNCHANGED vars
  BY <1>2, <1>10 DEF vars, Recorders
<1> QED
  BY <1>1, <1>3, <1>4, <1>5, <1>6, <1>7, <1>8, <1>9, <1>10
  DEF Next, Saves, Request, Tick, CommandRuns, Preview, Adopt, Forget, Command,
      PaneOpens, PaneCloses, CacheShows, SurfaceCloses

\* Navigation raises for a session what the last command about it adopted,
\* whatever commands overlap and die, unless that command was done while another
\* held what it had loaded before.
THEOREM NavigationRaisesWhatWasAdopted == Spec => []RaisesWhatWasAdopted
<1>1. Init => AskedFor /\ Recording
  BY StateFilesAssumption DEF Init, AskedFor, Recording, Recorders, HandlesOf, Procs, Requests, Status
<1>2. TypeOK /\ Recording => RaisesWhatWasAdopted
  <2> SUFFICES ASSUME TypeOK, Recording, NEW s \in Sessions \ mixed
               PROVE  RaisedFor(s) = {adopted[s]} \cap shown
    BY DEF RaisesWhatWasAdopted
  <2>1. HandlesOf(surfaces, s) = {adopted[s]} \ {NoHandle}
    BY DEF Recording
  <2>2. NoHandle \notin shown
    BY StateFilesAssumption DEF TypeOK
  <2>3. RaisedFor(s) = HandlesOf(surfaces, s) \cap shown
    BY Zenon DEF RaisedFor, HandlesOf
  <2> QED
    BY <2>1, <2>2, <2>3
<1> QED
  BY <1>1, <1>2, AskedForStays, RecordingStays, StateFilesTypeCorrect, PTL DEF Spec
=============================================================================

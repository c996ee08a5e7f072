----------------------------- MODULE StateFiles -----------------------------
(***************************************************************************)
(* The files of the state directory and the processes that use them         *)
(* (src/state.rs, src/terminal.rs, src/core.rs, src/main.rs).  The daemon    *)
(* serves bind and release requests on bindings.json; `beckon preview` runs  *)
(* the same status operation on it in a process of its own; `beckon adopt`   *)
(* and `beckon forget` change surfaces.json, which the daemon reads when a   *)
(* key is pressed.  All load, change and save without a lock.  Who reconciles *)
(* bindings.json reads the panes first, the daemon from its cache and preview *)
(* from Herdr, and loads the ledger afterwards.  A save writes a temporary    *)
(* sibling named after the process and renames it over the file.              *)
(* One Herdr session's bindings; a binding is the pane it binds.  A terminal *)
(* backend is configured; a handle is given to one surface only.             *)
(***************************************************************************)
EXTENDS Integers

CONSTANTS Panes,       \* pane references
          Sessions,    \* session names, as given to adopt and forget
          Handles,     \* terminal surfaces
          NoHandle,    \* nothing adopted
          Daemon,      \* the daemon's process
          Commands,    \* processes of `beckon` commands
          MaxCommands, \* bound: how many commands are run
          MaxRequests, \* bound: bind and release requests
          MaxChanges,  \* bound: panes, views of them and surfaces that come or go
          MaxCrashes   \* bound: processes that die

ASSUME StateFilesAssumption ==
  /\ NoHandle \notin Handles /\ Daemon \notin Commands
  /\ MaxCommands \in Nat /\ MaxRequests \in Nat
  /\ MaxChanges \in Nat /\ MaxCrashes \in Nat

Procs == Commands \cup {Daemon}
Files == {"bindings", "surfaces"}

\* A temporary file is never one of the files: its name begins with a dot.
ASSUME TemporaryAssumption == Procs \cap Files = {}

SurfaceRecord == [session : Sessions, handle : Handles]

\* What a process is asked for: a reconciliation and then perhaps a bind or a
\* release, or one session's record.
Asks == [file : {"bindings"}, bind : SUBSET Panes, release : SUBSET Panes]
          \cup [file : {"surfaces"}, session : Sessions, handle : Handles \cup {NoHandle}]
Status == [file |-> "bindings", bind |-> {}, release |-> {}]

VARIABLES
  fresh,    \* the panes that have not opened yet
  live,     \* the panes that exist
  cache,    \* the panes that the daemon's cache shows
  shown,    \* the terminal surfaces that exist
  ledger,   \* bindings.json
  surfaces, \* surfaces.json
  half,     \* the files, and the processes whose temporary file, is half-written
  pc,       \* pc[x]: what process x does next
  ask,      \* ask[x]: what x is doing it for
  copy,     \* copy[x]: in the memory of x, the panes it has read, later the ledger
  records,  \* records[x]: the adopted surfaces in the memory of x
  kept,     \* panes whose bind was acknowledged and that had no cause to lose it since
  adopted,  \* adopted[s]: what the last command about s that was done asked for
  torn,     \* somebody loaded a file that was not whole
  raced,    \* panes whose bind was acknowledged while a preview held an older state
  mixed,    \* sessions whose record was saved while another command held an older one
  commands, requests, changes, crashes
vars == <<fresh, live, cache, shown, ledger, surfaces, half, pc, ask, copy, records, kept, adopted,
          torn, raced, mixed, commands, requests, changes, crashes>>
Memory == <<copy, records>>
History == <<kept, adopted, torn, raced, mixed>>
Counts == <<commands, requests, changes, crashes>>

Steps == {"ready", "read", "load", "write", "rename", "writeChange", "renameChange"}

TypeOK == /\ fresh \subseteq Panes /\ live \subseteq Panes \ fresh
          /\ cache \subseteq Panes \ fresh /\ shown \subseteq Handles
          /\ ledger \subseteq Panes /\ surfaces \subseteq SurfaceRecord
          /\ half \subseteq Files \cup Procs
          /\ pc \in [Procs -> Steps] /\ ask \in [Procs -> Asks]
          /\ copy \in [Procs -> SUBSET Panes] /\ records \in [Procs -> SUBSET SurfaceRecord]
          /\ kept \subseteq Panes /\ adopted \in [Sessions -> Handles \cup {NoHandle}]
          /\ torn \in BOOLEAN /\ raced \subseteq Panes /\ mixed \subseteq Sessions

Init == /\ fresh \in SUBSET Panes /\ live = Panes \ fresh /\ cache = live /\ shown = Handles
        /\ ledger = {} /\ surfaces = {} /\ half = {}
        /\ pc = [x \in Procs |-> "ready"] /\ ask = [x \in Procs |-> Status]
        /\ copy = [x \in Procs |-> {}] /\ records = [x \in Procs |-> {}]
        /\ kept = {} /\ adopted = [s \in Sessions |-> NoHandle]
        /\ torn = FALSE /\ raced = {} /\ mixed = {}
        /\ commands = 0 /\ requests = 0 /\ changes = 0 /\ crashes = 0

-----------------------------------------------------------------------------
\* What is asked of the processes.

GoTo(x, step) == pc' = [pc EXCEPT ![x] = step] /\ UNCHANGED ask
\* The end of an operation: what it held is gone.
Done(x) == /\ pc' = [pc EXCEPT ![x] = "ready"] /\ ask' = [ask EXCEPT ![x] = Status]
           /\ copy' = [copy EXCEPT ![x] = {}] /\ records' = [records EXCEPT ![x] = {}]
World == <<fresh, live, cache, shown>>
Disk == <<ledger, surfaces, half>>

Begin(x, what) == /\ pc[x] = "ready"
                  /\ pc' = [pc EXCEPT ![x] = IF what.file = "bindings" THEN "read" ELSE "load"]
                  /\ ask' = [ask EXCEPT ![x] = what]
                  /\ UNCHANGED <<World, Disk, Memory, adopted, torn, raced, mixed, changes, crashes>>

\* A client asks the daemon to bind or to release a pane.
Request(r) == /\ requests < MaxRequests /\ requests' = requests + 1
              /\ Begin(Daemon, r)
              /\ kept' = kept \ r.release
              /\ UNCHANGED commands

\* The daemon reconciles on its own, on each tick.
Tick == Begin(Daemon, Status) /\ UNCHANGED <<kept, commands, requests>>

Command(x, what) == /\ commands < MaxCommands /\ commands' = commands + 1
                    /\ Begin(x, what)
                    /\ UNCHANGED <<kept, requests>>

Preview(x) == Command(x, Status)

\* Only a surface the backend lists is adopted; forget looks at the file alone.
Adopt(x, s, h) == h \in shown /\ Command(x, [file |-> "surfaces", session |-> s, handle |-> h])
Forget(x, s) == Command(x, [file |-> "surfaces", session |-> s, handle |-> NoHandle])

-----------------------------------------------------------------------------
\* The save.

\* Mutant of Recorded: the filter is the wrong way round.
RecordedAlone(state, s, h) ==
  {r \in state : r.session = s} \cup {[session |-> s, handle |-> g] : g \in {h} \ {NoHandle}}
\* record and forget: the session's old record goes, the new one, if any, comes.
Recorded(state, s, h) ==
  {r \in state : r.session # s} \cup {[session |-> s, handle |-> g] : g \in {h} \ {NoHandle}}

\* Before it loads the ledger, a process reads the panes.  A bind of a pane that
\* is not among them ends there; a release of one is a reconciliation.
Seen(x) == IF x = Daemon THEN cache ELSE live
Read(x) == /\ pc[x] = "read"
           /\ IF ask[x].bind \subseteq Seen(x)
                THEN copy' = [copy EXCEPT ![x] = Seen(x)] /\ GoTo(x, "load") /\ UNCHANGED records
                ELSE Done(x)
           /\ UNCHANGED <<World, Disk, History, Counts>>

\* Reconciliation drops from the ledger the panes that were not read before it.
LoadBindings(x) == /\ ask[x].file = "bindings"
                   /\ copy' = [copy EXCEPT ![x] = ledger \cap copy[x]]
                   /\ GoTo(x, "write") /\ UNCHANGED records
\* A forget that finds no record ends without a save.
LoadSurfaces(x) ==
  LET changed == Recorded(surfaces, ask[x].session, ask[x].handle) IN
  /\ ask[x].file = "surfaces"
  /\ IF ask[x].handle = NoHandle /\ changed = surfaces
       THEN Done(x)
       ELSE records' = [records EXCEPT ![x] = changed] /\ GoTo(x, "write") /\ UNCHANGED copy
Load(x) == /\ pc[x] = "load"
           /\ torn' = (torn \/ ask[x].file \in half)
           /\ LoadBindings(x) \/ LoadSurfaces(x)
           /\ UNCHANGED <<World, Disk, kept, adopted, raced, mixed, Counts>>

\* Mutant of Target: the file itself is written.
InPlace(x) == ask[x].file
\* Where a save writes before it renames: the process's own temporary file.
Target(x) == x

\* fs::write, seen half-way and at its end.
WriteSome(x) == /\ pc[x] \in {"write", "writeChange"}
                /\ half' = half \cup {Target(x)}
                /\ UNCHANGED <<World, ledger, surfaces, pc, ask, Memory, History, Counts>>
Write(x) == /\ pc[x] \in {"write", "writeChange"}
            /\ half' = half \ {Target(x)}
            /\ GoTo(x, IF pc[x] = "write" THEN "rename" ELSE "renameChange")
            /\ UNCHANGED <<World, ledger, surfaces, Memory, History, Counts>>

\* The previews whose panes, or whose ledger, are without pane p.
Outdated(p) == {y \in Commands : /\ pc[y] \in {"load", "write", "rename"}
                                 /\ ask[y].file = "bindings" /\ p \notin copy[y]}

\* The client is told that its request is done.
Acknowledge(x) ==
  LET bind == ask[x].bind IN
  /\ kept' = kept \cup (bind \cap live \cap cache)
  /\ raced' = (raced \ bind) \cup {p \in bind \cap live : Outdated(p) # {}}
  /\ Done(x)

\* The save of the reconciled ledger.  The daemon then applies the request to
\* it and saves again if that changes anything.
Rename(x) ==
  LET changed == (copy[x] \cup ask[x].bind) \ ask[x].release IN
  /\ pc[x] = "rename" /\ ask[x].file = "bindings"
  /\ ledger' = copy[x]
  /\ IF changed # copy[x]
       THEN /\ copy' = [copy EXCEPT ![x] = changed] /\ GoTo(x, "writeChange")
            /\ UNCHANGED <<records, kept, raced>>
       ELSE Acknowledge(x)
  /\ UNCHANGED <<World, surfaces, half, adopted, torn, mixed, Counts>>

\* Mutant of RenameChange: a bind is acknowledged before it is saved.
AcknowledgeOnly(x) ==
  /\ pc[x] = "renameChange"
  /\ Acknowledge(x)
  /\ UNCHANGED <<World, Disk, adopted, torn, mixed, Counts>>
\* The changed ledger is in place.
RenameChange(x) ==
  /\ pc[x] = "renameChange"
  /\ ledger' = copy[x]
  /\ Acknowledge(x)
  /\ UNCHANGED <<World, surfaces, half, adopted, torn, mixed, Counts>>

\* The adopt and forget commands that hold what they loaded.
Recorders == {y \in Commands : pc[y] \in {"write", "rename"} /\ ask[y].file = "surfaces"}

\* An adopt or forget is done.
RenameSurfaces(x) ==
  /\ pc[x] = "rename" /\ ask[x].file = "surfaces"
  /\ surfaces' = records[x]
  /\ adopted' = [adopted EXCEPT ![ask[x].session] = ask[x].handle]
  /\ mixed' = (mixed \ {ask[x].session})
                 \cup {s \in {ask[x].session} : Recorders # {x}}
  /\ Done(x)
  /\ UNCHANGED <<World, ledger, half, kept, torn, raced, Counts>>

\* A process dies between two steps; the daemon is started again.  The next
\* process has another temporary file.
Crash(x) == /\ pc[x] # "ready" /\ crashes < MaxCrashes
            /\ crashes' = crashes + 1
            /\ half' = half \ {x}
            /\ Done(x)
            /\ UNCHANGED <<World, ledger, surfaces, History, commands, requests, changes>>

-----------------------------------------------------------------------------
Changing == /\ changes < MaxChanges /\ changes' = changes + 1
            /\ UNCHANGED <<Disk, pc, ask, Memory, adopted, torn, raced, mixed,
                           commands, requests, crashes>>

PaneOpens(p) == /\ Changing /\ p \in fresh
                /\ fresh' = fresh \ {p} /\ live' = live \cup {p}
                /\ UNCHANGED <<cache, shown, kept>>
PaneCloses(p) == /\ Changing /\ p \in live
                 /\ live' = live \ {p} /\ kept' = kept \ {p}
                 /\ UNCHANGED <<fresh, cache, shown>>
\* The daemon's cache comes to show other panes, in an order and with gaps that
\* are PaneCache's subject: any that have been open.  That it misses a live pane
\* is a cause to lose its binding.
CacheShows(view) == /\ Changing /\ view # cache
                    /\ cache' = view /\ kept' = kept \cap view
                    /\ UNCHANGED <<fresh, live, shown>>
SurfaceCloses(h) == /\ Changing /\ h \in shown
                    /\ shown' = shown \ {h}
                    /\ UNCHANGED <<fresh, live, cache, kept>>

Requests == {[file |-> "bindings", bind |-> {p}, release |-> {}] : p \in Panes}
              \cup {[file |-> "bindings", bind |-> {}, release |-> {p}] : p \in Panes}

Saves(x) == Read(x) \/ Load(x) \/ WriteSome(x) \/ Write(x) \/ Rename(x) \/ RenameSurfaces(x)

CommandRuns(x) == \/ Preview(x)
                  \/ \E s \in Sessions : Forget(x, s) \/ \E h \in Handles : Adopt(x, s, h)

Next == \/ \E r \in Requests : Request(r)
        \/ Tick
        \/ \E x \in Commands : CommandRuns(x)
        \/ \E x \in Procs : Saves(x) \/ Crash(x)
        \/ RenameChange(Daemon)
        \/ \E p \in Panes : PaneOpens(p) \/ PaneCloses(p)
        \/ \E view \in SUBSET (Panes \ fresh) : CacheShows(view)
        \/ \E h \in Handles : SurfaceCloses(h)

Spec == Init /\ [][Next]_vars

-----------------------------------------------------------------------------
\* Properties.

\* Nobody ever loads half a state file, with several writers and any of them
\* dying at any point of a save (state.rs: "Atomically write a private JSON state
\* file").
LoadsAreWhole == ~torn /\ half \cap Files = {}

\* A bind the daemon has acknowledged is in the ledger until its pane closes, the
\* daemon's cache misses the pane, or a release asks for it, across crashes and
\* restarts of the daemon and whatever previews run: unless one of them, when the
\* bind was acknowledged, had read the panes before this one opened or loaded the
\* ledger before it was bound.  A preview takes back no other bind, and no bind
\* made after it began to save (core.rs saves before it acknowledges).
KeptUnlessRaced == kept \ raced \subseteq ledger

\* The surface raised for a session: its record's, if the backend still has it.
RaisedFor(s) == {r.handle : r \in {q \in surfaces : q.session = s}} \cap shown

\* Navigation raises for a session the surface that the last command about it
\* adopted, if that still exists, and otherwise none: no other session's, none
\* that was forgotten or replaced, whichever commands died half-way.  Commands
\* that overlap keep this for every session but one: of the session whose command
\* was done while another still held what it had loaded, the other may take the
\* change back (terminal.rs:157).  What the last of them asked for stays, and so
\* do the records of the sessions that none of them is about.
RaisesWhatWasAdopted ==
  \A s \in Sessions \ mixed : RaisedFor(s) = {adopted[s]} \cap shown

\* docs/terminal-backend-architecture.md:120: "`bindings.json` is written only
\* by the daemon", so an acknowledged bind stays whatever else runs.
AcknowledgedIsKept == kept \subseteq ledger
=============================================================================

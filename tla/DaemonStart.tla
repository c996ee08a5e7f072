----------------------------- MODULE DaemonStart -----------------------------
(***************************************************************************)
(* How beckond starts (src/main.rs daemon).  First it takes its socket: a   *)
(* socket file that is there is connected to; an answer means another       *)
(* daemon runs, a refusal that its owner died, and then the file is         *)
(* removed.  Nothing removes the file when a daemon ends.  A bound socket   *)
(* refuses connections until it listens, and one whose file was removed is  *)
(* reached by nobody.  Then it looks for Herdr's sessions (src/herdr.rs),   *)
(* which come and go, attaches a cache to each and registers its shortcuts  *)
(* (src/input.rs), which another application may hold.                      *)
(***************************************************************************)
EXTENDS Integers

CONSTANTS Daemons,    \* processes that run `beckon daemon`
          KeptAlive,  \* those that launchd starts again when they end
          NoSocket,   \* there is no socket file
          Sessions,   \* Herdr sessions: the default one and those with a directory
          Allowed,    \* those [herdr] sessions permits: all, or a list
          MaxCrashes, \* bound: daemons that die
          MaxChanges  \* bound: sessions and other applications that come or go

ASSUME StartAssumption ==
  /\ KeptAlive \subseteq Daemons /\ NoSocket \notin Daemons
  /\ MaxCrashes \in Nat /\ MaxChanges \in Nat

VARIABLES
  pc,         \* pc[d]: what d does next
  socket,     \* whose socket the file is: the last that bound it, or NoSocket
  listening,  \* the daemons whose socket accepts connections
  exposed,    \* the daemons that began to listen when the socket file was no longer
              \* theirs or another was about to remove it
  up,         \* the sessions whose Herdr answers
  found,      \* found[d]: sessions d found and has not attached to yet
  manages,    \* manages[d]: sessions d attached to
  steady,     \* steady[d]: sessions that have been up since d looked for them
  taken,      \* another application holds one of the shortcuts
  crashes, changes
Taken == <<socket, listening, exposed>>
Prepared == <<found, manages, steady>>
Around == <<up, taken, changes>>
vars == <<pc, Taken, Prepared, Around, crashes>>

Steps == {"off", "look", "connect", "remove", "bind", "listen",
          "discover", "attach", "register", "serve"}

TypeOK == /\ pc \in [Daemons -> Steps]
          /\ socket \in Daemons \cup {NoSocket}
          /\ listening \subseteq Daemons
          /\ exposed \subseteq Daemons
          /\ up \subseteq Sessions
          /\ found \in [Daemons -> SUBSET Sessions] /\ manages \in [Daemons -> SUBSET Sessions]
          /\ steady \in [Daemons -> SUBSET Sessions]
          /\ taken \in BOOLEAN
          /\ crashes \in 0 .. MaxCrashes /\ changes \in 0 .. MaxChanges

Init == /\ pc = [d \in Daemons |-> "off"]
        /\ socket = NoSocket /\ listening = {}
        /\ exposed = {}
        /\ up \in SUBSET Sessions /\ taken \in BOOLEAN
        /\ found = [d \in Daemons |-> {}] /\ manages = found /\ steady = found
        /\ crashes = 0 /\ changes = 0

-----------------------------------------------------------------------------
GoTo(d, step) == pc' = [pc EXCEPT ![d] = step]

\* launchd starts the daemon, or somebody does by hand.
Launch(d) == /\ pc[d] = "off"
             /\ GoTo(d, "look")
             /\ UNCHANGED <<Taken, crashes, Prepared, Around>>

Look(d) == /\ pc[d] = "look"
           /\ GoTo(d, IF socket = NoSocket THEN "bind" ELSE "connect")
           /\ UNCHANGED <<Taken, crashes, Prepared, Around>>

\* Mutant of Connect: a daemon that answers is taken for a stale socket.
ConnectRemovingAlways(d) ==
  /\ pc[d] = "connect"
  /\ GoTo(d, IF socket = NoSocket THEN "off" ELSE "remove")
  /\ UNCHANGED <<Taken, crashes, Prepared, Around>>
\* Mutant of Connect: a refused connection ends the start like any other error.
ConnectGivingUp(d) ==
  /\ pc[d] = "connect"
  /\ GoTo(d, "off")
  /\ UNCHANGED <<Taken, crashes, Prepared, Around>>
\* Only a refused connection goes on; an answer and any other error, such as a
\* file that has gone, end the start.
Connect(d) == /\ pc[d] = "connect"
              /\ GoTo(d, IF socket = NoSocket \/ socket \in listening THEN "off" ELSE "remove")
              /\ UNCHANGED <<Taken, crashes, Prepared, Around>>

\* The file is removed by name, whosever socket it has become.
Remove(d) == /\ pc[d] = "remove"
             /\ socket' = NoSocket
             /\ GoTo(d, IF socket = NoSocket THEN "off" ELSE "bind")
             /\ UNCHANGED <<listening, exposed, crashes, Prepared, Around>>

Bind(d) == /\ pc[d] = "bind"
           /\ IF socket = NoSocket THEN socket' = d /\ GoTo(d, "listen")
                                   ELSE UNCHANGED socket /\ GoTo(d, "off")
           /\ UNCHANGED <<listening, exposed, crashes, Prepared, Around>>

\* The daemons that found the file stale and have not removed it yet.
Removing == {d \in Daemons : pc[d] = "remove"}

Listen(d) == /\ pc[d] = "listen"
             /\ listening' = listening \cup {d}
             /\ exposed' = exposed \cup {e \in {d} : socket # e \/ Removing # {}}
             /\ GoTo(d, "discover")
             /\ UNCHANGED <<socket, crashes, Prepared, Around>>

\* The process ends; its socket file stays.
Ends(d) == /\ GoTo(d, "off")
           /\ listening' = listening \ {d}
           /\ found' = [found EXCEPT ![d] = {}] /\ manages' = [manages EXCEPT ![d] = {}]
           /\ steady' = [steady EXCEPT ![d] = {}]
           /\ exposed' = exposed \ {d}
           /\ UNCHANGED socket

\* The sessions that answer and that the configuration permits.
Permitted == up \cap Allowed

\* discover_sessions: the permitted sessions whose socket answers; without any
\* the start fails.
Discover(d) ==
  /\ pc[d] = "discover"
  /\ IF Permitted = {} THEN Ends(d)
       ELSE /\ found' = [found EXCEPT ![d] = Permitted]
            /\ steady' = [steady EXCEPT ![d] = Permitted]
            /\ GoTo(d, "attach") /\ UNCHANGED <<manages, Taken>>
  /\ UNCHANGED <<Around, crashes>>

\* LivePaneDirectory::start reads the session's panes; a session that has gone
\* since it was found is skipped.
Attach(d, s) ==
  /\ pc[d] = "attach" /\ s \in found[d]
  /\ found' = [found EXCEPT ![d] = @ \ {s}]
  /\ manages' = [manages EXCEPT ![d] = @ \cup ({s} \cap up)]
  /\ UNCHANGED <<pc, steady, Taken, Around, crashes>>

\* Mutant of Attached: one session is enough, the others are not tried.
AttachedToOne(d) == /\ pc[d] = "attach" /\ (found[d] = {} \/ manages[d] # {})
                    /\ IF manages[d] = {} THEN Ends(d)
                                          ELSE GoTo(d, "register") /\ UNCHANGED <<Taken, Prepared>>
                    /\ UNCHANGED <<Around, crashes>>
\* Without any session that answered the start fails.
Attached(d) == /\ pc[d] = "attach" /\ found[d] = {}
               /\ IF manages[d] = {} THEN Ends(d)
                                     ELSE GoTo(d, "register") /\ UNCHANGED <<Taken, Prepared>>
               /\ UNCHANGED <<Around, crashes>>

\* register_adapters: the system may refuse a shortcut that somebody else holds,
\* another application or another daemon, and that fails the start.
Register(d) == /\ pc[d] = "register"
               /\ \/ GoTo(d, "serve") /\ UNCHANGED <<Taken, Prepared>>
                  \/ (taken \/ \E e \in Daemons \ {d} : pc[e] \in {"register", "serve"}) /\ Ends(d)
               /\ UNCHANGED <<Around, crashes>>

\* The event loop.
Serve(d) == pc[d] = "serve" /\ UNCHANGED vars

\* The process dies anywhere.
Exit(d) == /\ pc[d] # "off" /\ crashes < MaxCrashes
           /\ crashes' = crashes + 1
           /\ Ends(d)
           /\ UNCHANGED Around

Changing == changes < MaxChanges /\ changes' = changes + 1

\* A Herdr session is started or stopped; its directory stays.
SessionStarts(s) == /\ Changing /\ s \notin up
                    /\ up' = up \cup {s}
                    /\ UNCHANGED <<pc, Taken, Prepared, taken, crashes>>
SessionStops(s) == /\ Changing /\ s \in up
                   /\ up' = up \ {s}
                   /\ steady' = [d \in Daemons |-> steady[d] \ {s}]
                   /\ UNCHANGED <<pc, Taken, found, manages, taken, crashes>>
\* Another application, such as `beckon listen-keys`, takes the shortcuts or
\* gives them back.
OthersRegister == /\ Changing /\ taken' = ~taken
                  /\ UNCHANGED <<pc, Taken, Prepared, up, crashes>>

Preparing(d) == \/ Discover(d) \/ Attached(d) \/ Register(d)
                \/ \E s \in Sessions : Attach(d, s)
Starting(d) == Look(d) \/ Connect(d) \/ Remove(d) \/ Bind(d) \/ Listen(d) \/ Preparing(d)

Next == \/ \E d \in Daemons : Launch(d) \/ Starting(d) \/ Serve(d) \/ Exit(d)
        \/ \E s \in Sessions : SessionStarts(s) \/ SessionStops(s)
        \/ OthersRegister

\* launchd keeps its daemon alive (nix/home-manager.nix: KeepAlive), and every
\* start runs on; nobody is obliged to start a daemon by hand.
Spec == /\ Init /\ [][Next]_vars
        /\ \A d \in KeptAlive : WF_vars(Launch(d))
        /\ \A d \in Daemons : WF_vars(Starting(d))

-----------------------------------------------------------------------------
\* Properties.

Running == {d \in Daemons : pc[d] \in {"discover", "attach", "register", "serve"}}

\* A daemon that runs owns the socket file, and so is the only one, however many
\* others start, before it or beside it, and die or fail at whatever point: unless
\* one of them had found the file stale before this one listened, and still had
\* to remove it or already did so (main.rs:674 removes whatever is there by then).
\* Once a daemon listens, no start that looks at its file can take that from it.
RunningOwnsSocket == \A d \in Running \ exposed : socket = d

\* A session that was up when the daemon looked, and stayed, is managed by the
\* daemon that serves, whichever other sessions stopped in between (main.rs:1073:
\* "skipping session").
SteadySessionsManaged == \A d \in Daemons : pc[d] = "serve" => steady[d] \subseteq manages[d]

\* In the end there is a daemon that serves and that clients reach, once some
\* permitted session is up for good and the shortcuts are free: no socket file a
\* dead or failed daemon left, at whatever point of its start, and no start beside
\* it keeps launchd's daemon from starting.  (While an exposed daemon is there it
\* may hold the shortcuts and be reached by nobody.)
ServesAgain ==
  <>[](exposed = {} /\ Permitted # {} /\ ~taken)
    => <>[](\E d \in Daemons : pc[d] = "serve" /\ socket = d)
=============================================================================

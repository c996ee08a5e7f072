-------------------------- MODULE DaemonStart_proofs --------------------------
(***************************************************************************)
(* One daemon owns the socket, for any number of daemons, starts, overlaps  *)
(* and deaths: the invariant is about the daemon that runs unexposed.  It   *)
(* answers on the file, so nobody can come to find it stale, and nobody     *)
(* that had found it so is left.                                            *)
(***************************************************************************)
EXTENDS DaemonStart, TLAPS

\* A daemon that runs unexposed owns the socket file and answers on it, and
\* nobody is about to remove the file.
Settled == \A d \in Running \ exposed : socket = d /\ d \in listening /\ Removing = {}

\* What happens outside the daemons.
Outside == OthersRegister \/ \E s \in Sessions : SessionStarts(s) \/ SessionStops(s)

\* The state of the start-up stays well-typed.
THEOREM StartTypeCorrect == Spec => []TypeOK
<1>1. Init => TypeOK
  <2> SUFFICES ASSUME Init PROVE TypeOK
    OBVIOUS
  <2>1. pc \in [Daemons -> Steps] /\ socket \in Daemons \cup {NoSocket} /\ listening \subseteq Daemons
    BY DEF Init, Steps
  <2>2. crashes \in 0 .. MaxCrashes /\ changes \in 0 .. MaxChanges
    BY StartAssumption, SMT DEF Init
  <2>3. exposed \subseteq Daemons /\ taken \in BOOLEAN /\ up \subseteq Sessions
    BY Zenon DEF Init
  <2>4. /\ found \in [Daemons -> SUBSET Sessions] /\ manages \in [Daemons -> SUBSET Sessions]
        /\ steady \in [Daemons -> SUBSET Sessions]
    BY DEF Init
  <2> QED
    BY <2>1, <2>2, <2>3, <2>4 DEF TypeOK
<1>2. TypeOK /\ [Next]_vars => TypeOK'
  <2> SUFFICES ASSUME TypeOK, [Next]_vars PROVE TypeOK'
    OBVIOUS
  <2> USE StartAssumption DEF TypeOK, Steps, GoTo, Taken, Prepared, Around
  <2>1. ASSUME NEW d \in Daemons, Launch(d) PROVE TypeOK'
    BY <2>1 DEF Launch
  <2>2. ASSUME NEW d \in Daemons, Look(d) \/ Connect(d) PROVE TypeOK'
    BY <2>2 DEF Look, Connect
  <2>3. ASSUME NEW d \in Daemons, Remove(d) \/ Bind(d) \/ Listen(d) PROVE TypeOK'
    BY <2>3 DEF Remove, Bind, Listen
  <2>4. ASSUME NEW d \in Daemons, Discover(d) PROVE TypeOK'
    BY <2>4 DEF Discover, Permitted, Ends
  <2>5. ASSUME NEW d \in Daemons, NEW s \in Sessions, Attach(d, s) PROVE TypeOK'
    BY <2>5 DEF Attach
  <2>6. ASSUME NEW d \in Daemons, Attached(d) \/ Register(d) PROVE TypeOK'
    BY <2>6 DEF Attached, Register, Ends
  <2>7. ASSUME NEW d \in Daemons, Exit(d) PROVE TypeOK'
    BY <2>7 DEF Exit, Ends
  <2>8. ASSUME NEW d \in Daemons, Serve(d) PROVE TypeOK'
    BY <2>8 DEF Serve, vars
  <2>9. ASSUME NEW s \in Sessions, SessionStarts(s) PROVE TypeOK'
    BY <2>9 DEF SessionStarts, Changing
  <2>10. ASSUME NEW s \in Sessions, SessionStops(s) PROVE TypeOK'
    BY <2>10 DEF SessionStops, Changing
  <2>11. CASE OthersRegister
    BY <2>11 DEF OthersRegister, Changing
  <2>12. CASE UNCHANGED vars
    BY <2>12 DEF vars
  <2> QED
    BY <2>1, <2>2, <2>3, <2>4, <2>5, <2>6, <2>7, <2>8, <2>9, <2>10, <2>11, <2>12
    DEF Next, Starting, Preparing
<1> QED
  BY <1>1, <1>2, PTL DEF Spec

\* A start finds the file stale only when no daemon runs unexposed, and a daemon
\* that begins to listen is exposed unless the file is its own and stays so.
LEMMA StaysSettled == ASSUME TypeOK, Settled, [Next]_vars PROVE Settled'
<1> USE StartAssumption DEF TypeOK, Steps, GoTo, Settled, Running, Removing,
                            Taken, Prepared, Around
<1>1. ASSUME NEW d \in Daemons, Launch(d) \/ Look(d) PROVE Settled'
  BY <1>1 DEF Launch, Look
<1>2. ASSUME NEW d \in Daemons, Connect(d) PROVE Settled'
  BY <1>2 DEF Connect
<1>3. ASSUME NEW d \in Daemons, Remove(d) PROVE Settled'
  <2>1. Running \ exposed = {}
    BY <1>3 DEF Remove
  <2> QED
    BY <1>3, <2>1 DEF Remove
<1>4. ASSUME NEW d \in Daemons, Bind(d) PROVE Settled'
  BY <1>4 DEF Bind
<1>5. ASSUME NEW d \in Daemons, Listen(d) PROVE Settled'
  <2>1. \A e \in Running \ exposed : socket # d
    BY <1>5 DEF Listen
  <2>2. CASE socket = d /\ Removing = {}
    BY <1>5, <2>1, <2>2 DEF Listen
  <2>3. CASE socket # d \/ Removing # {}
    <3>1. d \in exposed' /\ exposed \subseteq exposed'
      BY <1>5, <2>3 DEF Listen
    <3> QED
      BY <1>5, <3>1 DEF Listen
  <2> QED
    BY <2>2, <2>3
<1>6. ASSUME NEW d \in Daemons, Discover(d) PROVE Settled'
  BY <1>6 DEF Discover, Ends
<1>7. ASSUME NEW d \in Daemons, NEW s \in Sessions, Attach(d, s) PROVE Settled'
  BY <1>7 DEF Attach
<1>8. ASSUME NEW d \in Daemons, Attached(d) PROVE Settled'
  BY <1>8 DEF Attached, Ends
<1>9. ASSUME NEW d \in Daemons, Register(d) PROVE Settled'
  BY <1>9 DEF Register, Ends
<1>10. ASSUME NEW d \in Daemons, Exit(d) PROVE Settled'
  BY <1>10 DEF Exit, Ends
<1>11. ASSUME NEW d \in Daemons, Serve(d) PROVE Settled'
  BY <1>11 DEF Serve, vars
<1>12. CASE Outside \/ UNCHANGED vars
  BY <1>12 DEF Outside, SessionStarts, SessionStops, OthersRegister, vars
<1> QED
  BY <1>1, <1>2, <1>3, <1>4, <1>5, <1>6, <1>7, <1>8, <1>9, <1>10, <1>11, <1>12
  DEF Next, Starting, Preparing, Outside

\* A daemon that runs owns the socket file, whatever other starts overlap its own,
\* unless one of them had found an older file stale before this one listened.
THEOREM RunningDaemonOwnsSocket == Spec => []RunningOwnsSocket
<1>1. Init => Settled
  BY DEF Init, Settled, Running
<1>2. Settled => RunningOwnsSocket
  BY DEF Settled, RunningOwnsSocket
<1> QED
  BY <1>1, <1>2, StaysSettled, StartTypeCorrect, PTL DEF Spec

-----------------------------------------------------------------------------
\* What a daemon holds of the sessions that stayed up since it looked: they are
\* found until it has attached to them, and it can attach, because they are up.
HoldsSteady == \A d \in Daemons :
  /\ steady[d] \subseteq up
  /\ pc[d] = "attach" => steady[d] \subseteq found[d] \cup manages[d]
  /\ pc[d] \in {"register", "serve"} => steady[d] \subseteq manages[d]

\* A daemon that serves manages every session that stayed up since it looked,
\* whichever others stopped in between (main.rs:1073).
THEOREM ServingManagesSteadySessions == Spec => []SteadySessionsManaged
<1>1. Init => HoldsSteady
  BY DEF Init, HoldsSteady
<1>2. TypeOK /\ HoldsSteady /\ [Next]_vars => HoldsSteady'
  <2> SUFFICES ASSUME TypeOK, HoldsSteady, [Next]_vars PROVE HoldsSteady'
    OBVIOUS
  <2> USE DEF TypeOK, HoldsSteady, GoTo, Taken, Prepared, Around
  <2>1. ASSUME NEW d \in Daemons,
               Launch(d) \/ Look(d) \/ Connect(d) \/ Remove(d) \/ Bind(d) \/ Listen(d)
        PROVE  HoldsSteady'
    BY <2>1 DEF Launch, Look, Connect, Remove, Bind, Listen
  <2>2. ASSUME NEW d \in Daemons, Discover(d) PROVE HoldsSteady'
    BY <2>2 DEF Discover, Permitted, Ends
  <2>3. ASSUME NEW d \in Daemons, NEW s \in Sessions, Attach(d, s) PROVE HoldsSteady'
    BY <2>3 DEF Attach
  <2>4. ASSUME NEW d \in Daemons, Attached(d) \/ Register(d) PROVE HoldsSteady'
    BY <2>4 DEF Attached, Register, Ends
  <2>5. ASSUME NEW d \in Daemons, Exit(d) PROVE HoldsSteady'
    BY <2>5 DEF Exit, Ends
  <2>6. ASSUME NEW s \in Sessions, SessionStarts(s) PROVE HoldsSteady'
    BY <2>6 DEF SessionStarts
  <2>7. ASSUME NEW s \in Sessions, SessionStops(s) PROVE HoldsSteady'
    BY <2>7 DEF SessionStops
  <2>8. CASE OthersRegister \/ UNCHANGED vars
    BY <2>8 DEF OthersRegister, vars
  <2> QED
    BY <2>1, <2>2, <2>3, <2>4, <2>5, <2>6, <2>7, <2>8 DEF Next, Starting, Preparing, Serve
<1>3. HoldsSteady => SteadySessionsManaged
  BY DEF HoldsSteady, SteadySessionsManaged
<1> QED
  BY <1>1, <1>2, <1>3, StartTypeCorrect, PTL DEF Spec
=============================================================================

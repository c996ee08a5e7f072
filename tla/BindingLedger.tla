---------------------------- MODULE BindingLedger ----------------------------
(***************************************************************************)
(* The binding service of beckond (src/core.rs over src/session.rs and      *)
(* src/state.rs): the durable ledger bindings.json, the daemon's cached     *)
(* snapshot of each managed session's panes, and the fkey tokens Herdr      *)
(* shows.  A request or a tick is one action: the event loop serves them    *)
(* one at a time.  Inside it every save and every token write may be the    *)
(* last thing that happens, because it failed or because the daemon died.   *)
(***************************************************************************)
EXTENDS Integers, FiniteSets

CONSTANTS NumKeys,  \* KEY_IDS is f1..f<NumKeys>, lowest first
          Sessions, \* Herdr session names, as numbers in name order
          PaneRefs  \* <<session, pane id>>

ASSUME NumKeysAssumption == NumKeys \in Nat
ASSUME SessionsAssumption == Sessions \subseteq Nat
ASSUME PaneRefsAssumption == PaneRefs \subseteq Sessions \X Nat

Keys     == 1 .. NumKeys
NoToken  == 0             \* the pane shows no fkey token
BadToken == NumKeys + 1   \* an fkey token that names no key
Absent   == -1            \* the pane does not exist
Tokens   == 0 .. NumKeys + 1
AnyKey   == 0             \* `beckon bind` without --key

VARIABLES
  hasFile,  \* bindings.json exists
  ledger,   \* the bindings in it
  managed,  \* the sessions of the router, fixed for the daemon's life
  cache,    \* cache[p]: p's token in the daemon's snapshot, or Absent
  herdr     \* herdr[p]: p's token in Herdr itself, or Absent
vars == <<hasFile, ledger, managed, cache, herdr>>

Bindings == [key : Keys, pane : PaneRefs]

TypeOK == /\ hasFile \in BOOLEAN
          /\ ledger \subseteq Bindings
          /\ managed \subseteq Sessions
          /\ cache \in [PaneRefs -> Tokens \cup {Absent}]
          /\ herdr \in [PaneRefs -> Tokens \cup {Absent}]

HasPane(L, p) == \E b \in L : b.pane = p
HasKey(L, k)  == \E b \in L : b.key = k

\* The token pane p should show when the ledger is L.
TokenFor(L, p) == IF HasPane(L, p) THEN (CHOOSE b \in L : b.pane = p).key ELSE NoToken

\* Mutant of Valid: keys are not checked.
ValidWithoutKeys(L) == \A b, c \in L : b.key = c.key \/ b.pane = c.pane => b = c

\* validate_bindings
Valid(L) == /\ \A b \in L : b.key \in Keys
            /\ \A b, c \in L : b.key = c.key \/ b.pane = c.pane => b = c

Init == /\ hasFile = FALSE /\ ledger = {}
        /\ herdr \in [PaneRefs -> Tokens \cup {Absent}]
        /\ managed \in SUBSET Sessions \ {{}}
        /\ cache = [p \in PaneRefs |-> IF p[1] \in managed THEN herdr[p] ELSE Absent]

-----------------------------------------------------------------------------
\* Reconciliation, the first half of every operation.

Snapshot == {p \in PaneRefs : cache[p] # Absent}

\* Before the first save the tokens on the panes are the ledger.
Imported == {[key |-> cache[p], pane |-> p] : p \in {q \in Snapshot : cache[q] # NoToken}}
\* Mutant of Loaded: an empty ledger is taken for a missing one.
LoadedUnlessEmpty == IF ledger # {} THEN ledger ELSE Imported
Loaded   == IF hasFile THEN ledger ELSE Imported

\* Mutant of Kept: a pane that cannot be seen is gone.
KeptIfSeen == {b \in Loaded : b.pane \in Snapshot}

\* Only a managed session's snapshot proves that a pane is gone.
Kept == {b \in Loaded : b.pane[1] \notin managed \/ cache[b.pane] # Absent}

\* Mutant of Repairs: tokens of unbound panes are left alone.
RepairsOfBound == LET kept == Kept IN
  [p \in {q \in Snapshot : cache[q] # TokenFor(kept, q) /\ HasPane(kept, q)}
     |-> TokenFor(kept, p)]

\* The token writes that make the snapshot agree with Kept.
Repairs == LET kept == Kept IN
  [p \in {q \in Snapshot : /\ cache[q] # TokenFor(kept, q)
                           /\ hasFile \/ HasPane(kept, q)} |-> TokenFor(kept, p)]

\* A token write fails unless the router knows the session and the pane exists.
Reaches(p) == p[1] \in managed /\ herdr[p] # Absent

\* Repairs run in (session, pane id) order and stop at the first that fails.
Before(p, q) == p[1] < q[1] \/ (p[1] = q[1] /\ p[2] < q[2])
Started(w) == {done \in SUBSET {p \in DOMAIN w : Reaches(p)} :
                  \A q \in done : \A p \in DOMAIN w : Before(p, q) => p \in done}

Written(h, w, done) == [p \in PaneRefs |-> IF p \in done THEN w[p] ELSE h[p]]

NoWrites == [p \in {} |-> NoToken]

\* An operation that leaves the ledger as `after` and then writes tokens
\* `writes`: it reconciles and saves, repairs tokens, saves its own change, and
\* writes.  It may stop anywhere after the first save.  The order of the last
\* writes is the ledger's insertion order, which is not modelled: any subset.
Serve(after, writes) == LET repairs == Repairs IN
  /\ Valid(Loaded)
  /\ hasFile' = TRUE
  /\ \/ /\ ledger' = Kept
        /\ \E done \in Started(repairs) : herdr' = Written(herdr, repairs, done)
     \/ /\ \A p \in DOMAIN repairs : Reaches(p)
        /\ ledger' = after
        /\ \E done \in SUBSET {p \in DOMAIN writes : Reaches(p)} :
              herdr' = Written(Written(herdr, repairs, DOMAIN repairs), writes, done)
  /\ UNCHANGED <<managed, cache>>

-----------------------------------------------------------------------------
\* The operations.  A request names a pane of the snapshot: one given with its
\* session, or the only one with its id.  A request that names none is refused
\* before anything is read or written.

\* Mutants of Granted: the owner of a requested key is not looked up; or only
\* among the panes that can be seen.
GrantedUnchecked(p, requested) ==
  {k \in Keys : \/ k = requested /\ [key |-> k, pane |-> p] \notin Kept
                \/ requested = AnyKey /\ ~HasPane(Kept, p) /\ ~HasKey(Kept, k)}
GrantedOverDormant(p, requested) ==
  {k \in Keys : /\ ~HasKey({b \in Kept : b.pane \in Snapshot}, k)
                /\ k = requested \/ (requested = AnyKey /\ ~HasPane(Kept, p))}

\* The key `bind` gives to p: the requested one when it is free, the lowest
\* free one when none was requested and p has none yet.
Granted(p, requested) == LET kept == Kept IN
  {k \in Keys : /\ ~HasKey(kept, k)
                /\ \/ k = requested
                   \/ /\ requested = AnyKey
                      /\ ~HasPane(kept, p)
                      /\ \A j \in 1 .. k - 1 : HasKey(kept, j)}

\* Mutant of Bind: a pane that moves to another key keeps the one it had.
BindKeepingOld(p, requested) ==
  \/ Granted(p, requested) = {} /\ Serve(Kept, NoWrites)
  \/ \E k \in Granted(p, requested) :
        Serve(Kept \cup {[key |-> k, pane |-> p]}, [q \in {p} |-> k])

\* Mutant of Bind: the token is written before the binding is saved.
BindTokenFirst(p, requested) ==
  \/ Granted(p, requested) = {} /\ Serve(Kept, NoWrites)
  \/ \E k \in Granted(p, requested) :
       \/ Serve(Kept, [q \in {p} |-> k])
       \/ Serve({b \in Kept : b.pane # p} \cup {[key |-> k, pane |-> p]}, [q \in {p} |-> k])

Bind(p, requested) ==
  \/ Granted(p, requested) = {} /\ Serve(Kept, NoWrites)
  \/ \E k \in Granted(p, requested) :
        Serve({b \in Kept : b.pane # p} \cup {[key |-> k, pane |-> p]}, [q \in {p} |-> k])

ReleasePane(p) == Serve({b \in Kept : b.pane # p},
                        [q \in {r \in {p} : HasPane(Kept, r)} |-> NoToken])

ReleaseKey(k) ==
  Serve({b \in Kept : b.key # k},
        [q \in {b.pane : b \in {c \in Kept : c.key = k}} |-> NoToken])

ReleaseAll == Serve({}, [q \in {b.pane : b \in Kept} |-> NoToken])

\* `beckon status`, the tick's presentation sync, and the lookup a key press
\* makes: they only reconcile.
Reconcile == Serve(Kept, NoWrites)

\* The reconciliation in which every write succeeds.
CompleteReconcile == /\ ledger' = Kept
                     /\ herdr' = Written(herdr, Repairs, DOMAIN Repairs)
                     /\ Reconcile

\* A pane event, or a whole pane.list snapshot, reaches the cache.
CacheEvent(p) == /\ p[1] \in managed
                 /\ cache' = [cache EXCEPT ![p] = herdr[p]]
                 /\ UNCHANGED <<hasFile, ledger, managed, herdr>>

CacheRefresh(s) == /\ s \in managed
                   /\ cache' = [p \in PaneRefs |-> IF p[1] = s THEN herdr[p] ELSE cache[p]]
                   /\ UNCHANGED <<hasFile, ledger, managed, herdr>>

\* The daemon stops (or crashes) and starts again with the sessions it finds.
Restart(found) == /\ managed' = found
                  /\ cache' = [p \in PaneRefs |-> IF p[1] \in found THEN herdr[p] ELSE Absent]
                  /\ UNCHANGED <<hasFile, ledger, herdr>>

\* Herdr: panes open without a token, close, and lose tokens in a restart.
HerdrSets(p, token) == /\ herdr' = [herdr EXCEPT ![p] = token]
                       /\ UNCHANGED <<hasFile, ledger, managed, cache>>
PaneOpens(p)  == herdr[p] = Absent /\ HerdrSets(p, NoToken)
PaneCloses(p) == herdr[p] # Absent /\ HerdrSets(p, Absent)
TokenLost(p)  == herdr[p] \in 1 .. NumKeys + 1 /\ HerdrSets(p, NoToken)

Request == \/ \E p \in Snapshot : \/ \E requested \in Keys \cup {AnyKey} : Bind(p, requested)
                                \/ ReleasePane(p)
           \/ \E k \in Keys : ReleaseKey(k)
           \/ ReleaseAll

Background == \/ \E s \in Sessions : CacheRefresh(s)
              \/ \E p \in PaneRefs : CacheEvent(p)
              \/ Reconcile

Outside == \/ \E found \in SUBSET Sessions \ {{}} : Restart(found)
           \/ \E p \in PaneRefs : PaneOpens(p) \/ PaneCloses(p) \/ TokenLost(p)

Next == Request \/ Background \/ Outside

Spec == Init /\ [][Next]_vars

\* The event loop ticks every 50 ms and each cache is replaced every 5 s;
\* nothing obliges a user, Herdr or the process to do anything.
FairSpec == /\ Spec
            /\ WF_vars(CompleteReconcile)
            /\ \A s \in Sessions : WF_vars(CacheRefresh(s))

-----------------------------------------------------------------------------
\* Properties.

\* bindings.json never gives one key to two panes or two keys to one pane
\* (core.rs validate_bindings, state.rs save): a second registration of a pane
\* must move it and a taken key must be refused, also right after an import or
\* a reconciliation that dropped bindings.
LedgerWellFormed == Valid(ledger)

\* What reconciliation may do to an existing ledger: forget the panes that are
\* missing from the snapshot of a managed session, and nothing else.
SeenToGo(b) == b.pane[1] \in managed /\ cache[b.pane] = Absent
Staying == {b \in ledger : ~SeenToGo(b)}

\* A binding whose pane was not seen to go is lost only to a request for it, which
\* takes no other binding with it: `release --all`, a release of it, or a bind
\* that moves its pane to a free key.  No tick loses it, nor a request that was
\* refused or cut short: these only reconcile.  A dormant binding, whose session
\* is not managed, therefore survives every tick and every restart (README:
\* bindings of an unreachable session "are kept dormant rather than released").
LostOnlyForCause ==
  [][\A b \in Staying \ ledger' :
        /\ ~Reconcile
        /\ \/ ledger' = {}
           \/ ledger' = Staying \ {b}
           \/ \E k \in Keys : /\ ~HasKey(Staying, k) /\ b.pane \in Snapshot
                              /\ ledger' = (Staying \ {b}) \cup {[key |-> k, pane |-> b.pane]}]_vars

\* A key moves from one pane to another in one step only when its old pane is
\* missing from a managed session's snapshot: bind refuses a taken key, dormant
\* owners included.
KeyNeverStolen ==
  [][\A b \in ledger, c \in ledger' :
        b.key = c.key /\ b.pane # c.pane => b.pane[1] \in managed /\ cache[b.pane] = Absent]_vars

\* Once a ledger exists, tokens never feed it: a binding appears only by a bind
\* request that was carried out, for a pane of the snapshot and a key nobody had,
\* and alone.  No tick and no release makes one, nor a request that was cut short,
\* so the tokens a half-finished release leaves behind, or a foreign token, cannot
\* bring a binding back (README: the token is "not the source of truth").
Releases == \/ ReleaseAll
            \/ \E k \in Keys : ReleaseKey(k)
            \/ \E p \in Snapshot : ReleasePane(p)
GrowsOnlyByBind ==
  [][\A c \in ledger' \ ledger :
        hasFile => /\ ~Reconcile /\ ~Releases
                   /\ c.pane \in Snapshot /\ ~HasKey(Staying, c.key)
                   /\ ledger' = {b \in Staying : b.pane # c.pane} \cup {c}]_vars

\* The ledger implements the contract above it.
Contract == INSTANCE BindingContract WITH
  Panes <- PaneRefs, SessionOf <- [p \in PaneRefs |-> p[1]], Nobody <- <<>>,
  owner <- [k \in Keys |-> IF HasKey(ledger, k)
                           THEN (CHOOSE b \in ledger : b.key = k).pane ELSE <<>>],
  established <- hasFile, observed <- managed
ImplementsContract == Contract!Spec

\* When requests, Herdr and restarts fall silent, every live pane of a managed
\* session ends up showing the key the ledger gives it and no other token
\* survives, whatever partial write or stale snapshot came before (core.rs: the
\* reconciliation "will clear any residual fkey token").
MirrorAgrees == \A p \in PaneRefs :
                  p[1] \in managed /\ herdr[p] # Absent => herdr[p] = TokenFor(ledger, p)
MirrorConverges == (<>hasFile /\ <>[][Background]_vars) => <>[]MirrorAgrees

\* How the mirror converges, step by step.  One reconciliation whose snapshot is
\* current and whose writes all succeed repairs every token, from whatever a
\* half-finished operation or an import left; and what it reached stays: no later
\* tick, complete or not, and no refresh undoes it, although the snapshot has
\* the old tokens until the next refresh and the tick writes them again.
Current == \A p \in PaneRefs : p[1] \in managed => cache[p] = herdr[p]
Mirrored == /\ hasFile
            /\ \A p \in PaneRefs : p[1] \in managed =>
                 /\ cache[p] = Absent <=> herdr[p] = Absent
                 /\ IF herdr[p] = Absent THEN ~HasPane(ledger, p)
                                         ELSE herdr[p] = TokenFor(ledger, p)
RepairsStick == [][/\ Current /\ CompleteReconcile => Mirrored'
                   /\ Mirrored /\ Background => Mirrored']_vars

\* A pane comes to show a key only when the saved ledger gives it that key: as
\* reconciliation saved it, or as the request did.  The ledger is saved before
\* a token is written, so a save that fails or a daemon that dies in between
\* leaves no token that a first import could take for a binding nobody made
\* (core.rs bind).
KeysShownAreOwned ==
  [][\A p \in PaneRefs : herdr'[p] \in Keys \ {herdr[p]} =>
        [key |-> herdr'[p], pane |-> p] \in Kept \cup ledger']_vars
=============================================================================

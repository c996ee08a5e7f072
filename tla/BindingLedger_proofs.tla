------------------------ MODULE BindingLedger_proofs ------------------------
(***************************************************************************)
(* Proofs about BindingLedger, for any number of keys, sessions and panes.  *)
(***************************************************************************)
EXTENDS BindingLedger, TLAPS

(* The inductive invariant.  A ledger that exists but is not well-formed     *)
(* would let one reconciliation drop a binding and keep its duplicate, and a *)
(* ledger without a file would lose its bindings to the import of tokens.    *)
NothingWithoutFile == ~hasFile => ledger = {}
IInv == TypeOK /\ LedgerWellFormed /\ NothingWithoutFile

(* Any part of a valid ledger is valid (the `retain` calls of core.rs).      *)
LEMMA PartIsValid ==
  ASSUME NEW L, Valid(L), NEW M \in SUBSET L
  PROVE  Valid(M)
BY DEF Valid

(* What is loaded, once validated, is a well-formed set of bindings, and so  *)
(* is the part of it that reconciliation keeps.                              *)
LEMMA KeptIsValid ==
  ASSUME TypeOK, Valid(Loaded)
  PROVE  Loaded \subseteq Bindings /\ Kept \subseteq Loaded /\ Valid(Kept)
<1>1. Loaded \subseteq Bindings
  <2>1. CASE hasFile
    BY <2>1 DEF Loaded, TypeOK
  <2>2. CASE ~hasFile
    <3>1. Loaded = Imported
      BY <2>2 DEF Loaded
    <3>2. ASSUME NEW b \in Imported PROVE b \in Bindings
      <4>1. b.key \in Keys
        BY <3>1, <3>2 DEF Valid
      <4>2. PICK p \in PaneRefs : b = [key |-> cache[p], pane |-> p]
        BY <3>2 DEF Imported, Snapshot
      <4> QED BY <4>1, <4>2 DEF Bindings
    <3> QED BY <3>1, <3>2
  <2> QED BY <2>1, <2>2
<1>2. Kept \subseteq Loaded
  BY DEF Kept
<1> QED BY <1>1, <1>2, PartIsValid

(* The token a pane should show is a key of its binding, or none.            *)
LEMMA TokenForType ==
  ASSUME NEW L \in SUBSET Bindings, NEW p
  PROVE  TokenFor(L, p) \in Tokens
<1>1. CASE HasPane(L, p)
  <2>1. PICK b \in L : b = CHOOSE c \in L : c.pane = p
    BY <1>1 DEF HasPane
  <2>2. b.key \in Keys
    BY <2>1 DEF Bindings
  <2> QED BY <1>1, <2>1, <2>2, NumKeysAssumption DEF TokenFor, Keys, Tokens
<1>2. CASE ~HasPane(L, p)
  BY <1>2, NumKeysAssumption DEF TokenFor, NoToken, Tokens
<1> QED BY <1>1, <1>2

(* Token writes keep Herdr's tokens well-typed.                              *)
LEMMA WrittenType ==
  ASSUME NEW h \in [PaneRefs -> Tokens \cup {Absent}], NEW w, NEW done,
         \A p \in done : w[p] \in Tokens
  PROVE  Written(h, w, done) \in [PaneRefs -> Tokens \cup {Absent}]
BY DEF Written

(* Every operation that leaves a well-formed ledger and writes proper tokens *)
(* preserves the invariant, wherever it stops.                               *)
LEMMA ServePreserves ==
  ASSUME IInv, NEW after, NEW writes, Serve(after, writes),
         after \subseteq Bindings, Valid(after),
         \A p \in DOMAIN writes : writes[p] \in Tokens
  PROVE  IInv'
<1>1. Kept \subseteq Bindings /\ Valid(Kept)
  BY KeptIsValid DEF IInv, Serve
<1>2. \A p \in DOMAIN Repairs : Repairs[p] \in Tokens
  BY <1>1, TokenForType DEF Repairs
<1>3. herdr \in [PaneRefs -> Tokens \cup {Absent}]
  BY DEF IInv, TypeOK
<1>4. (ledger' \subseteq Bindings) /\ Valid(ledger')
  BY <1>1 DEF Serve
<1>5. herdr' \in [PaneRefs -> Tokens \cup {Absent}]
  <2>1. ASSUME NEW done \in Started(Repairs), herdr' = Written(herdr, Repairs, done)
        PROVE  herdr' \in [PaneRefs -> Tokens \cup {Absent}]
    <3>1. done \subseteq DOMAIN Repairs
      BY DEF Started
    <3> QED BY <1>2, <1>3, <2>1, <3>1, WrittenType
  <2>2. ASSUME NEW done \in SUBSET {p \in DOMAIN writes : Reaches(p)},
               herdr' = Written(Written(herdr, Repairs, DOMAIN Repairs), writes, done)
        PROVE  herdr' \in [PaneRefs -> Tokens \cup {Absent}]
    <3>1. Written(herdr, Repairs, DOMAIN Repairs) \in [PaneRefs -> Tokens \cup {Absent}]
      BY <1>2, <1>3, WrittenType
    <3> QED BY <2>2, <3>1, WrittenType
  <2> QED BY <2>1, <2>2 DEF Serve
<1>6. hasFile' \in BOOLEAN /\ managed' \subseteq Sessions
      /\ cache' \in [PaneRefs -> Tokens \cup {Absent}]
  BY DEF Serve, IInv, TypeOK
<1> QED BY <1>4, <1>5, <1>6 DEF IInv, TypeOK, LedgerWellFormed, NothingWithoutFile, Valid, Serve

(* A key that no kept binding has can be given to a pane that has none.      *)
LEMMA GrantIsValid ==
  ASSUME NEW L \in SUBSET Bindings, Valid(L), NEW k \in Keys, ~HasKey(L, k),
         NEW p \in PaneRefs
  PROVE  LET M == {b \in L : b.pane # p} \cup {[key |-> k, pane |-> p]}
         IN  M \subseteq Bindings /\ Valid(M)
BY DEF Valid, HasKey, Bindings

(* An operation that only removes bindings and clears tokens.                *)
LEMMA RemovalPreserves ==
  ASSUME IInv, NEW after \in SUBSET Kept, NEW P, Serve(after, [q \in P |-> NoToken])
  PROVE  IInv'
<1>1. Kept \subseteq Bindings /\ Valid(Kept)
  BY KeptIsValid DEF IInv, Serve
<1>2. after \subseteq Bindings /\ Valid(after)
  BY <1>1, PartIsValid
<1>3. \A r \in DOMAIN [q \in P |-> NoToken] : [q \in P |-> NoToken][r] \in Tokens
  BY NumKeysAssumption DEF NoToken, Tokens
<1> QED BY <1>2, <1>3, ServePreserves

LEMMA RequestPreserves == ASSUME IInv, Request PROVE IInv'
<1> DEFINE Wellformed(L) == L \subseteq Bindings /\ Valid(L)
<1>1. ASSUME Valid(Loaded) PROVE Wellformed(Kept)
  BY <1>1, KeptIsValid DEF IInv
<1>3. ASSUME NEW p \in Snapshot, NEW requested, Bind(p, requested) PROVE IInv'
  <2>1. \/ Serve(Kept, NoWrites)
        \/ \E k \in Granted(p, requested) :
             Serve({b \in Kept : b.pane # p} \cup {[key |-> k, pane |-> p]}, [q \in {p} |-> k])
    BY <1>3 DEF Bind
  <2>2. p \in PaneRefs
    BY DEF Snapshot
  <2>3. CASE Serve(Kept, NoWrites)
    BY <1>1, <2>3, ServePreserves DEF Serve, NoWrites
  <2>4. ASSUME NEW k \in Granted(p, requested),
               Serve({b \in Kept : b.pane # p} \cup {[key |-> k, pane |-> p]}, [q \in {p} |-> k])
        PROVE  IInv'
    <3>1. k \in Keys /\ ~HasKey(Kept, k)
      BY DEF Granted
    <3>2. Wellformed(Kept)
      BY <1>1, <2>4 DEF Serve
    <3>3. Wellformed({b \in Kept : b.pane # p} \cup {[key |-> k, pane |-> p]})
      BY <2>2, <3>1, <3>2, GrantIsValid
    <3>4. \A r \in DOMAIN [q \in {p} |-> k] : [q \in {p} |-> k][r] \in Tokens
      BY <3>1, NumKeysAssumption DEF Keys, Tokens
    <3> QED BY <2>4, <3>3, <3>4, ServePreserves
  <2> QED BY <2>1, <2>3, <2>4
<1>4. ASSUME NEW p, ReleasePane(p) PROVE IInv'
  <2>1. {b \in Kept : b.pane # p} \in SUBSET Kept
    OBVIOUS
  <2> QED BY <1>4, <2>1, RemovalPreserves DEF ReleasePane
<1>5. ASSUME NEW k \in Keys, ReleaseKey(k) PROVE IInv'
  <2>1. {b \in Kept : b.key # k} \in SUBSET Kept
    OBVIOUS
  <2> QED BY <1>5, <2>1, RemovalPreserves DEF ReleaseKey
<1>6. ASSUME ReleaseAll PROVE IInv'
  <2>1. {} \in SUBSET Kept
    OBVIOUS
  <2> QED BY <1>6, <2>1, RemovalPreserves DEF ReleaseAll
<1> QED BY <1>3, <1>4, <1>5, <1>6 DEF Request

LEMMA CachePreserves ==
  ASSUME IInv, UNCHANGED <<hasFile, ledger>>, managed' \subseteq Sessions,
         cache' \in [PaneRefs -> Tokens \cup {Absent}],
         herdr' \in [PaneRefs -> Tokens \cup {Absent}]
  PROVE  IInv'
BY DEF IInv, TypeOK, LedgerWellFormed, NothingWithoutFile, Valid

LEMMA BackgroundPreserves == ASSUME IInv, Background PROVE IInv'
<1>1. CASE Reconcile
  BY <1>1, KeptIsValid, ServePreserves DEF Reconcile, Serve, NoWrites, IInv
<1>2. ASSUME NEW p \in PaneRefs, CacheEvent(p) PROVE IInv'
  BY <1>2, CachePreserves DEF CacheEvent, IInv, TypeOK
<1>3. ASSUME NEW s \in Sessions, CacheRefresh(s) PROVE IInv'
  BY <1>3, CachePreserves DEF CacheRefresh, IInv, TypeOK
<1> QED BY <1>1, <1>2, <1>3 DEF Background

LEMMA OutsidePreserves == ASSUME IInv, Outside PROVE IInv'
<1>1. ASSUME NEW found \in SUBSET Sessions, Restart(found) PROVE IInv'
  BY <1>1, CachePreserves DEF Restart, IInv, TypeOK
<1>2. ASSUME NEW p \in PaneRefs, PaneOpens(p) \/ PaneCloses(p) \/ TokenLost(p) PROVE IInv'
  <2>1. NoToken \in Tokens \cup {Absent} /\ Absent \in Tokens \cup {Absent}
    BY NumKeysAssumption DEF NoToken, Tokens
  <2> QED BY <1>2, <2>1, CachePreserves
          DEF PaneOpens, PaneCloses, TokenLost, HerdrSets, IInv, TypeOK
<1> QED BY <1>1, <1>2 DEF Outside

LEMMA InitIInv == Init => IInv
BY NumKeysAssumption DEF Init, IInv, TypeOK, LedgerWellFormed, NothingWithoutFile, Valid, Bindings, Tokens

LEMMA NextIInv == IInv /\ [Next]_vars => IInv'
<1> SUFFICES ASSUME IInv, [Next]_vars PROVE IInv'
  OBVIOUS
<1>1. CASE Next
  BY <1>1, RequestPreserves, BackgroundPreserves, OutsidePreserves DEF Next
<1>2. CASE UNCHANGED vars
  BY <1>2 DEF vars, IInv, TypeOK, LedgerWellFormed, NothingWithoutFile, Valid
<1> QED BY <1>1, <1>2

THEOREM Inductive == Spec => []IInv
BY InitIInv, NextIInv, PTL DEF Spec

(* Type correctness of the binding service for every number of keys and panes. *)
THEOREM TypeCorrect == Spec => []TypeOK
<1>1. IInv => TypeOK
  BY DEF IInv
<1> QED BY <1>1, Inductive, PTL

(* bindings.json is well-formed after every step of the service, wherever a  *)
(* handler stops and however stale the snapshot it acted on was.             *)
THEOREM LedgerAlwaysWellFormed == Spec => []LedgerWellFormed
<1>1. IInv => LedgerWellFormed
  BY DEF IInv
<1> QED BY <1>1, Inductive, PTL

-----------------------------------------------------------------------------
(***************************************************************************)
(* What a step may do to the ledger.                                        *)
(***************************************************************************)

(* A binding that reconciliation drops has its pane missing from the         *)
(* snapshot of a managed session, and one it keeps was in the ledger.        *)
LEMMA KeptOfLedger ==
  ASSUME IInv, hasFile
  PROVE  /\ Kept \subseteq ledger
         /\ \A b \in ledger \ Kept : b.pane[1] \in managed /\ cache[b.pane] = Absent
BY DEF IInv, TypeOK, Bindings, Kept, Loaded, Snapshot

(* Steps that leave the ledger alone.                                        *)
LEMMA QuietSteps ==
  ASSUME [Next]_vars
  PROVE  \/ ledger' = ledger
         \/ Reconcile
         \/ ReleaseAll
         \/ \E k \in Keys : ReleaseKey(k)
         \/ \E p \in Snapshot : ReleasePane(p)
         \/ \E p \in Snapshot, requested \in Keys \cup {AnyKey} : Bind(p, requested)
BY DEF Next, Request, Background, Outside, vars, CacheEvent, CacheRefresh, Restart,
       PaneOpens, PaneCloses, TokenLost, HerdrSets

(* A bind step, spelled out: it adds one binding, of a key nobody has.       *)
LEMMA BindStep ==
  ASSUME NEW p, NEW requested, Bind(p, requested)
  PROVE  \/ ledger' = Kept
         \/ \E k \in Granted(p, requested) :
              ledger' = {b \in Kept : b.pane # p} \cup {[key |-> k, pane |-> p]}
<1>1. CASE Serve(Kept, NoWrites)
  BY <1>1 DEF Serve
<1>2. ASSUME NEW k \in Granted(p, requested),
             Serve({b \in Kept : b.pane # p} \cup {[key |-> k, pane |-> p]}, [q \in {p} |-> k])
      PROVE  \/ ledger' = Kept
             \/ ledger' = {b \in Kept : b.pane # p} \cup {[key |-> k, pane |-> p]}
  BY <1>2 DEF Serve
<1> QED BY <1>1, <1>2 DEF Bind

(* A release step only removes bindings from what reconciliation keeps.      *)
LEMMA ReleaseStep ==
  ASSUME \/ Reconcile \/ ReleaseAll
         \/ \E k \in Keys : ReleaseKey(k)
         \/ \E p : ReleasePane(p)
  PROVE  ledger' \subseteq Kept
BY DEF Reconcile, ReleaseAll, ReleaseKey, ReleasePane, Serve

(* A served operation validated what it loaded; without a file that is what  *)
(* the tokens said.                                                          *)
LEMMA ServedIsValid ==
  ASSUME IInv,
         \/ Reconcile \/ ReleaseAll
         \/ \E k \in Keys : ReleaseKey(k)
         \/ \E p : ReleasePane(p)
         \/ \E p, requested : Bind(p, requested)
  PROVE  Valid(Kept)
<1>1. Valid(Loaded)
  BY DEF Reconcile, ReleaseAll, ReleaseKey, ReleasePane, Bind, Serve
<1> QED BY <1>1, KeptIsValid DEF IInv

-----------------------------------------------------------------------------
(* A key is never taken from a pane that is there, or that may be there:     *)
(* bind refuses it, dormant owners included.                                 *)
StealsNothing == \A b \in ledger, c \in ledger' :
   b.key = c.key /\ b.pane # c.pane => b.pane[1] \in managed /\ cache[b.pane] = Absent

LEMMA StepStealsNothing == IInv /\ [Next]_vars => StealsNothing
<1> SUFFICES ASSUME IInv, [Next]_vars, NEW b \in ledger, NEW c \in ledger',
                    b.key = c.key, b.pane # c.pane
             PROVE  b.pane[1] \in managed /\ cache[b.pane] = Absent
  BY DEF StealsNothing
<1>1. hasFile
  BY DEF IInv, NothingWithoutFile
<1>2. CASE ledger' = ledger
  BY <1>2 DEF IInv, LedgerWellFormed, Valid
<1>3. ASSUME Valid(Kept), ledger' \subseteq Kept
      PROVE  b.pane[1] \in managed /\ cache[b.pane] = Absent
  <2>1. b \notin Kept
    BY <1>3 DEF Valid
  <2> QED BY <1>1, <2>1, KeptOfLedger
<1>4. ASSUME NEW p, NEW requested, Bind(p, requested)
      PROVE  b.pane[1] \in managed /\ cache[b.pane] = Absent
  <2>1. Valid(Kept)
    BY <1>4, ServedIsValid
  <2>2. \/ ledger' = Kept
        \/ \E k \in Granted(p, requested) :
             ledger' = {d \in Kept : d.pane # p} \cup {[key |-> k, pane |-> p]}
    BY <1>4, BindStep
  <2>3. CASE ledger' = Kept
    BY <1>3, <2>1, <2>3
  <2>4. ASSUME NEW k \in Granted(p, requested),
               ledger' = {d \in Kept : d.pane # p} \cup {[key |-> k, pane |-> p]}
        PROVE  b \notin Kept
    <3>1. CASE c \in Kept
      BY <2>1, <3>1 DEF Valid
    <3>2. CASE c = [key |-> k, pane |-> p]
      BY <3>2 DEF Granted, HasKey
    <3> QED BY <2>4, <3>1, <3>2
  <2> QED BY <1>1, <2>2, <2>3, <2>4, KeptOfLedger
<1> QED BY <1>2, <1>3, <1>4, QuietSteps, ReleaseStep, ServedIsValid

THEOREM NeverStolen == Spec => KeyNeverStolen
<1>1. IInv /\ [Next]_vars => [StealsNothing]_vars
  BY StepStealsNothing
<1> QED BY <1>1, Inductive, PTL DEF Spec, KeyNeverStolen, StealsNothing

-----------------------------------------------------------------------------
(* What reconciliation keeps of an existing ledger is all that was not seen  *)
(* to go.                                                                    *)
LEMMA KeptIsStaying == ASSUME hasFile PROVE Kept = Staying
BY DEF Kept, Loaded, Staying, SeenToGo

(* A request that was not merely reconciled leaves what it asked for.        *)
LEMMA ReleaseResults ==
  ASSUME ReleaseAll \/ (\E k \in Keys : ReleaseKey(k)) \/ (\E p \in Snapshot : ReleasePane(p))
  PROVE  \/ ledger' = Kept
         \/ ledger' = {}
         \/ \E k \in Keys : ledger' = {b \in Kept : b.key # k}
         \/ \E p \in Snapshot : ledger' = {b \in Kept : b.pane # p}
BY DEF ReleaseAll, ReleaseKey, ReleasePane, Serve

(* A bind step that changes the ledger beyond reconciling it gives one pane  *)
(* of the snapshot one key that nobody had.                                  *)
LEMMA BindResults ==
  ASSUME NEW p \in Snapshot, NEW requested \in Keys \cup {AnyKey}, Bind(p, requested)
  PROVE  \/ ledger' = Kept
         \/ \E k \in Keys : /\ ~HasKey(Kept, k)
                            /\ ledger' = {b \in Kept : b.pane # p} \cup {[key |-> k, pane |-> p]}
BY BindStep DEF Granted

-----------------------------------------------------------------------------
(* Tokens never feed an existing ledger: no tick and no release adds a       *)
(* binding, and a bind adds the one it was asked for.                        *)
GrowsByBind == \A c \in ledger' \ ledger :
   hasFile => /\ ~Reconcile /\ ~Releases
              /\ c.pane \in Snapshot /\ ~HasKey(Staying, c.key)
              /\ ledger' = {b \in Staying : b.pane # c.pane} \cup {c}

LEMMA StepGrowsByBind == IInv /\ [Next]_vars => GrowsByBind
<1> SUFFICES ASSUME IInv, [Next]_vars, NEW c \in ledger' \ ledger, hasFile
             PROVE  /\ ~Reconcile /\ ~Releases
                    /\ c.pane \in Snapshot /\ ~HasKey(Staying, c.key)
                    /\ ledger' = {b \in Staying : b.pane # c.pane} \cup {c}
  BY DEF GrowsByBind
<1>1. Kept \subseteq ledger /\ Kept = Staying
  BY KeptOfLedger, KeptIsStaying
<1>2. ~Reconcile /\ ~Releases
  BY <1>1, ReleaseStep DEF Releases
<1>3. PICK p \in Snapshot, requested \in Keys \cup {AnyKey} : Bind(p, requested)
  BY <1>2, QuietSteps DEF Releases
<1>4. PICK k \in Keys : /\ ~HasKey(Kept, k)
                        /\ ledger' = {b \in Kept : b.pane # p} \cup {[key |-> k, pane |-> p]}
  BY <1>1, <1>3, BindResults
<1>5. c = [key |-> k, pane |-> p]
  BY <1>1, <1>4
<1> QED BY <1>1, <1>2, <1>4, <1>5

THEOREM NeverFedByTokens == Spec => GrowsOnlyByBind
<1>1. IInv /\ [Next]_vars => [GrowsByBind]_vars
  BY StepGrowsByBind
<1> QED BY <1>1, Inductive, PTL DEF Spec, GrowsOnlyByBind, GrowsByBind

-----------------------------------------------------------------------------
(* A binding whose pane was not seen to go is lost only to a request for it, *)
(* and alone: no tick, however stale its snapshot, loses a dormant one.      *)
LostForCause == \A b \in Staying \ ledger' :
   /\ ~Reconcile
   /\ \/ ledger' = {}
      \/ ledger' = Staying \ {b}
      \/ \E k \in Keys : /\ ~HasKey(Staying, k) /\ b.pane \in Snapshot
                         /\ ledger' = (Staying \ {b}) \cup {[key |-> k, pane |-> b.pane]}

LEMMA StepLostForCause == IInv /\ [Next]_vars => LostForCause
<1> SUFFICES ASSUME IInv, [Next]_vars, NEW b \in Staying \ ledger'
             PROVE  /\ ~Reconcile
                    /\ \/ ledger' = {}
                       \/ ledger' = Staying \ {b}
                       \/ \E k \in Keys :
                            /\ ~HasKey(Staying, k) /\ b.pane \in Snapshot
                            /\ ledger' = (Staying \ {b}) \cup {[key |-> k, pane |-> b.pane]}
  BY DEF LostForCause
<1>1. b \in ledger /\ hasFile
  BY DEF Staying, IInv, NothingWithoutFile
<1>2. Kept = Staying /\ b \in Kept
  BY <1>1, KeptIsStaying
<1>3. ledger' # ledger /\ ledger' # Kept
  BY <1>1, <1>2
<1>4. ~Reconcile
  BY <1>3 DEF Reconcile, Serve
<1>5. \A c \in Kept : c.key = b.key \/ c.pane = b.pane => c = b
  BY <1>1, <1>2 DEF IInv, LedgerWellFormed, Valid, Staying
<1>6. ASSUME NEW p \in Snapshot, b.pane = p PROVE {c \in Kept : c.pane # p} = Staying \ {b}
  BY <1>2, <1>5, <1>6
<1>7. CASE ReleaseAll \/ (\E k \in Keys : ReleaseKey(k)) \/ (\E p \in Snapshot : ReleasePane(p))
  <2>1. ASSUME NEW k \in Keys, ledger' = {c \in Kept : c.key # k} PROVE ledger' = Staying \ {b}
    <3>1. b.key = k
      BY <1>2, <2>1
    <3> QED BY <1>2, <1>5, <2>1, <3>1
  <2>2. ASSUME NEW p \in Snapshot, ledger' = {c \in Kept : c.pane # p} PROVE ledger' = Staying \ {b}
    <3>1. b.pane = p
      BY <1>2, <2>2
    <3> QED BY <1>6, <2>2, <3>1
  <2> QED BY <1>3, <1>4, <1>7, <2>1, <2>2, ReleaseResults
<1>8. ASSUME NEW p \in Snapshot, NEW requested \in Keys \cup {AnyKey}, Bind(p, requested)
      PROVE  \E k \in Keys : /\ ~HasKey(Staying, k) /\ b.pane \in Snapshot
                             /\ ledger' = (Staying \ {b}) \cup {[key |-> k, pane |-> b.pane]}
  <2>1. PICK k \in Keys : /\ ~HasKey(Kept, k)
                          /\ ledger' = {c \in Kept : c.pane # p} \cup {[key |-> k, pane |-> p]}
    BY <1>3, <1>8, BindResults
  <2>2. b.pane = p
    BY <1>2, <2>1
  <2> QED BY <1>2, <1>6, <2>1, <2>2
<1> QED BY <1>3, <1>4, <1>7, <1>8, QuietSteps

THEOREM LostForCauseOnly == Spec => LostOnlyForCause
<1>1. IInv /\ [Next]_vars => [LostForCause]_vars
  BY StepLostForCause
<1> QED BY <1>1, Inductive, PTL DEF Spec, LostOnlyForCause, LostForCause

-----------------------------------------------------------------------------
(***************************************************************************)
(* BindingLedger implements BindingContract, for any number of keys,        *)
(* sessions and panes: every step of the service, wherever it stops, is one *)
(* step of the contract or leaves its state alone.                          *)
(***************************************************************************)

\* Only panes of managed sessions are seen.

SeenAreManaged == \A p \in Snapshot : p[1] \in managed

LEMMA AlwaysSeenAreManaged == Spec => []SeenAreManaged
<1>1. Init => SeenAreManaged
  BY DEF Init, SeenAreManaged, Snapshot
<1>2. TypeOK /\ SeenAreManaged /\ [Next]_vars => SeenAreManaged'
  <2> SUFFICES ASSUME TypeOK, SeenAreManaged, [Next]_vars
               PROVE  SeenAreManaged'
    OBVIOUS
  <2>1. CASE UNCHANGED <<managed, cache>>
    BY <2>1 DEF SeenAreManaged, Snapshot
  <2>2. ASSUME NEW p \in PaneRefs, CacheEvent(p) PROVE SeenAreManaged'
    BY <2>2 DEF CacheEvent, SeenAreManaged, Snapshot, TypeOK
  <2>3. ASSUME NEW s \in Sessions, CacheRefresh(s) PROVE SeenAreManaged'
    BY <2>3 DEF CacheRefresh, SeenAreManaged, Snapshot
  <2>4. ASSUME NEW found, Restart(found) PROVE SeenAreManaged'
    BY <2>4 DEF Restart, SeenAreManaged, Snapshot
  <2> QED
    BY <2>1, <2>2, <2>3, <2>4
    DEF Next, Request, Background, Outside, vars, Reconcile, Bind, ReleasePane, ReleaseKey,
        ReleaseAll, Serve, PaneOpens, PaneCloses, TokenLost, HerdrSets
<1> QED
  BY <1>1, <1>2, TypeCorrect, PTL DEF Spec

-----------------------------------------------------------------------------
\* The owners that a ledger gives the keys, as the refinement mapping does.

OwnerOf(L) == [k \in Keys |-> IF HasKey(L, k)
                              THEN (CHOOSE b \in L : b.key = k).pane ELSE <<>>]

LEMMA NobodyIsNoPane == <<>> \notin PaneRefs
BY PaneRefsAssumption

\* A valid ledger has one owner for each of its keys.
LEMMA OwnerIs ==
  ASSUME NEW L \in SUBSET Bindings, Valid(L), NEW k \in Keys
  PROVE  /\ ~HasKey(L, k) => OwnerOf(L)[k] = <<>>
         /\ HasKey(L, k) => OwnerOf(L)[k] # <<>>
         /\ \A b \in L : b.key = k => OwnerOf(L)[k] = b.pane
<1>1. CASE HasKey(L, k)
  <2>1. PICK b \in L : b.key = k
    BY <1>1 DEF HasKey
  <2>2. (CHOOSE c \in L : c.key = k) = b
    BY <2>1 DEF Valid
  <2>3. OwnerOf(L)[k] = b.pane
    BY <1>1, <2>2 DEF OwnerOf
  <2>4. b.pane \in PaneRefs
    BY <2>1 DEF Bindings
  <2> QED
    BY <1>1, <2>1, <2>3, <2>4, NobodyIsNoPane DEF Valid
<1>2. CASE ~HasKey(L, k)
  BY <1>2 DEF OwnerOf, HasKey
<1> QED
  BY <1>1, <1>2

\* Its owners are panes, and no pane has two keys.
LEMMA OwnersExclusive ==
  ASSUME NEW L \in SUBSET Bindings, Valid(L)
  PROVE  /\ OwnerOf(L) \in [Keys -> PaneRefs \cup {<<>>}]
         /\ \A j, k \in Keys : OwnerOf(L)[j] = OwnerOf(L)[k] /\ OwnerOf(L)[j] # <<>> => j = k
<1>1. ASSUME NEW k \in Keys
      PROVE  \/ OwnerOf(L)[k] = <<>>
             \/ \E b \in L : b.key = k /\ b.pane = OwnerOf(L)[k]
  BY <1>1, OwnerIs DEF HasKey
<1>2. OwnerOf(L) \in [Keys -> PaneRefs \cup {<<>>}]
  <2>1. \A k \in Keys : OwnerOf(L)[k] \in PaneRefs \cup {<<>>}
    BY <1>1 DEF Bindings
  <2> QED
    BY <2>1 DEF OwnerOf
<1>3. \A j, k \in Keys : OwnerOf(L)[j] = OwnerOf(L)[k] /\ OwnerOf(L)[j] # <<>> => j = k
  BY <1>1 DEF Valid
<1> QED
  BY <1>2, <1>3

-----------------------------------------------------------------------------
\* The contract's steps in terms of the owners of a ledger.

LEMMA ContractState ==
  /\ Contract!vars = <<OwnerOf(ledger), hasFile, managed>>
  /\ Contract!vars' = <<OwnerOf(ledger'), hasFile', managed'>>
BY DEF Contract!vars, OwnerOf, HasKey

\* The keys that reconciliation drops.
Dropped == {k \in Keys : HasKey(ledger, k) /\ ~HasKey(Kept, k)}

LEMMA DroppedAreGone ==
  ASSUME IInv, hasFile
  PROVE  Contract!Gone(Dropped)
<1>1. ledger \in SUBSET Bindings /\ Valid(ledger)
  BY DEF IInv, TypeOK, LedgerWellFormed
<1>2. ASSUME NEW k \in Dropped
      PROVE  OwnerOf(ledger)[k] # <<>> /\ OwnerOf(ledger)[k] \in PaneRefs
             /\ OwnerOf(ledger)[k][1] \in managed
  <2>1. PICK b \in ledger : b.key = k
    BY <1>2 DEF Dropped, HasKey
  <2>2. b \notin Kept /\ k \in Keys
    BY <1>2, <2>1 DEF Dropped, HasKey
  <2>3. b.pane[1] \in managed
    BY <2>1, <2>2, KeptOfLedger
  <2>4. OwnerOf(ledger)[k] = b.pane /\ b.pane \in PaneRefs
    BY <1>1, <2>1, <2>2, OwnerIs DEF Bindings
  <2> QED
    BY <2>3, <2>4, NobodyIsNoPane
<1> QED
  BY <1>2 DEF Contract!Gone, Dropped, OwnerOf

\* Owners after reconciliation: those that were dropped own nothing.
LEMMA OwnersKept ==
  ASSUME IInv, hasFile, NEW k \in Keys
  PROVE  OwnerOf(Kept)[k] = IF k \in Dropped THEN <<>> ELSE OwnerOf(ledger)[k]
<1>1. /\ ledger \in SUBSET Bindings /\ Valid(ledger)
      /\ Kept \subseteq ledger
  BY KeptOfLedger DEF IInv, TypeOK, LedgerWellFormed
<1>2. Kept \in SUBSET Bindings /\ Valid(Kept)
  BY <1>1, PartIsValid
<1>3. CASE HasKey(Kept, k)
  <2>1. PICK b \in Kept : b.key = k
    BY <1>3 DEF HasKey
  <2>2. OwnerOf(Kept)[k] = b.pane /\ OwnerOf(ledger)[k] = b.pane
    BY <1>1, <1>2, <2>1, OwnerIs
  <2> QED
    BY <1>3, <2>2 DEF Dropped
<1>4. CASE ~HasKey(Kept, k)
  <2>1. OwnerOf(Kept)[k] = <<>>
    BY <1>2, <1>4, OwnerIs
  <2>2. k \notin Dropped => OwnerOf(ledger)[k] = <<>>
    BY <1>1, <1>4, OwnerIs DEF Dropped
  <2> QED
    BY <2>1, <2>2
<1> QED
  BY <1>3, <1>4

\* A step that keeps what reconciliation keeps, but for the keys of R.
LEMMA RemovalIsFree ==
  ASSUME IInv, hasFile, UNCHANGED <<hasFile, managed>>,
         NEW R \in SUBSET Keys, R = {} \/ R = Keys \/ \E k \in Keys : R = {k},
         ledger' = {b \in Kept : b.key \notin R}
  PROVE  Contract!Serve
<1>1. Kept \in SUBSET Bindings /\ Valid(Kept)
  <2>1. ledger \in SUBSET Bindings /\ Valid(ledger) /\ Kept \subseteq ledger
    BY KeptOfLedger DEF IInv, TypeOK, LedgerWellFormed
  <2> QED
    BY <2>1, PartIsValid
<1>2. ledger' \in SUBSET Bindings /\ Valid(ledger')
  BY <1>1, PartIsValid
<1>3. ASSUME NEW k \in Keys
      PROVE  OwnerOf(ledger')[k] = IF k \in Dropped \cup R THEN <<>> ELSE OwnerOf(ledger)[k]
  <2>1. CASE k \in R
    <3>1. ~HasKey(ledger', k)
      BY <2>1 DEF HasKey
    <3> QED
      BY <1>2, <2>1, <3>1, OwnerIs
  <2>2. CASE k \notin R
    <3>1. OwnerOf(ledger')[k] = OwnerOf(Kept)[k]
      <4>1. CASE HasKey(Kept, k)
        <5>1. PICK b \in Kept : b.key = k
          BY <4>1 DEF HasKey
        <5>2. b \in ledger'
          BY <2>2, <5>1
        <5> QED
          BY <1>1, <1>2, <5>1, <5>2, OwnerIs
      <4>2. CASE ~HasKey(Kept, k)
        <5>1. ~HasKey(ledger', k)
          BY <4>2 DEF HasKey
        <5> QED
          BY <1>1, <1>2, <4>2, <5>1, OwnerIs
      <4> QED
        BY <4>1, <4>2
    <3> QED
      BY <2>2, <3>1, OwnersKept
  <2> QED
    BY <2>1, <2>2
<1>4. OwnerOf(ledger') = [k \in Keys |-> IF k \in Dropped \cup R THEN <<>>
                                        ELSE OwnerOf(ledger)[k]]
  <2>1. OwnerOf(ledger') = [k \in Keys |-> OwnerOf(ledger')[k]]
    BY DEF OwnerOf
  <2> QED
    BY <1>3, <2>1
<1>5. Contract!Free(Dropped, R)
  BY <1>4, DroppedAreGone DEF Contract!Free, Contract!Freed, OwnerOf, HasKey
<1>6. Dropped \in SUBSET Keys
  BY DEF Dropped
<1>7. PICK K \in SUBSET Keys : K = Dropped
  BY <1>6
<1>8. Contract!Free(K, R)
  BY <1>5, <1>7 DEF Contract!Free
<1> QED
  BY <1>8 DEF Contract!Serve

\* A step that gives a key nobody has after reconciliation to a pane that is seen.
LEMMA BindIsGrant ==
  ASSUME IInv, hasFile, UNCHANGED <<hasFile, managed>>,
         NEW p \in PaneRefs, p[1] \in managed,
         NEW key \in Keys, ~HasKey(Kept, key),
         ledger' = {b \in Kept : b.pane # p} \cup {[key |-> key, pane |-> p]}
  PROVE  Contract!Serve
<1>1. /\ ledger \in SUBSET Bindings /\ Valid(ledger)
      /\ Kept \subseteq ledger /\ Kept \in SUBSET Bindings /\ Valid(Kept)
  <2>1. ledger \in SUBSET Bindings /\ Valid(ledger) /\ Kept \subseteq ledger
    BY KeptOfLedger DEF IInv, TypeOK, LedgerWellFormed
  <2> QED
    BY <2>1, PartIsValid
<1>2. ledger' \in SUBSET Bindings /\ Valid(ledger')
  BY <1>1, GrantIsValid
<1>3. OwnerOf(ledger')[key] = p
  <2>1. [key |-> key, pane |-> p] \in ledger'
    OBVIOUS
  <2> QED
    BY <1>2, <2>1, OwnerIs
<1>4. ASSUME NEW j \in Keys, j # key
      PROVE  OwnerOf(ledger')[j] = IF OwnerOf(ledger)[j] = p THEN <<>> ELSE OwnerOf(Kept)[j]
  <2>1. CASE HasKey(ledger', j)
    <3>1. PICK b \in ledger' : b.key = j
      BY <2>1 DEF HasKey
    <3>2. b \in Kept /\ b.pane # p
      BY <1>4, <3>1
    <3>3. OwnerOf(ledger')[j] = b.pane /\ OwnerOf(Kept)[j] = b.pane
          /\ OwnerOf(ledger)[j] = b.pane
      BY <1>1, <1>2, <3>1, <3>2, OwnerIs
    <3> QED
      BY <3>2, <3>3
  <2>2. CASE ~HasKey(ledger', j)
    <3>1. OwnerOf(ledger')[j] = <<>>
      BY <1>2, <2>2, OwnerIs
    <3>2. CASE HasKey(Kept, j)
      <4>1. PICK b \in Kept : b.key = j
        BY <3>2 DEF HasKey
      <4>2. b.pane = p
        BY <2>2, <4>1 DEF HasKey
      <4>3. OwnerOf(ledger)[j] = p
        BY <1>1, <4>1, <4>2, OwnerIs
      <4> QED
        BY <3>1, <4>3
    <3>3. CASE ~HasKey(Kept, j)
      BY <1>1, <3>1, <3>3, OwnerIs
    <3> QED
      BY <3>2, <3>3
  <2> QED
    BY <2>1, <2>2
<1>5. OwnerOf(ledger') =
        [j \in Keys |-> IF j = key THEN p
                        ELSE IF OwnerOf(ledger)[j] = p THEN <<>>
                        ELSE IF j \in Dropped THEN <<>> ELSE OwnerOf(ledger)[j]]
  <2>1. OwnerOf(ledger') = [j \in Keys |-> OwnerOf(ledger')[j]]
    BY DEF OwnerOf
  <2> QED
    BY <1>3, <1>4, <2>1, OwnersKept
<1>6. (IF key \in Dropped THEN <<>> ELSE OwnerOf(ledger)[key]) = <<>>
  <2>1. OwnerOf(Kept)[key] = <<>>
    BY <1>1, OwnerIs
  <2> QED
    BY <2>1, OwnersKept
<1>7. Contract!Grant(Dropped, key, p)
  BY <1>5, <1>6, DroppedAreGone DEF Contract!Grant, Contract!Freed, OwnerOf, HasKey
<1>8. Dropped \in SUBSET Keys
  BY DEF Dropped
<1> QED
  BY <1>7, <1>8 DEF Contract!Serve

\* The first save starts from what the tokens said, or from a part of it.
LEMMA FirstSaveIsStart ==
  ASSUME ~hasFile, hasFile', UNCHANGED managed, IInv'
  PROVE  Contract!Start
<1>1. ledger' \in SUBSET Bindings /\ Valid(ledger')
  BY DEF IInv, TypeOK, LedgerWellFormed, Valid
<1>2. /\ OwnerOf(ledger') \in [Keys -> PaneRefs \cup {<<>>}]
      /\ \A j, k \in Keys : OwnerOf(ledger')[j] = OwnerOf(ledger')[k]
                            /\ OwnerOf(ledger')[j] # <<>> => j = k
  BY <1>1, OwnersExclusive
<1> QED
  BY <1>2 DEF Contract!Start, Contract!Exclusive, OwnerOf, HasKey

-----------------------------------------------------------------------------
\* A served operation, once a ledger exists.
LEMMA ServedIsServe ==
  ASSUME IInv, SeenAreManaged, hasFile, Request \/ Reconcile
  PROVE  Contract!Serve
<1>1. hasFile' = TRUE /\ UNCHANGED managed
  BY DEF Request, Reconcile, Bind, ReleasePane, ReleaseKey, ReleaseAll, Serve
<1>2. UNCHANGED <<hasFile, managed>>
  BY <1>1 DEF IInv, TypeOK
<1>3. CASE ledger' = Kept
  <2>1. {} \in SUBSET Keys /\ ledger' = {b \in Kept : b.key \notin {}}
    BY <1>3
  <2> QED
    BY <1>2, <2>1, RemovalIsFree, Zenon
<1>4. ASSUME NEW k \in Keys, ReleaseKey(k) PROVE Contract!Serve
  <2>1. ledger' = Kept \/ ledger' = {b \in Kept : b.key \notin {k}}
    BY <1>4 DEF ReleaseKey, Serve
  <2> QED
    BY <1>2, <1>3, <2>1, RemovalIsFree
<1>5. ASSUME ReleaseAll PROVE Contract!Serve
  <2>1. ledger' = Kept \/ ledger' = {}
    BY <1>5 DEF ReleaseAll, Serve
  <2>2. {} = {b \in Kept : b.key \notin Keys}
    BY KeptOfLedger DEF IInv, TypeOK, Bindings
  <2> QED
    BY <1>2, <1>3, <2>1, <2>2, RemovalIsFree
<1>6. ASSUME NEW p, ReleasePane(p) PROVE Contract!Serve
  <2>1. ledger' = Kept \/ ledger' = {b \in Kept : b.pane # p}
    BY <1>6 DEF ReleasePane, Serve
  <2>2. CASE ledger' = {b \in Kept : b.pane # p} /\ HasPane(Kept, p)
    <3>1. PICK b \in Kept : b.pane = p
      BY <2>2 DEF HasPane
    <3>2. b.key \in Keys /\ \A c \in Kept : c.pane = p <=> c.key \in {b.key}
      BY <3>1, KeptOfLedger DEF IInv, TypeOK, LedgerWellFormed, Valid
    <3>3. ledger' = {c \in Kept : c.key \notin {b.key}}
      BY <2>2, <3>2
    <3> QED
      BY <1>2, <3>2, <3>3, RemovalIsFree
  <2>3. CASE ledger' = {b \in Kept : b.pane # p} /\ ~HasPane(Kept, p)
    <3>1. ledger' = Kept
      BY <2>3 DEF HasPane
    <3> QED
      BY <1>3, <3>1
  <2> QED
    BY <1>3, <2>1, <2>2, <2>3
<1>7. ASSUME NEW p \in Snapshot, NEW requested, Bind(p, requested) PROVE Contract!Serve
  <2>1. p \in PaneRefs /\ p[1] \in managed
    BY DEF SeenAreManaged, Snapshot
  <2>2. ASSUME NEW k \in Granted(p, requested),
               ledger' = {b \in Kept : b.pane # p} \cup {[key |-> k, pane |-> p]}
        PROVE  Contract!Serve
    <3>1. k \in Keys /\ ~HasKey(Kept, k)
      BY DEF Granted
    <3> QED
      BY <1>2, <2>1, <2>2, <3>1, BindIsGrant
  <2> QED
    BY <1>3, <1>7, <2>2, BindStep
<1>8. CASE Reconcile
  BY <1>3, <1>8 DEF Reconcile, Serve
<1> QED
  BY <1>4, <1>5, <1>6, <1>7, <1>8 DEF Request

\* The ledger implements the contract: keys are exclusive, change hands only by
\* being freed first, and dormant ones are freed only on request, whatever step
\* of a handler is the last (core.rs BindingService).
THEOREM LedgerImplementsContract == Spec => ImplementsContract
<1>1. Init => Contract!Init
  <2> SUFFICES ASSUME Init PROVE Contract!Init
    OBVIOUS
  <2>1. hasFile = FALSE /\ ledger = {} /\ managed \in SUBSET Sessions
    BY DEF Init
  <2> QED
    BY <2>1 DEF Contract!Init, HasKey
<1>2. IInv /\ IInv' /\ SeenAreManaged /\ [Next]_vars => [Contract!Next]_Contract!vars
  <2> SUFFICES ASSUME IInv, IInv', SeenAreManaged, [Next]_vars
               PROVE  Contract!Next \/ Contract!vars' = Contract!vars
    OBVIOUS
  <2>1. CASE (Request \/ Reconcile) /\ hasFile
    BY <2>1, ServedIsServe DEF Contract!Next
  <2>2. CASE (Request \/ Reconcile) /\ ~hasFile
    <3>1. hasFile' /\ UNCHANGED managed
      BY <2>2 DEF Request, Reconcile, Bind, ReleasePane, ReleaseKey, ReleaseAll, Serve
    <3> QED
      BY <2>2, <3>1, FirstSaveIsStart DEF Contract!Next
  <2>3. ASSUME NEW found \in SUBSET Sessions, Restart(found) PROVE Contract!Next
    BY <2>3 DEF Restart, Contract!Next, Contract!Observe, HasKey
  <2>4. CASE UNCHANGED <<hasFile, ledger, managed>>
    BY <2>4, ContractState
  <2> QED
    BY <2>1, <2>2, <2>3, <2>4
    DEF Next, Background, Outside, vars, CacheEvent, CacheRefresh, PaneOpens, PaneCloses,
        TokenLost, HerdrSets
<1> QED
  BY <1>1, <1>2, Inductive, AlwaysSeenAreManaged, PTL DEF Spec, ImplementsContract, Contract!Spec

-----------------------------------------------------------------------------
(***************************************************************************)
(* Tokens.                                                                  *)
(***************************************************************************)

\* Reconciliation writes a pane the key of its binding, or clears its token.
LEMMA RepairWrites ==
  ASSUME IInv, Valid(Loaded), NEW p \in DOMAIN Repairs
  PROVE  /\ p \in Snapshot /\ Repairs[p] = TokenFor(Kept, p) /\ Repairs[p] \in Tokens
         /\ Repairs[p] \in Keys => [key |-> Repairs[p], pane |-> p] \in Kept
<1>1. p \in Snapshot /\ Repairs[p] = TokenFor(Kept, p)
  BY DEF Repairs
<1>2. Kept \subseteq Bindings
  BY KeptIsValid DEF IInv
<1>3. Repairs[p] \in Tokens
  BY <1>1, <1>2, TokenForType
<1>4. ASSUME Repairs[p] \in Keys PROVE [key |-> Repairs[p], pane |-> p] \in Kept
  <2>1. HasPane(Kept, p)
    BY <1>1, <1>4, NumKeysAssumption DEF TokenFor, NoToken, Keys
  <2>2. PICK b \in Kept : b = (CHOOSE c \in Kept : c.pane = p) /\ b.pane = p
    BY <2>1 DEF HasPane
  <2>3. b = [key |-> b.key, pane |-> b.pane]
    BY <1>2 DEF Bindings
  <2> QED
    BY <1>1, <2>1, <2>2, <2>3 DEF TokenFor
<1> QED
  BY <1>1, <1>3, <1>4

\* An operation that writes only keys it saved shows only keys that were saved.
LEMMA ServeShowsOwned ==
  ASSUME IInv, NEW after, NEW writes, Serve(after, writes),
         \A q \in DOMAIN writes : writes[q] \in Keys => [key |-> writes[q], pane |-> q] \in after,
         NEW p \in PaneRefs, herdr'[p] \in Keys, herdr'[p] # herdr[p]
  PROVE  [key |-> herdr'[p], pane |-> p] \in Kept \cup ledger'
<1>1. Valid(Loaded)
  BY DEF Serve
<1>2. ASSUME NEW done \in Started(Repairs), herdr' = Written(herdr, Repairs, done)
      PROVE  [key |-> herdr'[p], pane |-> p] \in Kept \cup ledger'
  <2>1. p \in done /\ herdr'[p] = Repairs[p]
    BY <1>2 DEF Written
  <2>2. p \in DOMAIN Repairs
    BY <2>1 DEF Started
  <2> QED
    BY <1>1, <2>1, <2>2, RepairWrites
<1>3. ASSUME ledger' = after, NEW done \in SUBSET {q \in DOMAIN writes : Reaches(q)},
             herdr' = Written(Written(herdr, Repairs, DOMAIN Repairs), writes, done)
      PROVE  [key |-> herdr'[p], pane |-> p] \in Kept \cup ledger'
  <2>1. CASE p \in done
    BY <1>3, <2>1 DEF Written
  <2>2. CASE p \notin done
    <3>1. p \in DOMAIN Repairs /\ herdr'[p] = Repairs[p]
      BY <1>3, <2>2 DEF Written
    <3> QED
      BY <1>1, <3>1, RepairWrites
  <2> QED
    BY <2>1, <2>2
<1> QED
  BY <1>2, <1>3 DEF Serve

\* A pane comes to show a key only when the saved ledger gives it that key,
\* wherever the operation stops (core.rs saves before it writes).
ShownAreOwned == \A p \in PaneRefs : herdr'[p] \in Keys \ {herdr[p]} =>
                    [key |-> herdr'[p], pane |-> p] \in Kept \cup ledger'

LEMMA StepShowsOwned == IInv /\ [Next]_vars => ShownAreOwned
<1> SUFFICES ASSUME IInv, [Next]_vars, NEW p \in PaneRefs, herdr'[p] \in Keys, herdr'[p] # herdr[p]
             PROVE  [key |-> herdr'[p], pane |-> p] \in Kept \cup ledger'
  BY DEF ShownAreOwned
<1> DEFINE Owned == [key |-> herdr'[p], pane |-> p] \in Kept \cup ledger'
<1>1. NoToken \notin Keys /\ Absent \notin Keys
  BY NumKeysAssumption DEF NoToken, Absent, Keys
<1>2. CASE Outside \/ UNCHANGED herdr
  <2>1. herdr \in [PaneRefs -> Tokens \cup {Absent}]
    BY DEF IInv, TypeOK
  <2> QED
    BY <1>1, <1>2, <2>1
    DEF Outside, Restart, PaneOpens, PaneCloses, TokenLost, HerdrSets
<1>3. ASSUME NEW after, NEW P, Serve(after, [q \in P |-> NoToken]) PROVE Owned
  <2>1. \A q \in DOMAIN [r \in P |-> NoToken] : [r \in P |-> NoToken][q] \notin Keys
    BY <1>1
  <2> HIDE DEF Owned
  <2>2. [key |-> herdr'[p], pane |-> p] \in Kept \cup ledger'
    BY <1>3, <2>1, ServeShowsOwned
  <2> QED
    BY <2>2 DEF Owned
<1>4. ASSUME Serve(Kept, NoWrites) PROVE Owned
  BY <1>3, <1>4 DEF NoWrites
<1>5. ASSUME NEW q, NEW k \in Keys,
             Serve({b \in Kept : b.pane # q} \cup {[key |-> k, pane |-> q]}, [r \in {q} |-> k])
      PROVE  Owned
  <2>1. \A r \in DOMAIN [x \in {q} |-> k] :
          [key |-> [x \in {q} |-> k][r], pane |-> r]
            \in {b \in Kept : b.pane # q} \cup {[key |-> k, pane |-> q]}
    OBVIOUS
  <2>2. [key |-> herdr'[p], pane |-> p] \in Kept \cup ledger'
    BY <1>5, <2>1, ServeShowsOwned
  <2> QED
    BY <2>2
<1>6. ASSUME NEW q, NEW requested, Bind(q, requested) PROVE Owned
  BY <1>4, <1>5, <1>6 DEF Bind, Granted
<1>7. ASSUME NEW q, ReleasePane(q) PROVE Owned
  BY <1>3, <1>7 DEF ReleasePane
<1>8. ASSUME NEW k \in Keys, ReleaseKey(k) PROVE Owned
  BY <1>3, <1>8 DEF ReleaseKey
<1>9. CASE ReleaseAll
  BY <1>3, <1>9 DEF ReleaseAll
<1>10. CASE Reconcile
  BY <1>4, <1>10 DEF Reconcile
<1> QED
  BY <1>2, <1>6, <1>7, <1>8, <1>9, <1>10
  DEF Next, Request, Background, vars, CacheEvent, CacheRefresh

THEOREM OnlyOwnedKeysShown == Spec => KeysShownAreOwned
<1>1. IInv /\ [Next]_vars => [ShownAreOwned]_vars
  BY StepShowsOwned
<1> QED BY <1>1, Inductive, PTL DEF Spec, KeysShownAreOwned, ShownAreOwned

-----------------------------------------------------------------------------
\* One reconciliation whose snapshot is current and whose writes all succeed
\* makes Herdr mirror the ledger, also the one that imports the tokens.
LEMMA CompleteReconcileMirrors ==
  ASSUME IInv, Current, CompleteReconcile
  PROVE  Mirrored'
<1>1. /\ Valid(Loaded) /\ hasFile' = TRUE /\ ledger' = Kept
      /\ herdr' = Written(herdr, Repairs, DOMAIN Repairs)
      /\ UNCHANGED <<managed, cache>>
  BY DEF CompleteReconcile, Reconcile, Serve
<1>2. Absent \notin Tokens
  BY NumKeysAssumption DEF Absent, Tokens
<1> SUFFICES ASSUME NEW p \in PaneRefs, p[1] \in managed
             PROVE  /\ cache[p] = Absent <=> herdr'[p] = Absent
                    /\ IF herdr'[p] = Absent THEN ~HasPane(Kept, p)
                                             ELSE herdr'[p] = TokenFor(Kept, p)
  BY <1>1 DEF Mirrored, HasPane, TokenFor
<1>3. cache[p] = herdr[p]
  BY DEF Current
<1>4. CASE p \in DOMAIN Repairs
  <2>1. /\ cache[p] # Absent /\ Repairs[p] = TokenFor(Kept, p) /\ Repairs[p] \in Tokens
    BY <1>1, <1>4, RepairWrites DEF Snapshot
  <2>2. herdr'[p] = Repairs[p]
    BY <1>1, <1>4 DEF Written
  <2> QED
    BY <1>2, <2>1, <2>2
<1>5. CASE p \notin DOMAIN Repairs
  <2>1. herdr'[p] = herdr[p]
    BY <1>1, <1>5 DEF Written
  <2>2. CASE cache[p] = Absent
    <3>1. ~HasPane(Kept, p)
      BY <2>2 DEF Kept, HasPane
    <3> QED
      BY <1>3, <2>1, <2>2, <3>1
  <2>3. CASE cache[p] # Absent
    <3>1. cache[p] = TokenFor(Kept, p) \/ (~hasFile /\ ~HasPane(Kept, p))
      BY <1>5, <2>3 DEF Repairs, Snapshot
    <3>2. ASSUME ~hasFile, ~HasPane(Kept, p) PROVE cache[p] = NoToken
      <4>1. SUFFICES ASSUME cache[p] # NoToken PROVE FALSE
        OBVIOUS
      <4>2. [key |-> cache[p], pane |-> p] \in Kept
        BY <2>3, <3>2, <4>1 DEF Kept, Loaded, Imported, Snapshot
      <4> QED
        BY <3>2, <4>2 DEF HasPane
    <3>3. cache[p] = TokenFor(Kept, p)
      BY <3>1, <3>2 DEF TokenFor
    <3> QED
      BY <1>3, <2>1, <2>3, <3>3
  <2> QED
    BY <2>2, <2>3
<1> QED
  BY <1>4, <1>5

\* Once it does, a tick that stops anywhere and a refresh of any pane leave it so.
LEMMA BackgroundKeepsMirror ==
  ASSUME IInv, Mirrored, Background
  PROVE  Mirrored'
<1>1. \A p \in PaneRefs : p[1] \in managed =>
        /\ cache[p] = Absent <=> herdr[p] = Absent
        /\ IF herdr[p] = Absent THEN ~HasPane(ledger, p) ELSE herdr[p] = TokenFor(ledger, p)
  BY DEF Mirrored
<1>2. CASE Reconcile
  <2>1. /\ Valid(Loaded) /\ hasFile' = TRUE /\ ledger' = Kept
        /\ UNCHANGED <<managed, cache>>
    BY <1>2 DEF Reconcile, Serve
  <2>2. Kept = ledger
    <3>1. Loaded = ledger
      BY DEF Mirrored, Loaded
    <3>2. ASSUME NEW b \in ledger, b.pane[1] \in managed PROVE cache[b.pane] # Absent
      <4>1. b.pane \in PaneRefs /\ HasPane(ledger, b.pane)
        BY DEF IInv, TypeOK, Bindings, HasPane
      <4> QED
        BY <1>1, <3>2, <4>1
    <3> QED
      BY <3>1, <3>2 DEF Kept
  <2>3. ASSUME NEW p \in PaneRefs, p[1] \in managed PROVE herdr'[p] = herdr[p]
    <3>1. ASSUME p \in DOMAIN Repairs, Reaches(p) PROVE Repairs[p] = herdr[p]
      BY <1>1, <2>1, <2>2, <2>3, <3>1, RepairWrites DEF Reaches
    <3>2. ASSUME NEW done \in Started(Repairs), herdr' = Written(herdr, Repairs, done)
          PROVE  herdr'[p] = herdr[p]
      BY <3>1, <3>2 DEF Started, Written
    <3>3. ASSUME \A q \in DOMAIN Repairs : Reaches(q),
                 NEW done \in SUBSET {q \in DOMAIN NoWrites : Reaches(q)},
                 herdr' = Written(Written(herdr, Repairs, DOMAIN Repairs), NoWrites, done)
          PROVE  herdr'[p] = herdr[p]
      <4>1. p \notin done
        BY DEF NoWrites
      <4> QED
        BY <3>1, <3>3, <4>1 DEF Written
    <3> QED
      BY <1>2, <3>2, <3>3 DEF Reconcile, Serve
  <2> QED
    BY <1>1, <2>1, <2>2, <2>3 DEF Mirrored, HasPane, TokenFor
<1>3. ASSUME UNCHANGED <<hasFile, ledger, managed, herdr>>,
             \A p \in PaneRefs : cache'[p] \in {cache[p], herdr[p]}
      PROVE  Mirrored'
  BY <1>1, <1>3 DEF Mirrored, HasPane, TokenFor
<1>4. cache \in [PaneRefs -> Tokens \cup {Absent}]
  BY DEF IInv, TypeOK
<1>5. ASSUME NEW p \in PaneRefs, CacheEvent(p) PROVE Mirrored'
  BY <1>3, <1>4, <1>5 DEF CacheEvent
<1>6. ASSUME NEW s \in Sessions, CacheRefresh(s) PROVE Mirrored'
  BY <1>3, <1>6 DEF CacheRefresh
<1> QED
  BY <1>2, <1>5, <1>6 DEF Background

\* How the mirror converges: a complete reconciliation of a current snapshot
\* gets there, and no later work of the daemon leaves it (core.rs
\* reconcile_panes).
THEOREM MirrorReachedAndKept == Spec => RepairsStick
<1>1. IInv /\ [Next]_vars =>
        [/\ Current /\ CompleteReconcile => Mirrored'
         /\ Mirrored /\ Background => Mirrored']_vars
  BY CompleteReconcileMirrors, BackgroundKeepsMirror
<1> QED BY <1>1, Inductive, PTL DEF Spec, RepairsStick
=============================================================================

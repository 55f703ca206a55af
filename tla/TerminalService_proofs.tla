----------------------- MODULE TerminalService_proofs -----------------------
(***************************************************************************)
(* The quotas and routes, the streams of the browsers and the PTYs of      *)
(* TerminalService for every set of browsers, every limit and every bound. *)
(*                                                                         *)
(* The first half is about the routes, their counts and the connection of  *)
(* the instance (RouteInv).  The second adds what each browser has seen of *)
(* its terminal, which connection a route hangs on, and what the daemon    *)
(* still has to handle (TInv): an open in its inbox is followed there by   *)
(* what ends its PTY, or its user still reaches it.                        *)
(***************************************************************************)
EXTENDS TerminalService, FiniteSetTheorems, TLAPS

\* What the counts are kept for: routes, whose they are, and the counts.
RouteTypes ==
    /\ opens \in 0..MaxOpens
    /\ route \in [Terminals -> {"unused", "pending", "active", "gone"}]
    /\ owner \in [Terminals -> [browser : Browsers \cup {None}, link : 0..MaxLinks,
                                out : Nat]]
    /\ principalCount \in [Principals -> Nat]
    /\ instanceCount \in Nat

\* A route has a browser, and a terminal that was not opened has no route.
OwnedRoutes ==
    /\ \A t \in Routed : owner[t].browser \in Browsers
    /\ \A t \in Routed : t <= opens

CountInv == RouteTypes /\ OwnedRoutes /\ QuotaBalance /\ QuotaHolds

\* The connections, as far as routes are concerned.
LinkTypes ==
    /\ budget \in Budgets
    /\ conn \in 0..MaxLinks /\ greeting \in 0..MaxLinks /\ links \in Links

\* Routes over an instance that is not served are about to be cleaned up.
UnservedIsCleaned == ~online => Routed = {} \/ cleaning # {}

RouteInv == CountInv /\ LinkTypes /\ StaleRouteIsCleaned /\ UnservedIsCleaned

-----------------------------------------------------------------------------
(* Sets of terminals.                                                      *)

LEMMA FiniteTerminals == \A S \in SUBSET Terminals : IsFiniteSet(S)
<1>1. MaxOpens \in Nat
  BY TerminalAssumption DEF TerminalAssumption
<1>2. IsFiniteSet(Terminals)
  BY <1>1, FS_Interval DEF Terminals
<1> QED
  BY <1>2, FS_Subset

LEMMA CountType == \A S \in SUBSET Terminals : Cardinality(S) \in Nat
BY FiniteTerminals, FS_CardinalityType

\* Taking a part of a set away, as the counts do it.
LEMMA LessIsDifference ==
    ASSUME NEW A \in SUBSET Terminals, NEW B \in SUBSET A
    PROVE  Less(Cardinality(A), Cardinality(B)) = Cardinality(A \ B)
<1>1. IsFiniteSet(A) /\ IsFiniteSet(B) /\ B \in SUBSET Terminals
  BY FiniteTerminals
<1>2. Cardinality(A) \in Nat /\ Cardinality(B) \in Nat
  BY <1>1, CountType
<1>3. Cardinality(B) <= Cardinality(A)
  BY <1>1, FS_Subset
<1>4. A \cap B = B
  OBVIOUS
<1>5. Cardinality(A \ B) = Cardinality(A) - Cardinality(B)
  BY <1>1, <1>4, FS_Difference
<1> QED
  BY <1>2, <1>3, <1>5 DEF Less

LEMMA PartIsSmaller ==
    ASSUME NEW A \in SUBSET Terminals, NEW B \in SUBSET A
    PROVE  Cardinality(B) <= Cardinality(A)
BY FiniteTerminals, FS_Subset

LEMMA OneMore ==
    ASSUME NEW A \in SUBSET Terminals, NEW t \in Terminals \ A
    PROVE  Cardinality(A \cup {t}) = Cardinality(A) + 1
BY FiniteTerminals, FS_AddElement

LEMMA Parts ==
    ASSUME NEW A \in SUBSET Terminals, NEW B \in SUBSET Terminals, A \cap B = {}
    PROVE  Cardinality(A \cup B) = Cardinality(A) + Cardinality(B)
<1>1. IsFiniteSet(A) /\ IsFiniteSet(B)
  BY FiniteTerminals
<1>2. Cardinality(A \cap B) = 0
  BY FS_EmptySet
<1>3. Cardinality(A) \in Nat /\ Cardinality(B) \in Nat
  BY CountType
<1>4. Cardinality(A \cup B) = Cardinality(A) + Cardinality(B) - Cardinality(A \cap B)
  BY <1>1, FS_Union
<1> QED
  BY <1>2, <1>3, <1>4

-----------------------------------------------------------------------------
(* What the steps do to routes and counts.                                 *)

LEMMA ForgetStep ==
    ASSUME RouteTypes, OwnedRoutes, NEW S, Forget(S)
    PROVE  /\ Routed' = Routed \ S /\ Active' = Active \ S
           /\ \A t \in Routed' : owner'[t] = owner[t]
           /\ \A p : /\ Of(p, Active)' = Of(p, Active) \ Of(p, S \cap Active)
                     /\ Of(p, Routed)' = Of(p, Routed) \ S
           /\ route' \in [Terminals -> {"unused", "pending", "active", "gone"}]
           /\ owner' \in [Terminals -> [browser : Browsers \cup {None}, link : 0..MaxLinks,
                                        out : Nat]]
           /\ OwnedRoutes' /\ opens' = opens
<1> USE DEF RouteTypes, Forget
<1>1. Routed' = Routed \ S /\ Active' = Active \ S
  BY DEF Routed, Active
<1>2. \A t \in Routed' : owner'[t] = owner[t]
  BY <1>1 DEF Routed
<1>3. \A t \in Terminals : owner'[t].browser = owner[t].browser
  BY DEF NoOwner
<1>4. ASSUME NEW p
      PROVE  /\ Of(p, Active)' = Of(p, Active) \ Of(p, S \cap Active)
             /\ Of(p, Routed)' = Of(p, Routed) \ S
  <2>1. \A t \in Active : Principal(t)' = Principal(t)
    BY <1>3 DEF Principal, Active
  <2>2. \A t \in Routed : Principal(t)' = Principal(t)
    BY <1>3 DEF Principal, Routed
  <2>3. Of(p, Active)' = Of(p, Active) \ Of(p, S \cap Active)
    BY <1>1, <2>1 DEF Of
  <2>4. Of(p, Routed)' = Of(p, Routed) \ S
    BY <1>1, <2>2 DEF Of
  <2> QED
    BY <2>3, <2>4
<1>5. route' \in [Terminals -> {"unused", "pending", "active", "gone"}]
  OBVIOUS
<1>6. owner' \in [Terminals -> [browser : Browsers \cup {None}, link : 0..MaxLinks,
                                out : Nat]]
  <2>1. MaxLinks \in Nat
    BY TerminalAssumption DEF TerminalAssumption
  <2>2. \A t \in Terminals :
          [NoOwner EXCEPT !.browser = owner[t].browser]
            \in [browser : Browsers \cup {None}, link : 0..MaxLinks, out : Nat]
    BY <2>1 DEF NoOwner
  <2> QED
    BY <2>2
<1>7. OwnedRoutes' /\ opens' = opens
  BY <1>1, <1>2 DEF OwnedRoutes
<1> QED
  BY <1>1, <1>2, <1>4, <1>5, <1>6, <1>7

LEMMA RemoveStep ==
    ASSUME CountInv, NEW S, RemoveRoutes(S)
    PROVE  CountInv'
<1> USE DEF CountInv
<1>1. Forget(S)
  BY DEF RemoveRoutes
<1>2. Active \in SUBSET Terminals /\ Routed \in SUBSET Terminals
  BY DEF Active, Routed
<1>3. \A p \in Principals : principalCount'[p] = Cardinality(Of(p, Active)')
  <2> SUFFICES ASSUME NEW p \in Principals
               PROVE  principalCount'[p] = Cardinality(Of(p, Active)')
    OBVIOUS
  <2>1. Of(p, Active) \in SUBSET Terminals
        /\ Of(p, S \cap Active) \in SUBSET Of(p, Active)
    BY <1>2 DEF Of
  <2>2. principalCount'[p] = Less(Cardinality(Of(p, Active)), Cardinality(Of(p, S \cap Active)))
    BY DEF RemoveRoutes, QuotaBalance
  <2>3. Of(p, Active)' = Of(p, Active) \ Of(p, S \cap Active)
    BY <1>1, ForgetStep
  <2> QED
    BY <2>1, <2>2, <2>3, LessIsDifference
<1>4. instanceCount' = Cardinality(Active')
  <2>1. Active' = Active \ (S \cap Active)
    BY <1>1, ForgetStep
  <2>2. instanceCount' = Less(Cardinality(Active), Cardinality(S \cap Active))
    BY DEF RemoveRoutes, QuotaBalance
  <2> QED
    BY <1>2, <2>1, <2>2, LessIsDifference
<1>5. QuotaBalance'
  BY <1>3, <1>4 DEF QuotaBalance
<1>6. QuotaHolds'
  <2>1. Routed' \in SUBSET Routed /\ \A p : Of(p, Routed)' \in SUBSET Of(p, Routed)
    <3>1. Routed' = Routed \ S
      BY <1>1, ForgetStep
    <3>2. \A p : Of(p, Routed)' = Of(p, Routed) \ S
      BY <1>1, ForgetStep
    <3> QED
      BY <3>1, <3>2
  <2>2. \A p : Of(p, Routed) \in SUBSET Terminals
    BY <1>2 DEF Of
  <2>3. Cardinality(Routed') <= Cardinality(Routed)
    BY <1>2, <2>1, PartIsSmaller
  <2>4. \A p \in Principals : Cardinality(Of(p, Routed)') <= Cardinality(Of(p, Routed))
    BY <2>1, <2>2, PartIsSmaller
  <2>5. MaxPerPrincipal \in Nat /\ MaxPerInstance \in Nat
    BY TerminalAssumption DEF TerminalAssumption
  <2>6. Routed' \in SUBSET Terminals /\ \A p : Of(p, Routed)' \in SUBSET Terminals
    BY <1>2, <2>1, <2>2
  <2> QED
    BY <1>2, <2>2, <2>3, <2>4, <2>5, <2>6, CountType DEF QuotaHolds
<1>7. RouteTypes'
  <2>1. principalCount' \in [Principals -> Nat]
    <3>1. \A p \in Principals : Of(p, Active)' \in SUBSET Terminals
      BY <1>1, <1>2, ForgetStep DEF Of
    <3> QED
      BY <1>3, <3>1, CountType DEF RemoveRoutes
  <2>2. instanceCount' \in Nat
    BY <1>1, <1>2, <1>4, ForgetStep, CountType
  <2> QED
    BY <1>1, <2>1, <2>2, ForgetStep DEF RouteTypes
<1> QED
  BY <1>1, <1>5, <1>6, <1>7, ForgetStep

LEMMA SameRoutes ==
    ASSUME CountInv, UNCHANGED routes
    PROVE  CountInv'
BY DEF CountInv, RouteTypes, OwnedRoutes, QuotaBalance, QuotaHolds, routes, Routed, Active,
       Of, Principal
\* Shutdown empties the maps and the counts.
LEMMA DrainStep ==
    ASSUME CountInv, Forget(Routed), principalCount' = [p \in Principals |-> 0],
           instanceCount' = 0
    PROVE  CountInv' /\ Routed' = {}
<1> USE DEF CountInv
<1>1. Routed' = {}
  BY ForgetStep
<1>2. Active' = {} /\ \A p : Of(p, Active)' = {} /\ Of(p, Routed)' = {}
  BY <1>1 DEF Active, Routed, Of
<1>3. Cardinality({}) = 0
  BY FS_EmptySet
<1>4. MaxPerPrincipal \in Nat /\ MaxPerInstance \in Nat
  BY TerminalAssumption DEF TerminalAssumption
<1>5. QuotaBalance' /\ QuotaHolds'
  BY <1>1, <1>2, <1>3, <1>4 DEF QuotaBalance, QuotaHolds
<1>6. RouteTypes'
  BY ForgetStep DEF RouteTypes
<1> QED
  BY <1>1, <1>5, <1>6, ForgetStep

\* An open that is admitted has room in both quotas, whether it is sent or not.
LEMMA OpenStep ==
    ASSUME RouteInv, NEW b \in Browsers, HandleOpen(b)
    PROVE  CountInv'
<1> DEFINE n == opens + 1
<1> USE DEF RouteInv, CountInv
<1>1. n \in Terminals /\ n \notin Routed /\ n \in Nat /\ opens \in Nat /\ conn \in 0..MaxLinks
  <2>1. opens < budget.opens /\ budget.opens \in 0..MaxOpens /\ MaxOpens \in Nat
    BY TerminalAssumption DEF TerminalAssumption, LinkTypes, HandleOpen
  <2>2. opens \in Nat
    BY <2>1 DEF RouteTypes
  <2>3. n \in Terminals
    BY <2>1, <2>2 DEF Terminals
  <2>4. n \notin Routed
    BY <2>2 DEF OwnedRoutes
  <2> QED
    BY <2>2, <2>3, <2>4 DEF LinkTypes
<1>2. owner' = [owner EXCEPT ![n] = [browser |-> b, link |-> conn, out |-> 1]]
      /\ opens' = n /\ UNCHANGED <<principalCount, instanceCount>>
  BY DEF HandleOpen
<1>3. \/ route' = [route EXCEPT ![n] = "pending"]
      \/ route' = [route EXCEPT ![n] = "gone"]
  BY DEF HandleOpen
<1>4. \A t \in Routed : owner'[t] = owner[t]
  BY <1>1, <1>2 DEF RouteTypes, Routed
<1>5. Active' = Active /\ (Routed' = Routed \/ Routed' = Routed \cup {n})
  <2>1. n \notin Active
    BY <1>1 DEF Active, Routed
  <2>2. CASE route' = [route EXCEPT ![n] = "pending"]
    BY <1>1, <2>1, <2>2 DEF RouteTypes, Active, Routed
  <2>3. CASE route' = [route EXCEPT ![n] = "gone"]
    BY <1>1, <2>1, <2>3 DEF RouteTypes, Active, Routed
  <2> QED
    BY <1>3, <2>2, <2>3
<1>6. \A p : Of(p, Active)' = Of(p, Active)
  <2>1. \A t \in Active : Principal(t)' = Principal(t)
    BY <1>4 DEF Principal, Active, Routed
  <2> QED
    BY <1>5, <2>1 DEF Of
<1>7. QuotaBalance'
  BY <1>2, <1>5, <1>6 DEF QuotaBalance
<1>8. QuotaHolds'
  <2>1. CASE Routed' = Routed
    <3>1. \A p : Of(p, Routed)' = Of(p, Routed)
      BY <1>4, <2>1 DEF Of, Principal
    <3> QED
      BY <2>1, <3>1 DEF QuotaHolds
  <2>2. CASE Routed' = Routed \cup {n}
    <3>1. Quota(b)
      BY DEF HandleOpen, Admitted
    <3>2. /\ Active \in SUBSET Terminals /\ Pending \in SUBSET Terminals
          /\ Active \cap Pending = {} /\ Routed = Active \cup Pending
      BY DEF Active, Pending, Routed
    <3>3. Cardinality(Routed') <= MaxPerInstance
      <4>1. Cardinality(Routed) = instanceCount + Cardinality(Pending)
        BY <3>2, Parts DEF QuotaBalance
      <4>2. Cardinality(Routed') = Cardinality(Routed) + 1
        BY <1>1, <2>2, <3>2, OneMore
      <4>3. Cardinality(Routed) \in Nat /\ MaxPerInstance \in Nat
        BY <3>2, CountType, TerminalAssumption DEF TerminalAssumption
      <4>4. Cardinality(Routed) < MaxPerInstance
        BY <3>1, <4>1 DEF Quota
      <4> QED
        BY <4>2, <4>3, <4>4
    <3>4. ASSUME NEW p \in Principals
          PROVE  Cardinality(Of(p, Routed)') <= MaxPerPrincipal
      <4>1. /\ Of(p, Active) \in SUBSET Terminals /\ Of(p, Pending) \in SUBSET Terminals
            /\ Of(p, Active) \cap Of(p, Pending) = {}
            /\ Of(p, Routed) = Of(p, Active) \cup Of(p, Pending)
        BY <3>2 DEF Of
      <4>2. Cardinality(Of(p, Routed)) = principalCount[p] + Cardinality(Of(p, Pending))
        BY <4>1, Parts DEF QuotaBalance
      <4>3. Cardinality(Of(p, Routed)) \in Nat /\ MaxPerPrincipal \in Nat
        BY <4>1, CountType, TerminalAssumption DEF TerminalAssumption
      <4>4. owner'[n].browser = b
        BY <1>1, <1>2 DEF RouteTypes
      <4>7. Of(p, Routed)' =
              {t \in Routed \cup {n} : PrincipalOf[owner'[t].browser] = p}
        BY <2>2 DEF Of, Principal
      <4>8. Of(p, Routed) = {t \in Routed : PrincipalOf[owner'[t].browser] = p}
        BY <1>4 DEF Of, Principal
      <4>5. CASE p = PrincipalOf[b]
        <5>1. Of(p, Routed)' = Of(p, Routed) \cup {n}
          BY <4>4, <4>5, <4>7, <4>8
        <5>2. n \notin Of(p, Routed)
          BY <1>1 DEF Of
        <5>3. Cardinality(Of(p, Routed)') = Cardinality(Of(p, Routed)) + 1
          BY <1>1, <4>1, <5>1, <5>2, OneMore
        <5>4. Cardinality(Of(p, Routed)) < MaxPerPrincipal
          BY <3>1, <4>2, <4>5 DEF Quota
        <5> QED
          BY <4>3, <5>3, <5>4
      <4>6. CASE p # PrincipalOf[b]
        <5>1. Of(p, Routed)' = Of(p, Routed)
          BY <4>4, <4>6, <4>7, <4>8
        <5> QED
          BY <5>1 DEF QuotaHolds
      <4> QED
        BY <4>5, <4>6
    <3> QED
      BY <3>3, <3>4 DEF QuotaHolds
  <2> QED
    BY <1>5, <2>1, <2>2
<1>9. RouteTypes'
  <2>1. route' \in [Terminals -> {"unused", "pending", "active", "gone"}]
    BY <1>1, <1>3 DEF RouteTypes
  <2>2. owner' \in [Terminals -> [browser : Browsers \cup {None}, link : 0..MaxLinks,
                                  out : Nat]]
    BY <1>1, <1>2 DEF RouteTypes
  <2>3. opens' \in 0..MaxOpens
    BY <1>1, <1>2 DEF Terminals
  <2> QED
    BY <1>2, <2>1, <2>2, <2>3 DEF RouteTypes
<1>10. OwnedRoutes'
  <2>1. owner'[n].browser = b
    BY <1>1, <1>2 DEF RouteTypes
  <2>2. \A t \in Routed : t <= opens'
    BY <1>1, <1>2 DEF OwnedRoutes, Routed, Terminals
  <2> QED
    BY <1>1, <1>2, <1>4, <1>5, <2>1, <2>2 DEF OwnedRoutes
<1> QED
  BY <1>7, <1>8, <1>9, <1>10
\* An open becomes active: it moves from one summand of the quotas to the other.
LEMMA PromoteStep ==
    ASSUME CountInv, NEW t \in Pending,
           route' = [route EXCEPT ![t] = "active"],
           principalCount' = [principalCount EXCEPT ![Principal(t)] = @ + 1],
           instanceCount' = instanceCount + 1,
           UNCHANGED <<opens, owner>>
    PROVE  CountInv'
<1> USE DEF CountInv
<1>1. t \in Terminals /\ t \in Routed /\ t \notin Active
  BY DEF Pending, Routed, Active
<1>2. Routed' = Routed /\ Active' = Active \cup {t}
  BY <1>1 DEF RouteTypes, Routed, Active
<1>3. Principal(t) \in Principals
  BY <1>1 DEF OwnedRoutes, Principal, Principals
<1>4. Active \in SUBSET Terminals
  BY DEF Active
<1>5. instanceCount' = Cardinality(Active')
  BY <1>1, <1>2, <1>4, OneMore DEF QuotaBalance
<1>6. ASSUME NEW p \in Principals
      PROVE  principalCount'[p] = Cardinality(Of(p, Active)')
  <2>1. Of(p, Active) \in SUBSET Terminals /\ t \notin Of(p, Active)
    BY <1>1, <1>4 DEF Of
  <2>2. CASE p = Principal(t)
    <3>1. Of(p, Active)' = Of(p, Active) \cup {t}
      BY <1>2, <2>2 DEF Of, Principal
    <3>2. principalCount'[p] = principalCount[p] + 1
      BY <1>3, <2>2 DEF RouteTypes
    <3> QED
      BY <1>1, <2>1, <3>1, <3>2, OneMore DEF QuotaBalance
  <2>3. CASE p # Principal(t)
    <3>1. Of(p, Active)' = Of(p, Active)
      BY <1>2, <2>3 DEF Of, Principal
    <3>2. principalCount'[p] = principalCount[p]
      BY <2>3 DEF RouteTypes
    <3> QED
      BY <3>1, <3>2 DEF QuotaBalance
  <2> QED
    BY <2>2, <2>3
<1>7. QuotaBalance'
  BY <1>5, <1>6 DEF QuotaBalance
<1>8. QuotaHolds'
  BY <1>2 DEF QuotaHolds, Of, Principal
<1>9. RouteTypes'
  BY <1>1, <1>3 DEF RouteTypes
<1>10. OwnedRoutes'
  BY <1>2 DEF OwnedRoutes
<1> QED
  BY <1>7, <1>8, <1>9, <1>10

\* Output moves next_output_seq on.
LEMMA OutputStep ==
    ASSUME CountInv, NEW t \in Active,
           owner' = [owner EXCEPT ![t].out = @ + 1],
           UNCHANGED <<opens, route, principalCount, instanceCount>>
    PROVE  CountInv' /\ \A u \in Terminals : owner'[u].link = owner[u].link
<1> USE DEF CountInv
<1>1. t \in Terminals
  BY DEF Active
<1>2. owner' \in [Terminals -> [browser : Browsers \cup {None}, link : 0..MaxLinks,
                                out : Nat]]
  BY <1>1 DEF RouteTypes
<1>3. \A u \in Terminals : owner'[u].browser = owner[u].browser
                           /\ owner'[u].link = owner[u].link
  BY <1>1 DEF RouteTypes
<1>4. Routed' = Routed /\ Active' = Active
  BY DEF Routed, Active
<1>5. \A p : Of(p, Routed)' = Of(p, Routed) /\ Of(p, Active)' = Of(p, Active)
  BY <1>3, <1>4 DEF Of, Principal, Routed, Active
<1>6. RouteTypes'
  BY <1>2 DEF RouteTypes
<1>7. OwnedRoutes'
  BY <1>3, <1>4 DEF OwnedRoutes, Routed
<1>8. QuotaBalance' /\ QuotaHolds'
  BY <1>4, <1>5 DEF QuotaBalance, QuotaHolds
<1> QED
  BY <1>3, <1>6, <1>7, <1>8
-----------------------------------------------------------------------------
(* Routes and the connection of the instance.                              *)

\* Routes may go; those that stay hang on the connection they hung on.
Kept == /\ Routed' \subseteq Routed
        /\ \A t \in Routed' : owner'[t].link = owner[t].link

LEMMA Unchanged == ASSUME CountInv, UNCHANGED routes
                   PROVE  CountInv' /\ Kept
BY SameRoutes DEF Kept, routes, Routed

LEMMA Removed == ASSUME CountInv, NEW S, RemoveRoutes(S)
                 PROVE  CountInv' /\ Kept /\ Routed' = Routed \ S
<1>1. CountInv'
  BY RemoveStep
<1>2. Forget(S) /\ RouteTypes /\ OwnedRoutes
  BY DEF RemoveRoutes, CountInv
<1>3. Routed' = Routed \ S
  BY <1>2, ForgetStep
<1>4. \A t \in Routed' : owner'[t] = owner[t]
  BY <1>2, ForgetStep
<1> QED
  BY <1>1, <1>3, <1>4 DEF Kept

\* While the registry stays as it is.
LEMMA SameRegistry ==
    ASSUME RouteInv, CountInv', Kept,
           UNCHANGED <<conn, online, cleaning, greeting, links, budget>>
    PROVE  RouteInv'
BY DEF RouteInv, Kept, LinkTypes, StaleRouteIsCleaned, UnservedIsCleaned

LEMMA BrowserStep ==
    ASSUME RouteInv, FromBrowsers, UNCHANGED budget
    PROVE  RouteInv'
<1> USE DEF RouteInv
<1>1. ASSUME NEW b \in Browsers, HandleOpen(b)
      PROVE  RouteInv'
  <2>1. CountInv'
    BY <1>1, OpenStep
  <2>2. UNCHANGED <<conn, online, cleaning, greeting, links>>
    BY <1>1 DEF HandleOpen, registry
  <2>3. LinkTypes'
    BY <2>2 DEF LinkTypes
  <2>4. opens \in Nat /\ owner' = [owner EXCEPT ![opens + 1] =
                                     [browser |-> b, link |-> conn, out |-> 1]]
    BY <1>1 DEF HandleOpen, CountInv, RouteTypes
  <2>5. \A t \in Routed' : t \in Routed \/ t = opens + 1
    BY <1>1 DEF HandleOpen, CountInv, RouteTypes, Routed
  <2>6. \A t \in Routed' : owner'[t].link = conn \/ (t \in Routed /\ owner'[t] = owner[t])
    BY <2>4, <2>5 DEF CountInv, RouteTypes, Routed
  <2>7. StaleRouteIsCleaned'
    BY <2>2, <2>6 DEF StaleRouteIsCleaned
  <2>8. UnservedIsCleaned'
    <3>1. CASE online
      BY <2>2, <3>1 DEF UnservedIsCleaned
    <3>2. CASE ~online
      <4>1. route' = [route EXCEPT ![opens + 1] = "gone"]
        BY <1>1, <3>2 DEF HandleOpen
      <4>2. Routed' \subseteq Routed
        BY <4>1 DEF CountInv, RouteTypes, Routed
      <4> QED
        BY <2>2, <4>2 DEF UnservedIsCleaned
    <3> QED
      BY <3>1, <3>2
  <2> QED
    BY <2>1, <2>3, <2>7, <2>8
<1>2. ASSUME NEW S, RemoveRoutes(S), UNCHANGED <<registry, links>>
      PROVE  RouteInv'
  BY <1>2, Removed, SameRegistry DEF registry
<1>3. ASSUME NEW t \in Terminals, HandleInput(t)
      PROVE  RouteInv'
  BY <1>2, <1>3 DEF HandleInput, FailActive, registry
<1>4. ASSUME NEW t \in Terminals, HandleClose(t)
      PROVE  RouteInv'
  BY <1>2, <1>4 DEF HandleClose, registry
<1>5. ASSUME NEW b \in Browsers, Disconnect(b)
      PROVE  RouteInv'
  BY <1>2, <1>5 DEF Disconnect, registry
<1> QED
  BY <1>1, <1>3, <1>4, <1>5 DEF FromBrowsers

LEMMA ReadStep ==
    ASSUME RouteInv, NEW n \in Links, ServerReads(n), UNCHANGED budget
    PROVE  RouteInv'
<1> DEFINE t == Head(up[n]).term
<1>1. UNCHANGED <<conn, online, cleaning, greeting, links>>
  BY DEF ServerReads, OnOpened, OnRejected, OnOutput, OnExit, Ignore, Untouched, registry
<1>2. CountInv
  BY DEF RouteInv
<1>3. ASSUME NEW S, RemoveRoutes(S)
      PROVE  RouteInv'
  BY <1>1, <1>2, <1>3, Removed, SameRegistry
<1>4. ASSUME UNCHANGED routes
      PROVE  RouteInv'
  BY <1>1, <1>2, <1>4, Unchanged, SameRegistry
<1>5. CASE OnOpened(n)
  <2>1. \/ /\ t \in Pending
           /\ route' = [route EXCEPT ![t] = "active"]
           /\ principalCount' = [principalCount EXCEPT ![Principal(t)] = @ + 1]
           /\ instanceCount' = instanceCount + 1
           /\ UNCHANGED <<opens, owner>>
        \/ RemoveRoutes({t})
        \/ UNCHANGED routes
    BY <1>5 DEF OnOpened
  <2>2. CASE /\ t \in Pending
             /\ route' = [route EXCEPT ![t] = "active"]
             /\ principalCount' = [principalCount EXCEPT ![Principal(t)] = @ + 1]
             /\ instanceCount' = instanceCount + 1
             /\ UNCHANGED <<opens, owner>>
    <3>1. CountInv'
      BY <1>2, <2>2, PromoteStep
    <3>2. Kept
      BY <1>2, <2>2 DEF Kept, CountInv, RouteTypes, Routed, Pending
    <3> QED
      BY <1>1, <3>1, <3>2, SameRegistry
  <2> QED
    BY <1>3, <1>4, <2>1, <2>2
<1>6. CASE OnRejected(n)
  BY <1>3, <1>4, <1>6 DEF OnRejected
<1>7. CASE OnOutput(n)
  <2>1. \/ RemoveRoutes({t})
        \/ UNCHANGED routes
        \/ /\ t \in Active
           /\ owner' = [owner EXCEPT ![t].out = @ + 1]
           /\ UNCHANGED <<opens, route, principalCount, instanceCount>>
    BY <1>7 DEF OnOutput, FailActive, LosesOutput
  <2>2. CASE /\ t \in Active
             /\ owner' = [owner EXCEPT ![t].out = @ + 1]
             /\ UNCHANGED <<opens, route, principalCount, instanceCount>>
    <3>1. CountInv' /\ \A u \in Terminals : owner'[u].link = owner[u].link
      BY <1>2, <2>2, OutputStep
    <3>2. Kept
      BY <2>2, <3>1 DEF Kept, Routed
    <3> QED
      BY <1>1, <3>1, <3>2, SameRegistry
  <2> QED
    BY <1>3, <1>4, <2>1, <2>2
<1>8. CASE OnExit(n)
  BY <1>3, <1>4, <1>8 DEF OnExit
<1>9. CASE Ignore(n)
  BY <1>4, <1>9 DEF Ignore
<1> QED
  BY <1>5, <1>6, <1>7, <1>8, <1>9 DEF ServerReads

\* Whatever happens to the connection: the routes go, or a clean-up is due.
LEMMA ConnectionStep ==
    ASSUME RouteInv, UNCHANGED budget,
           \/ \E n \in Links : ServerEnds(n)
           \/ \E w \in 0..MaxLinks : OnInstanceDisconnect(w)
           \/ Hello \/ SweepOffline \/ Heartbeat \/ Shutdown
    PROVE  RouteInv'
<1> USE DEF RouteInv
<1>1. MaxLinks \in Nat
  BY TerminalAssumption DEF TerminalAssumption
<1>2. ASSUME NEW n \in Links, ServerEnds(n)
      PROVE  RouteInv'
  <2>1. CountInv' /\ Kept
    BY <1>2, Unchanged DEF ServerEnds
  <2>2. LinkTypes'
    BY <1>1, <1>2 DEF ServerEnds, LinkTypes
  <2>3. CASE conn # n
    BY <1>2, <2>1, <2>3, SameRegistry DEF ServerEnds
  <2>4. CASE conn = n
    <3>1. cleaning' # {} \/ Routed' = {}
      BY <1>2, <2>1, <2>4 DEF ServerEnds, UnservedIsCleaned, Kept
    <3> QED
      BY <2>1, <2>2, <3>1 DEF StaleRouteIsCleaned, UnservedIsCleaned
  <2> QED
    BY <2>3, <2>4
<1>3. ASSUME CountInv', Routed' = {}, LinkTypes'
      PROVE  RouteInv'
  BY <1>3 DEF StaleRouteIsCleaned, UnservedIsCleaned
<1>4. ASSUME NEW w \in 0..MaxLinks, OnInstanceDisconnect(w)
      PROVE  RouteInv'
  <2>1. CountInv' /\ Routed' = {}
    BY <1>4, Removed DEF OnInstanceDisconnect, CleanupRoutes
  <2>2. LinkTypes'
    BY <1>4 DEF OnInstanceDisconnect, LinkTypes
  <2> QED
    BY <1>3, <2>1, <2>2
<1>5. CASE Hello
  <2>1. CountInv' /\ Routed' = {}
    BY <1>5, Removed DEF Hello
  <2>2. LinkTypes'
    BY <1>1, <1>5 DEF Hello, LinkTypes
  <2> QED
    BY <1>3, <2>1, <2>2
<1>6. CASE SweepOffline
  <2>1. CountInv' /\ Kept
    BY <1>6, Unchanged DEF SweepOffline
  <2> QED
    BY <1>6, <2>1 DEF SweepOffline, LinkTypes, StaleRouteIsCleaned, UnservedIsCleaned
<1>7. CASE Heartbeat
  <2>1. CountInv' /\ Kept
    BY <1>7, Unchanged DEF Heartbeat
  <2> QED
    BY <1>7, <2>1 DEF Heartbeat, LinkTypes, StaleRouteIsCleaned, UnservedIsCleaned, Kept
<1>8. CASE Shutdown
  <2>1. CountInv' /\ Routed' = {}
    BY <1>8, DrainStep DEF Shutdown
  <2>2. LinkTypes'
    BY <1>8 DEF Shutdown, LinkTypes
  <2> QED
    BY <1>3, <2>1, <2>2
<1> QED
  BY <1>2, <1>4, <1>5, <1>6, <1>7, <1>8

LEMMA DaemonStep ==
    ASSUME RouteInv, UNCHANGED budget,
           \/ \E t \in Terminals : SweepPending(t) \/ PtyOutput(t) \/ PtyEnds(t)
           \/ LinkDrops \/ Reconnect \/ HubHandles \/ HubForwards
    PROVE  RouteInv'
<1>1. CountInv
  BY DEF RouteInv
<1>2. ASSUME NEW t \in Terminals, SweepPending(t)
      PROVE  RouteInv'
  BY <1>1, <1>2, Removed, SameRegistry DEF SweepPending, registry
<1>3. CASE Reconnect
  <2>1. CountInv' /\ Kept
    BY <1>1, <1>3, Unchanged DEF Reconnect
  <2>2. LinkTypes'
    <3>1. links < budget.links /\ budget.links \in Links /\ links \in Links
      BY <1>3, TerminalAssumption DEF Reconnect, RouteInv, LinkTypes, TerminalAssumption
    <3>2. links + 1 \in Links /\ links + 1 \in 0..MaxLinks
      BY <3>1, TerminalAssumption DEF Links, TerminalAssumption
    <3> QED
      BY <1>3, <3>2 DEF Reconnect, RouteInv, LinkTypes
  <2> QED
    BY <1>3, <2>1, <2>2
       DEF Reconnect, RouteInv, Kept, StaleRouteIsCleaned, UnservedIsCleaned
<1>4. ASSUME UNCHANGED <<routes, registry, links>>
      PROVE  RouteInv'
  BY <1>1, <1>4, Unchanged, SameRegistry DEF registry
<1>5. ASSUME NEW t \in Terminals, PtyOutput(t) \/ PtyEnds(t)
      PROVE  RouteInv'
  BY <1>4, <1>5 DEF PtyOutput, PtyEnds, ServerSide
<1>6. CASE LinkDrops \/ HubHandles \/ HubForwards
  BY <1>4, <1>6 DEF LinkDrops, HubHandles, HubForwards, ServerSide
<1> QED
  BY <1>2, <1>3, <1>5, <1>6

-----------------------------------------------------------------------------
(* The theorems.                                                           *)

LEMMA InitRoutes == Init => RouteInv
<1> SUFFICES ASSUME Init
             PROVE  RouteInv
  OBVIOUS
<1> USE TerminalAssumption DEF TerminalAssumption, Init
<1>1. Active = {} /\ Pending = {} /\ Routed = {}
  BY DEF Active, Pending, Routed
<1>2. Cardinality({}) = 0
  BY FS_EmptySet
<1>3. \A p : Of(p, Active) = {} /\ Of(p, Routed) = {}
  BY <1>1 DEF Of
<1>4. QuotaBalance /\ QuotaHolds
  <2>1. \A p \in Principals : principalCount[p] = 0
    OBVIOUS
  <2>2. MaxPerPrincipal \in Nat /\ MaxPerInstance \in Nat
    OBVIOUS
  <2>3. QuotaBalance
    BY <1>1, <1>2, <1>3, <2>1 DEF QuotaBalance
  <2>4. QuotaHolds
    <3>1. \A p : Cardinality(Of(p, Routed)) = 0
      BY <1>2, <1>3
    <3>2. Cardinality(Routed) = 0
      BY <1>1, <1>2
    <3> HIDE DEF Init
    <3> QED
      BY <2>2, <3>1, <3>2 DEF QuotaHolds
  <2> QED
    BY <2>3, <2>4
<1>5. RouteTypes
  BY DEF RouteTypes, NoOwner
<1>6. LinkTypes
  BY DEF LinkTypes, Links
<1> QED
  BY <1>1, <1>4, <1>5, <1>6
     DEF RouteInv, CountInv, OwnedRoutes, StaleRouteIsCleaned, UnservedIsCleaned

LEMMA NextRoutes == RouteInv /\ [Next]_vars => RouteInv'
<1> SUFFICES ASSUME RouteInv, [Next]_vars
             PROVE  RouteInv'
  OBVIOUS
<1>1. CASE Next
  BY <1>1, BrowserStep, ReadStep, ConnectionStep, DaemonStep DEF Next, Step
<1>2. CASE UNCHANGED vars
  <2>1. CountInv' /\ Kept
    BY <1>2, Unchanged DEF RouteInv, vars
  <2> QED
    BY <1>2, <2>1, SameRegistry DEF vars, registry
<1> QED
  BY <1>1, <1>2

\* The counts the quotas read are those of the routes that are active, on every
\* path that makes a terminal active or drops its route; and no principal and no
\* instance has more terminals, open or opening, than it may.
THEOREM QuotasHold == Spec => []QuotaInv
<1>1. RouteInv => QuotaInv
  BY DEF RouteInv, CountInv, QuotaInv
<1> QED
  BY <1>1, InitRoutes, NextRoutes, PTL DEF Spec

\* A route over a connection that is not the registered one is about to be cleaned
\* up, whichever of hello, sweep and the end of a loop came first.
THEOREM StaleRoutesGo == Spec => []StaleRouteIsCleaned
<1>1. RouteInv => StaleRouteIsCleaned
  BY DEF RouteInv
<1> QED
  BY <1>1, InitRoutes, NextRoutes, PTL DEF Spec
-----------------------------------------------------------------------------
(* The stream of frames about one terminal.                                *)

\* What a browser has seen of a terminal whose route is r and whose next output is the out-th.
Shape(r, s, out) ==
    /\ r \in {"unused", "pending"} => s = <<>>
    /\ r = "pending" => out = 1
    /\ r = "active" =>
          /\ Len(s) = out
          /\ \A i \in 1..Len(s) : IF i = 1 THEN s[i].kind = "opened"
                                           ELSE s[i].kind = "output" /\ s[i].seq = i - 1
    /\ \A i \in 1..Len(s) :
          /\ s[i].kind = "opened" => i = 1
          /\ s[i].kind = "output" => i > 1 /\ s[i].seq = i - 1
          /\ s[i].kind \in {"exit", "error"} => i = Len(s)

Shapes == \A t \in Terminals : Shape(route[t], seen[t], owner[t].out)
Unopened == \A t \in Terminals : t > opens => route[t] = "unused"
\* Who missed a frame has lost the terminal.
Caught == \A t \in missed : route[t] = "gone"
StreamShape == Shapes /\ Unopened /\ Caught /\ EndIsTold

-----------------------------------------------------------------------------
(* The connections, and which terminals hang on which.                     *)

\* Connections are numbered in order: the daemon has the last or none, and so has the
\* one that greets, on which there is no route yet.  A route over the daemon's connection
\* hangs on the registered one.
Lines ==
    /\ link \in {0, links} /\ greeting \in {0, links} /\ conn <= links
    /\ greeting # 0 => conn < greeting
    /\ \A t \in Routed :
          /\ owner[t].link \in 1..links
          /\ greeting # 0 => owner[t].link < greeting
          /\ owner[t].link = link => conn = link

-----------------------------------------------------------------------------
(* The PTYs.                                                               *)

\* The daemon handles an open once and before the closes of its terminal.
OpensFirst ==
    \A i, j \in 1..Len(inbox) :
        /\ inbox[i].kind = "open" /\ inbox[j].kind \in {"open", "close"}
           /\ inbox[i].term = inbox[j].term => i <= j
Asked == /\ \A i \in 1..Len(inbox) : inbox[i].term <= opens
         /\ \A i \in 1..Len(inbox) : inbox[i].kind = "close" => inbox[i].seq = 0

\* The daemon has handled the open of t.
Handled(t) == t <= opens /\ \A i \in 1..Len(inbox) : inbox[i].kind = "open" => inbox[i].term # t

\* What is known of a terminal that the daemon reports on.
Reported(frame) ==
    /\ Handled(frame.term)
    /\ frame.kind \in {"rejected", "exit"} => frame.term \notin Sessions
Reports ==
    /\ \A t \in Sessions : Handled(t)
    /\ \A i \in 1..Len(events) : Reported(events[i])
    /\ \A n \in Links : \A i \in 1..Len(up[n]) : Reported(up[n][i])

\* The user of t reaches its PTY, or the connection is about to be cut.
Reached(t) == (t \in Routed /\ owner[t].link = link) \/ link \in cut
\* The PTY of t, or all of them, end when the daemon has handled what comes after k.
EndsAfter(k, t) ==
    \E j \in 1..Len(inbox) : j > k /\ inbox[j] \in {Lost, Frame("close", t, 0)}

\* True of the PTYs that run and of those that the daemon has yet to open.
Accounted ==
    /\ \A t \in Sessions : Reached(t) \/ EndsAfter(0, t)
    /\ \A i \in 1..Len(inbox) : inbox[i].kind = "open" =>
          Reached(inbox[i].term) \/ EndsAfter(i, inbox[i].term)

HostInv == OpensFirst /\ Asked /\ Reports /\ Accounted

\* The types that RouteInv leaves out.
OutTypes == \A t \in Terminals : owner[t].out \in 1..(MaxChunks + 1)
ClientTypes ==
    /\ shutting \in BOOLEAN /\ browser \subseteq Browsers
    /\ seen \in [Terminals -> Seq([kind : {"opened", "output", "exit", "error"},
                                   seq : 0..MaxChunks])]
    /\ missed \subseteq Terminals /\ userClosed \subseteq Terminals
ServerTypes ==
    /\ online \in BOOLEAN /\ serving \subseteq Links /\ cut \subseteq Links
    /\ cleaning \subseteq 0..MaxLinks /\ mishaps \in 0..budget.mishaps
DaemonTypes ==
    /\ link \in 0..MaxLinks
    /\ inbox \in Seq(Frames(DownKinds)) /\ up \in [Links -> Seq(Frames(UpKinds))]
    /\ pty \in [Terminals -> 0..MaxChunks \cup {NoPty}]
    /\ events \in Seq(Frames(UpKinds))

TInv ==
    /\ RouteInv /\ OutTypes /\ ClientTypes /\ ServerTypes /\ DaemonTypes
    /\ StreamShape /\ Lines /\ HostInv

-----------------------------------------------------------------------------
(* Closes on their way to the daemon.                                      *)

LEMMA Bounds ==
    /\ MaxOpens \in Nat /\ MaxChunks \in Nat /\ MaxLinks \in Nat \ {0}
    /\ Terminals = 1..MaxOpens /\ Links = 1..MaxLinks
    /\ \A b \in Budgets : /\ b.opens \in 0..MaxOpens /\ b.chunks \in 0..MaxChunks
                          /\ b.links \in 1..MaxLinks /\ b.mishaps \in Nat
BY TerminalAssumption DEF TerminalAssumption, Terminals, Links

\* One close for each terminal of S, in some order.
LEMMA ClosesAre ==
    ASSUME NEW S \in SUBSET (0..MaxOpens)
    PROVE  /\ Closes(S) \in Seq(Frames(DownKinds))
           /\ \A i \in 1..Len(Closes(S)) : \E t \in S : Closes(S)[i] = Frame("close", t, 0)
           /\ \A t \in S : \E i \in 1..Len(Closes(S)) : Closes(S)[i] = Frame("close", t, 0)
<1> DEFINE n == Cardinality(S)
           good(f) == {f[i] : i \in DOMAIN f} = S
           order == CHOOSE f \in [1..n -> S] : good(f)
<1>1. IsFiniteSet(S)
  <2>1. IsFiniteSet(0..MaxOpens)
    BY Bounds, FS_Interval
  <2> QED
    BY <2>1, FS_Subset
<1>2. n \in Nat /\ ExistsBijection(1..n, S)
  BY <1>1, FS_CardinalityType
<1>3. \E f \in [1..n -> S] : good(f)
  <2>1. PICK f \in [1..n -> S] : \A t \in S : \E i \in 1..n : f[i] = t
    BY <1>2 DEF ExistsBijection, Bijection, Injection, Surjection
  <2> QED
    BY <2>1
<1>4. order \in [1..n -> S] /\ good(order)
  BY <1>3
<1>5. Closes(S) = [i \in 1..n |-> Frame("close", order[i], 0)]
  BY DEF Closes
<1>6. MaxChunks \in Nat
  BY Bounds
<1> HIDE DEF order, n
<1>7. \A i \in 1..n : order[i] \in S
  BY <1>4
<1>8. \A t \in S : \E i \in 1..n : order[i] = t
  BY <1>4
<1>9. \A i \in 1..n : Closes(S)[i] \in Frames(DownKinds)
  <2> TAKE i \in 1..n
  <2>1. order[i] \in 0..MaxOpens
    BY <1>7
  <2>2. Closes(S)[i] = Frame("close", order[i], 0)
    BY <1>5
  <2> QED
    BY <1>6, <2>1, <2>2 DEF Frame, Frames, DownKinds
<1>10. Closes(S) \in Seq(Frames(DownKinds)) /\ Len(Closes(S)) = n
  BY <1>2, <1>5, <1>9
<1>11. \A i \in 1..n : Closes(S)[i] = Frame("close", order[i], 0)
  BY <1>5
<1> QED
  BY <1>7, <1>8, <1>10, <1>11

\* Closes of S, if anything, come after what is in the inbox.
More(S) ==
    /\ inbox' \in Seq(Frames(DownKinds)) /\ Len(inbox) <= Len(inbox')
    /\ \A i \in 1..Len(inbox) : inbox'[i] = inbox[i]
    /\ \A i \in (Len(inbox) + 1)..Len(inbox') : \E t \in S : inbox'[i] = Frame("close", t, 0)

\* A terminal of S is closed, unless its connection is not the daemon's or will be cut.
LEMMA ClosesGo ==
    ASSUME DaemonTypes, Asked, cut \subseteq Links,
           NEW n \in 0..MaxLinks, NEW S \in SUBSET (0..MaxOpens), SendCloses(n, S)
    PROVE  /\ More(S) /\ cut \subseteq cut' /\ cut' \subseteq Links
           /\ n # 0 /\ conn = n /\ link = n =>
                \A t \in S : n \in cut'
                             \/ \E i \in 1..Len(inbox') : inbox'[i] = Frame("close", t, 0)
<1> USE DEF DaemonTypes
<1>1. CASE (S = {} \/ n = 0 \/ conn # n) /\ UNCHANGED wire
  <2>1. inbox' = inbox /\ cut' = cut
    BY <1>1 DEF wire
  <2> QED
    BY <1>1, <2>1 DEF More
<1>2. ASSUME NEW fits \in SUBSET S, n # 0, conn = n,
             inbox' = Deliver(n, Closes(fits \ Closing)),
             cut' = IF fits = S THEN cut ELSE cut \cup {n}
      PROVE  /\ More(S) /\ cut \subseteq cut' /\ cut' \subseteq Links
             /\ link = n =>
                  \A t \in S : n \in cut'
                               \/ \E i \in 1..Len(inbox') : inbox'[i] = Frame("close", t, 0)
  <2> DEFINE C == Closes(fits \ Closing)
  <2>1. n \in Links
    BY <1>2, Bounds
  <2>2. cut \subseteq cut' /\ cut' \subseteq Links
    BY <1>2, <2>1
  <2>3. /\ C \in Seq(Frames(DownKinds))
        /\ \A i \in 1..Len(C) : \E t \in S : C[i] = Frame("close", t, 0)
        /\ \A t \in fits \ Closing : \E i \in 1..Len(C) : C[i] = Frame("close", t, 0)
    <3>1. fits \ Closing \in SUBSET (0..MaxOpens)
      OBVIOUS
    <3>2. \A i \in 1..Len(C) : \E t \in fits \ Closing : C[i] = Frame("close", t, 0)
      BY <3>1, ClosesAre
    <3> QED
      BY <3>1, <3>2, ClosesAre
  <2> HIDE DEF C
  <2>4. CASE link # n
    <3>1. inbox' = inbox
      BY <1>2, <2>4 DEF Deliver
    <3> QED
      BY <2>2, <2>4, <3>1 DEF More
  <2>5. CASE link = n
    <3>1. inbox' = inbox \o C
      BY <1>2, <2>5 DEF Deliver, C
    <3>2. /\ inbox' \in Seq(Frames(DownKinds)) /\ Len(inbox') = Len(inbox) + Len(C)
          /\ \A i \in 1..Len(inbox) : inbox'[i] = inbox[i]
          /\ \A i \in 1..Len(C) : inbox'[Len(inbox) + i] = C[i]
      BY <2>3, <3>1
    <3>3. \A i \in (Len(inbox) + 1)..Len(inbox') :
            i - Len(inbox) \in 1..Len(C) /\ inbox'[i] = C[i - Len(inbox)]
      <4> TAKE i \in (Len(inbox) + 1)..Len(inbox')
      <4>1. i - Len(inbox) \in 1..Len(C) /\ Len(inbox) + (i - Len(inbox)) = i
        BY <2>3, <3>2
      <4> QED
        BY <3>2, <4>1
    <3>4. More(S)
      BY <2>3, <3>2, <3>3 DEF More
    <3>5. ASSUME NEW t \in S, n \notin cut'
          PROVE  \E i \in 1..Len(inbox') : inbox'[i] = Frame("close", t, 0)
      <4>1. t \in fits
        BY <1>2, <3>5
      <4>2. CASE t \in Closing
        <5>1. PICK i \in 1..Len(inbox) : inbox[i].kind = "close" /\ inbox[i].term = t
          BY <4>2 DEF Closing
        <5>2. inbox[i] \in Frames(DownKinds) /\ inbox[i].seq = 0
          BY <5>1 DEF Asked
        <5>3. inbox[i] = Frame("close", t, 0)
          BY <5>1, <5>2 DEF Frame, Frames
        <5> QED
          BY <2>3, <3>2, <5>3
      <4>3. CASE t \notin Closing
        <5>1. PICK i \in 1..Len(C) : C[i] = Frame("close", t, 0)
          BY <2>3, <4>1, <4>3
        <5>2. Len(inbox) + i \in 1..Len(inbox')
          BY <2>3, <3>2
        <5> QED
          BY <3>2, <5>1, <5>2
      <4> QED
        BY <4>2, <4>3
    <3> QED
      BY <2>2, <3>4, <3>5
  <2> QED
    BY <2>4, <2>5
<1> QED
  BY <1>1, <1>2 DEF SendCloses

-----------------------------------------------------------------------------
(* Frames to the browsers.                                                 *)

Notes == [kind : {"opened", "output", "exit", "error"}, seq : 0..MaxChunks]
Ends == {"exit", "error"}

\* Each browser of S got what it was told, or missed it.
Heard(S, what) ==
    /\ seen' \in [Terminals -> Seq(Notes)]
    /\ missed' \subseteq Terminals /\ missed \subseteq missed'
    /\ \A t \in Terminals \ S : seen'[t] = seen[t] /\ (t \in missed' => t \in missed)
    /\ \A t \in S : \/ seen'[t] = seen[t] /\ t \in missed'
                    \/ seen'[t] = Append(seen[t], what)
                       /\ (t \in missed' => t \in missed)

LEMMA TellStep ==
    ASSUME ClientTypes, NEW S \in SUBSET Terminals, NEW what \in Notes, Tell(S, what)
    PROVE  Heard(S, what)
<1>0. seen \in [Terminals -> Seq(Notes)] /\ missed \subseteq Terminals
  BY DEF ClientTypes, Notes
<1>1. PICK full \in SUBSET S :
        /\ missed' = missed \cup full
        /\ seen' = [t \in Terminals |->
                        IF t \in S \ full THEN Append(seen[t], what) ELSE seen[t]]
  BY DEF Tell
<1>2. \A t \in Terminals : seen[t] \in Seq(Notes) /\ Append(seen[t], what) \in Seq(Notes)
  BY <1>0
<1>3. seen' \in [Terminals -> Seq(Notes)]
  BY <1>1, <1>2
<1> QED
  BY <1>0, <1>1, <1>3 DEF Heard

\* The browsers of S heard of an end, or missed it.
EndHeard(S) ==
    /\ seen' \in [Terminals -> Seq(Notes)]
    /\ missed' \subseteq Terminals /\ missed \subseteq missed'
    /\ \A t \in Terminals \ S : seen'[t] = seen[t] /\ (t \in missed' => t \in missed)
    /\ \A t \in S : \/ seen'[t] = seen[t] /\ t \in missed'
                    \/ \E k \in Ends : seen'[t] = Append(seen[t], Note(k, 0))

LEMMA EndNotes == \A k \in Ends : Note(k, 0) \in Notes
BY Bounds DEF Ends, Note, Notes

LEMMA TellsEnd ==
    ASSUME ClientTypes, NEW S \in SUBSET Terminals, NEW k \in Ends, Tell(S, Note(k, 0))
    PROVE  EndHeard(S)
<1>1. Heard(S, Note(k, 0))
  BY EndNotes, TellStep
<1> QED
  BY <1>1 DEF Heard, EndHeard

LEMMA TellEndStep ==
    ASSUME ClientTypes, NEW S \in SUBSET Terminals, TellEnd(S)
    PROVE  EndHeard(S)
<1>0. seen \in [Terminals -> Seq(Notes)] /\ missed \subseteq Terminals
  BY DEF ClientTypes, Notes
<1> DEFINE note(t) == Note(IF t \in Active THEN "exit" ELSE "error", 0)
<1>1. PICK full \in SUBSET S :
        /\ missed' = missed \cup full
        /\ seen' = [t \in Terminals |->
                      IF t \in S \ full THEN Append(seen[t], note(t)) ELSE seen[t]]
  BY DEF TellEnd
<1>2. \A t \in Terminals : \E k \in Ends : note(t) = Note(k, 0)
  BY DEF Ends
<1>3. \A t \in Terminals : note(t) \in Notes
  BY <1>2, EndNotes
<1> HIDE DEF note
<1>4. \A t \in Terminals : seen[t] \in Seq(Notes) /\ Append(seen[t], note(t)) \in Seq(Notes)
  BY <1>0, <1>3
<1>5. seen' \in [Terminals -> Seq(Notes)]
  BY <1>1, <1>4
<1> QED
  BY <1>0, <1>1, <1>2, <1>5 DEF EndHeard

LEMMA Quiet ==
    ASSUME ClientTypes, UNCHANGED client
    PROVE  EndHeard({})
BY DEF ClientTypes, EndHeard, client, Notes

-----------------------------------------------------------------------------
(* What the streams may be.                                                *)

\* A terminal that is over is told its end, once.
LEMMA EndShape ==
    ASSUME NEW s \in Seq(Notes), NEW r \in {"unused", "pending", "active"}, NEW out,
           Shape(r, s, out), NEW k \in Ends
    PROVE  /\ Shape("gone", Append(s, Note(k, 0)), 1)
           /\ Append(s, Note(k, 0)) # <<>>
           /\ Append(s, Note(k, 0))[Len(Append(s, Note(k, 0)))].kind \in Ends
<1> DEFINE s2 == Append(s, Note(k, 0))
<1>1. Len(s) \in Nat /\ \A i \in 1..Len(s) : s[i].kind \notin Ends
  BY DEF Shape, Ends
<1>2. /\ Len(s2) = Len(s) + 1 /\ s2[Len(s) + 1] = Note(k, 0) /\ s2 # <<>>
      /\ \A i \in 1..Len(s) : s2[i] = s[i]
  BY EndNotes
<1>3. s2[Len(s2)].kind = k
  BY <1>2 DEF Note
<1> HIDE DEF s2
<1>4. ASSUME NEW i \in 1..Len(s2)
      PROVE  /\ s2[i].kind = "opened" => i = 1
             /\ s2[i].kind = "output" => i > 1 /\ s2[i].seq = i - 1
             /\ s2[i].kind \in Ends => i = Len(s2)
  <2>1. CASE i = Len(s2)
    BY <1>3, <2>1 DEF Ends
  <2>2. CASE i # Len(s2)
    <3>1. i \in 1..Len(s)
      BY <1>1, <1>2, <2>2
    <3> QED
      BY <1>1, <1>2, <3>1 DEF Shape
  <2> QED
    BY <2>1, <2>2
<1>5. Shape("gone", s2, 1)
  BY <1>4 DEF Shape, Ends
<1> QED
  BY <1>2, <1>3, <1>5 DEF s2

\* The routes of S are dropped: each user is told, or has missed something, or is gone, or
\* has asked for it.
LEMMA Ended ==
    ASSUME RouteInv, OutTypes, ClientTypes, StreamShape, NEW S \in SUBSET Routed, Forget(S),
           missed \subseteq missed', missed' \subseteq Terminals,
           userClosed \subseteq userClosed', browser' \subseteq browser,
           \A t \in Terminals \ S : seen'[t] = seen[t] /\ (t \in missed' => t \in missed),
           \A t \in S :
              \/ seen'[t] = seen[t]
                 /\ (t \in userClosed' \cup missed' \/ owner[t].browser \notin browser')
              \/ \E k \in Ends : seen'[t] = Append(seen[t], Note(k, 0))
    PROVE  StreamShape' /\ OutTypes'
<1>1. /\ route \in [Terminals -> {"unused", "pending", "active", "gone"}]
      /\ \A t \in Terminals : seen[t] \in Seq(Notes)
  BY DEF RouteInv, CountInv, RouteTypes, ClientTypes, Notes
<1>2. /\ S \subseteq Terminals /\ opens' = opens
      /\ \A t \in S : route[t] \in {"pending", "active"} /\ route'[t] = "gone"
      /\ \A t \in Terminals \ S : route'[t] = route[t] /\ owner'[t] = owner[t]
      /\ \A t \in S : owner'[t].out = 1 /\ owner'[t].browser = owner[t].browser
  BY DEF Routed, Forget, NoOwner
<1>3. OutTypes'
  BY <1>2, Bounds DEF OutTypes
<1>4. ASSUME NEW t \in S
      PROVE  /\ Shape(route'[t], seen'[t], owner'[t].out)
             /\ \/ t \in userClosed' \cup missed' \/ owner'[t].browser \notin browser'
                \/ seen'[t] # <<>> /\ seen'[t][Len(seen'[t])].kind \in Ends
  <2>1. Shape(route[t], seen[t], owner[t].out)
    BY <1>2 DEF StreamShape, Shapes
  <2>2. CASE seen'[t] = seen[t]
             /\ (t \in userClosed' \cup missed' \/ owner[t].browser \notin browser')
    <3>1. Shape("gone", seen[t], 1)
      BY <2>1 DEF Shape
    <3> QED
      BY <1>2, <2>2, <3>1
  <2>3. ASSUME NEW k \in Ends, seen'[t] = Append(seen[t], Note(k, 0))
        PROVE  /\ Shape("gone", seen'[t], 1) /\ seen'[t] # <<>>
               /\ seen'[t][Len(seen'[t])].kind \in Ends
    <3>1. route[t] \in {"unused", "pending", "active"} /\ seen[t] \in Seq(Notes)
      BY <1>1, <1>2
    <3> QED
      BY <2>1, <2>3, <3>1, EndShape
  <2> QED
    BY <1>2, <2>2, <2>3
<1>5. ASSUME NEW t \in Terminals \ S
      PROVE  /\ Shape(route'[t], seen'[t], owner'[t].out)
             /\ route'[t] = "gone" =>
                  \/ t \in userClosed' \cup missed' \/ owner'[t].browser \notin browser'
                  \/ seen'[t] # <<>> /\ seen'[t][Len(seen'[t])].kind \in Ends
  BY <1>2 DEF StreamShape, Shapes, EndIsTold, Ends
<1>6. Shapes' /\ EndIsTold'
  BY <1>4, <1>5 DEF Shapes, EndIsTold, Ends
<1>7. Unopened'
  <2>1. \A t \in Terminals : t > opens => t \notin S
    BY <1>2 DEF StreamShape, Unopened
  <2> QED
    BY <1>2, <2>1 DEF StreamShape, Unopened
<1>8. Caught'
  <2>1. \A t \in missed' : t \in S \/ (t \in missed /\ t \in Terminals \ S)
    OBVIOUS
  <2> QED
    BY <1>2, <2>1 DEF StreamShape, Caught
<1> QED
  BY <1>3, <1>6, <1>7, <1>8 DEF StreamShape

\* The same when the users were told.
LEMMA EndedAndHeard ==
    ASSUME RouteInv, OutTypes, ClientTypes, StreamShape, NEW S \in SUBSET Routed, Forget(S),
           EndHeard(S), userClosed' = userClosed, browser' = browser
    PROVE  StreamShape' /\ OutTypes'
BY Ended DEF EndHeard

LEMMA SameStreams ==
    ASSUME OutTypes, StreamShape, UNCHANGED <<opens, route, owner, seen, missed, userClosed>>,
           browser' \subseteq browser
    PROVE  StreamShape' /\ OutTypes'
BY DEF OutTypes, StreamShape, Shapes, Unopened, Caught, EndIsTold

-----------------------------------------------------------------------------
(* What the steps of the server leave of the host and the frames.          *)

\* Frames may have been read, none are new.
Shrinks ==
    /\ up' \in [Links -> Seq(Frames(UpKinds))]
    /\ \A n \in Links : \A i \in 1..Len(up'[n]) : \E j \in 1..Len(up[n]) : up'[n][i] = up[n][j]

LEMMA SameUp == ASSUME DaemonTypes, up' = up PROVE Shrinks
BY DEF DaemonTypes, Shrinks

LEMMA ReadShrinks == ASSUME DaemonTypes, NEW n \in Links, Reading(n), Read(n) PROVE Shrinks
<1>1. up[n] \in Seq(Frames(UpKinds)) /\ up[n] # <<>>
  BY DEF DaemonTypes, Reading
<1>2. /\ Tail(up[n]) \in Seq(Frames(UpKinds))
      /\ \A i \in 1..Len(Tail(up[n])) :
           i + 1 \in 1..Len(up[n]) /\ Tail(up[n])[i] = up[n][i + 1]
  BY <1>1
<1>3. \A m \in Links : up'[m] = IF m = n THEN Tail(up[n]) ELSE up[m]
  BY DEF DaemonTypes, Read
<1>4. up' \in [Links -> Seq(Frames(UpKinds))]
  BY <1>2 DEF DaemonTypes, Read
<1> QED
  BY <1>2, <1>3, <1>4 DEF Shrinks

LEMMA EmptyShrinks ==
    ASSUME DaemonTypes, NEW n \in Links, up' = [up EXCEPT ![n] = <<>>] PROVE Shrinks
<1>1. \A m \in Links : up'[m] = IF m = n THEN <<>> ELSE up[m]
  BY DEF DaemonTypes
<1>2. up' \in [Links -> Seq(Frames(UpKinds))]
  BY DEF DaemonTypes
<1> QED
  BY <1>1, <1>2 DEF Shrinks

\* The daemon's PTYs and events are left alone, and what the inbox gains are closes.
LEMMA HostKept ==
    ASSUME DaemonTypes, HostInv, NEW S, More(S), \A t \in S : t <= opens,
           Shrinks, UNCHANGED <<opens, pty, events>>
    PROVE  OpensFirst' /\ Asked' /\ Reports' /\ \A t : Handled(t) => Handled(t)'
<1> USE DEF HostInv, DaemonTypes
<1> DEFINE n == Len(inbox)
<1>1. n \in Nat /\ Len(inbox') \in Nat /\ n <= Len(inbox')
  BY DEF More
<1>2. \A i \in 1..n : i \in 1..Len(inbox') /\ inbox'[i] = inbox[i]
  BY <1>1 DEF More
<1>3. \A i \in 1..Len(inbox') : i \in 1..n \/
        (i > n /\ inbox'[i].kind = "close" /\ inbox'[i].seq = 0 /\ inbox'[i].term <= opens)
  <2> TAKE i \in 1..Len(inbox')
  <2>1. CASE i > n
    <3>1. i \in (n + 1)..Len(inbox')
      BY <1>1, <2>1
    <3>2. PICK t \in S : inbox'[i] = Frame("close", t, 0)
      BY <3>1 DEF More
    <3> QED
      BY <2>1, <3>2 DEF Frame
  <2>2. CASE ~(i > n)
    BY <1>1, <2>2
  <2> QED
    BY <2>1, <2>2
<1>4. OpensFirst'
  <2> SUFFICES ASSUME NEW i \in 1..Len(inbox'), NEW j \in 1..Len(inbox'),
                      inbox'[i].kind = "open", inbox'[j].kind \in {"open", "close"},
                      inbox'[i].term = inbox'[j].term
               PROVE  i <= j
    BY DEF OpensFirst
  <2>1. i \in 1..n
    BY <1>3
  <2>2. CASE j \in 1..n
    BY <1>2, <2>1, <2>2 DEF OpensFirst
  <2>3. CASE j > n
    BY <1>1, <2>1, <2>3
  <2> QED
    BY <1>3, <2>2, <2>3
<1>5. Asked'
  BY <1>2, <1>3 DEF Asked
<1>6. ASSUME NEW t, Handled(t)
      PROVE  Handled(t)'
  BY <1>2, <1>3, <1>6 DEF Handled
<1>7. Sessions' = Sessions
  BY DEF Sessions
<1>8. ASSUME NEW frame, Reported(frame)
      PROVE  Handled(frame.term)' /\ (frame.kind \in {"rejected", "exit"} => frame.term \notin Sessions')
  BY <1>6, <1>7, <1>8 DEF Reported
<1>9. Reports'
  <2>1. \A t \in Sessions' : Handled(t)'
    BY <1>6, <1>7 DEF Reports
  <2>2. \A i \in 1..Len(events') : Reported(events[i])'
    <3>1. \A i \in 1..Len(events') : Reported(events[i])
      BY DEF Reports
    <3> QED
      BY <1>8, <3>1 DEF Reported
  <2>3. ASSUME NEW m \in Links, NEW i \in 1..Len(up'[m])
        PROVE  Reported(up[m][i])'
    <3>1. PICK j \in 1..Len(up[m]) : up'[m][i] = up[m][j]
      BY DEF Shrinks
    <3>2. PICK frame : frame = up[m][j]
      OBVIOUS
    <3>3. Reported(frame)
      BY <3>2 DEF Reports
    <3>4. frame = up'[m][i]
      BY <3>1, <3>2
    <3>5. Handled(frame.term)' /\ (frame.kind \in {"rejected", "exit"} => frame.term \notin Sessions')
      BY <1>8, <3>3
    <3> QED
      BY <3>4, <3>5 DEF Reported, Handled
  <2> QED
    BY <2>1, <2>2, <2>3 DEF Reports
<1> QED
  BY <1>4, <1>5, <1>6, <1>9

\* Terminals stay in reach of their users unless they are over or closed.
LEMMA StillAccounted ==
    ASSUME DaemonTypes, HostInv, NEW S, More(S), \A t \in S : t <= opens,
           Shrinks, UNCHANGED <<opens, pty, events>>,
           \A t \in 0..MaxOpens : Reached(t) =>
              \/ Handled(t) /\ t \notin Sessions
              \/ Reached(t)'
              \/ \E i \in 1..Len(inbox') : inbox'[i] = Frame("close", t, 0)
    PROVE  HostInv'
<1>1. OpensFirst' /\ Asked' /\ Reports'
  BY HostKept
<1> USE DEF DaemonTypes
<1>2. Len(inbox) \in Nat /\ Len(inbox') \in Nat /\ Len(inbox) <= Len(inbox')
  BY DEF More
<1>3. \A i \in 1..Len(inbox) : i \in 1..Len(inbox') /\ inbox'[i] = inbox[i]
  BY <1>2 DEF More
<1>4. \A i \in 1..Len(inbox') : inbox'[i].kind = "open" => i \in 1..Len(inbox)
  <2> TAKE i \in 1..Len(inbox')
  <2>1. CASE i > Len(inbox)
    <3>1. i \in (Len(inbox) + 1)..Len(inbox')
      BY <1>2, <2>1
    <3>2. PICK t \in S : inbox'[i] = Frame("close", t, 0)
      BY <3>1 DEF More
    <3> QED
      BY <3>2 DEF Frame
  <2>2. CASE ~(i > Len(inbox))
    BY <1>2, <2>2
  <2> QED
    BY <2>1, <2>2
<1>5. ASSUME NEW k, NEW t, EndsAfter(k, t)
      PROVE  EndsAfter(k, t)'
  BY <1>3, <1>5 DEF EndsAfter
<1>6. ASSUME NEW t \in Sessions'
      PROVE  Reached(t)' \/ EndsAfter(0, t)'
  <2>1. t \in Sessions /\ t \in 0..MaxOpens
    BY Bounds DEF Sessions
  <2>2. Reached(t) \/ EndsAfter(0, t)
    BY <2>1 DEF HostInv, Accounted
  <2>3. CASE EndsAfter(0, t)
    BY <1>5, <2>3
  <2>4. ASSUME NEW i \in 1..Len(inbox'), inbox'[i] = Frame("close", t, 0)
        PROVE  EndsAfter(0, t)'
    BY <2>4 DEF EndsAfter
  <2> QED
    BY <2>1, <2>2, <2>3, <2>4
<1>7. ASSUME NEW i \in 1..Len(inbox'), inbox'[i].kind = "open"
      PROVE  Reached(inbox[i].term)' \/ EndsAfter(i, inbox[i].term)'
  <2>1. PICK t : t = inbox[i].term
    OBVIOUS
  <2>2. i \in 1..Len(inbox) /\ inbox[i].kind = "open" /\ inbox'[i].term = t
        /\ inbox[i] \in Frames(DownKinds)
    BY <1>3, <1>4, <1>7, <2>1
  <2>3. t \in 0..MaxOpens /\ ~Handled(t)
    BY <2>1, <2>2 DEF Frames, Handled
  <2>4. Reached(t) \/ EndsAfter(i, t)
    BY <2>1, <2>2 DEF HostInv, Accounted
  <2>5. ASSUME NEW j \in 1..Len(inbox'), inbox'[j] = Frame("close", t, 0)
        PROVE  EndsAfter(i, t)'
    <3>1. inbox'[j].kind = "close" /\ inbox'[j].term = t
      BY <2>5 DEF Frame
    <3>2. i <= j
      BY <1>1, <1>7, <2>2, <3>1 DEF OpensFirst
    <3>3. i # j
      BY <1>7, <3>1
    <3>4. i \in Int /\ j \in Int
      OBVIOUS
    <3>5. j > i
      BY <3>2, <3>3, <3>4
    <3> QED
      BY <2>5, <3>5 DEF EndsAfter
  <2>6. Reached(t)' \/ EndsAfter(i, t)'
    BY <1>5, <2>3, <2>4, <2>5
  <2> QED
    BY <2>2, <2>6 DEF Reached, EndsAfter
<1>8. Accounted'
  BY <1>6, <1>7 DEF Accounted
<1> QED
  BY <1>1, <1>8 DEF HostInv

\* The steps of the server that answer a user, the instance or the sweep: whose route they
\* drop over the registered connection is closed there.
LEMMA ServerHost ==
    ASSUME TInv, NEW S \in SUBSET (0..MaxOpens), \A t \in S : t <= opens,
           SendCloses(conn, S), Shrinks, UNCHANGED <<opens, pty, events, link>>,
           \A t \in Routed :
              \/ t \in Routed' /\ owner'[t].link = owner[t].link
              \/ t \in S
              \/ owner[t].link # conn
              \/ Handled(t) /\ t \notin Sessions
    PROVE  HostInv' /\ DaemonTypes' /\ cut' \subseteq Links
<1> USE DEF TInv
<1>1. conn \in 0..MaxLinks /\ cut \subseteq Links /\ Asked
  BY DEF RouteInv, LinkTypes, ServerTypes, HostInv
<1>2. /\ More(S) /\ cut \subseteq cut' /\ cut' \subseteq Links
      /\ conn # 0 /\ link = conn =>
            \A t \in S : conn \in cut'
                         \/ \E i \in 1..Len(inbox') : inbox'[i] = Frame("close", t, 0)
  BY <1>1, ClosesGo
<1>3. DaemonTypes'
  BY <1>2 DEF DaemonTypes, More, Shrinks
<1>4. ASSUME NEW t \in 0..MaxOpens, Reached(t)
      PROVE  \/ Handled(t) /\ t \notin Sessions
             \/ Reached(t)'
             \/ \E i \in 1..Len(inbox') : inbox'[i] = Frame("close", t, 0)
  <2>1. CASE link \in cut
    BY <1>2, <2>1 DEF Reached
  <2>2. CASE t \in Routed /\ owner[t].link = link
    <3>1. conn = link /\ conn # 0
      BY <2>2, <1>1, Bounds DEF Lines, RouteInv, LinkTypes
    <3>2. \/ t \in Routed' /\ owner'[t].link = owner[t].link
          \/ t \in S
          \/ Handled(t) /\ t \notin Sessions
      BY <2>2, <3>1
    <3>3. CASE t \in Routed' /\ owner'[t].link = owner[t].link
      BY <2>2, <3>3 DEF Reached
    <3>4. CASE t \in S
      BY <1>2, <3>1, <3>4 DEF Reached
    <3> QED
      BY <3>2, <3>3, <3>4
  <2> QED
    BY <1>4, <2>1, <2>2 DEF Reached
<1>5. HostInv'
  BY <1>2, <1>4, StillAccounted
<1> QED
  BY <1>2, <1>3, <1>5

\* When nothing is sent.
LEMMA NoClose == ASSUME UNCHANGED wire PROVE SendCloses(conn, {})
BY DEF SendCloses

\* The daemon has lost its connection and will close everything.
LEMMA LoseLinkStep ==
    ASSUME TInv, LoseLink, Shrinks, UNCHANGED <<opens, pty, events>>
    PROVE  HostInv' /\ DaemonTypes'
<1> USE DEF TInv, HostInv, DaemonTypes
<1>1. PICK k \in 0..Len(inbox) : inbox' = Append(SubSeq(inbox, 1, k), Lost)
  BY DEF LoseLink
<1>2. Lost \in Frames(DownKinds) /\ Lost.kind = "lost" /\ Lost.term = 0
  BY Bounds DEF Lost, Frame, Frames, DownKinds
<1>3. /\ SubSeq(inbox, 1, k) \in Seq(Frames(DownKinds)) /\ Len(SubSeq(inbox, 1, k)) = k
      /\ \A i \in 1..k : SubSeq(inbox, 1, k)[i] = inbox[i]
  OBVIOUS
<1>4. /\ inbox' \in Seq(Frames(DownKinds)) /\ Len(inbox') = k + 1 /\ k \in Nat
      /\ inbox'[k + 1] = Lost
      /\ \A i \in 1..k : i \in 1..Len(inbox) /\ inbox'[i] = inbox[i]
  BY <1>1, <1>2, <1>3
<1>5. DaemonTypes'
  <2>1. link' \in 0..MaxLinks
    BY Bounds DEF LoseLink
  <2> QED
    BY <1>4, <2>1 DEF Shrinks
<1>6. \A i \in 1..Len(inbox') : i \in 1..k \/ (i = k + 1 /\ inbox'[i] = Lost)
  BY <1>4
<1>7. OpensFirst'
  BY <1>2, <1>4, <1>6 DEF OpensFirst
<1>8. Asked'
  <2>1. opens' \in 0..MaxOpens /\ opens' = opens
    BY DEF RouteInv, CountInv, RouteTypes
  <2>2. 0 <= opens'
    BY <2>1, Bounds
  <2> QED
    BY <1>2, <1>4, <1>6, <2>1, <2>2 DEF Asked
<1>9. ASSUME NEW t, Handled(t)
      PROVE  Handled(t)'
  BY <1>2, <1>4, <1>6, <1>9 DEF Handled
<1>10. Sessions' = Sessions
  BY DEF Sessions
<1>11. ASSUME NEW frame, Reported(frame)
      PROVE  Handled(frame.term)' /\ (frame.kind \in {"rejected", "exit"} => frame.term \notin Sessions')
  BY <1>9, <1>10, <1>11 DEF Reported
<1>12. Reports'
  <2>1. \A t \in Sessions' : Handled(t)'
    BY <1>9, <1>10 DEF Reports
  <2>2. \A i \in 1..Len(events') : Reported(events[i])'
    <3>1. \A i \in 1..Len(events') : Reported(events[i])
      BY DEF Reports
    <3> QED
      BY <1>11, <3>1 DEF Reported
  <2>3. ASSUME NEW m \in Links, NEW i \in 1..Len(up'[m])
        PROVE  Reported(up[m][i])'
    <3>1. PICK j \in 1..Len(up[m]) : up'[m][i] = up[m][j]
      BY DEF Shrinks
    <3>2. PICK frame : frame = up[m][j]
      OBVIOUS
    <3>3. Reported(frame)
      BY <3>2 DEF Reports
    <3>4. frame = up'[m][i]
      BY <3>1, <3>2
    <3>5. Handled(frame.term)' /\ (frame.kind \in {"rejected", "exit"} => frame.term \notin Sessions')
      BY <1>11, <3>3
    <3> QED
      BY <3>4, <3>5 DEF Reported, Handled
  <2> QED
    BY <2>1, <2>2, <2>3 DEF Reports
<1>13. Accounted'
  <2>1. \A i \in 0..k : \A t : EndsAfter(i, t)'
    BY <1>4 DEF EndsAfter
  <2>2. \A i \in 1..Len(inbox') : inbox'[i].kind = "open" => i \in 0..k
    BY <1>2, <1>6
  <2>3. 0 \in 0..k
    OBVIOUS
  <2> QED
    BY <2>1, <2>2, <2>3 DEF Accounted
<1> QED
  BY <1>5, <1>7, <1>8, <1>12, <1>13

-----------------------------------------------------------------------------
(* Steps of the server.                                                    *)

LEMMA Gains ==
    ASSUME cut' \subseteq Links, missed' \subseteq Terminals
    PROVE  Cardinality(cut' \ cut) \in Nat /\ Cardinality(missed' \ missed) \in Nat
<1>1. IsFiniteSet(Links)
  BY Bounds, FS_Interval
<1>2. IsFiniteSet(cut' \ cut) /\ IsFiniteSet(missed' \ missed)
  <2>1. cut' \ cut \in SUBSET Links /\ missed' \ missed \in SUBSET Terminals
    OBVIOUS
  <2> QED
    BY <1>1, <2>1, FS_Subset, FiniteTerminals
<1> QED
  BY <1>2, FS_CardinalityType

LEMMA CloseCuts ==
    ASSUME TInv, NEW S \in SUBSET (0..MaxOpens), SendCloses(conn, S)
    PROVE  cut' \subseteq Links /\ Cardinality(cut' \ cut) \in Nat
<1>1. conn \in 0..MaxLinks /\ cut \subseteq Links /\ Asked /\ DaemonTypes
  BY DEF TInv, RouteInv, LinkTypes, ServerTypes, HostInv
<1>2. cut' \subseteq Links
  BY <1>1, ClosesGo
<1>3. IsFiniteSet(Links)
  BY Bounds, FS_Interval
<1>4. IsFiniteSet(cut' \ cut)
  BY <1>2, <1>3, FS_Subset
<1> QED
  BY <1>2, <1>4, FS_CardinalityType

LEMMA MishapsTyped ==
    ASSUME TInv, budget' = budget, NEW k \in Nat, Mishap(k)
    PROVE  mishaps' \in 0..budget'.mishaps
<1>1. mishaps \in 0..budget.mishaps /\ budget \in Budgets
  BY DEF TInv, ServerTypes, RouteInv, LinkTypes
<1>2. budget.mishaps \in Nat
  BY <1>1, Bounds
<1> QED
  BY <1>1, <1>2 DEF Mishap

LEMMA RoutedAre ==
    ASSUME TInv
    PROVE  /\ Routed \in SUBSET (0..MaxOpens) /\ Routed \subseteq Terminals
           /\ \A t \in Routed : t <= opens
           /\ Active \subseteq Routed /\ Pending \subseteq Routed
           /\ conn \in 0..MaxLinks /\ greeting \in 0..MaxLinks /\ links \in 1..MaxLinks
<1>1. Routed \subseteq Terminals /\ Terminals \subseteq 0..MaxOpens
  BY Bounds DEF Routed
<1> QED
  BY <1>1, Bounds DEF TInv, RouteInv, CountInv, OwnedRoutes, LinkTypes, Routed, Active, Pending

LEMMA SameLines ==
    ASSUME TInv, Kept, UNCHANGED <<conn, greeting, link, links>>
    PROVE  Lines'
BY DEF TInv, Lines, Kept

\* A handler that answers a user, the instance or the sweep.
LEMMA Handler ==
    ASSUME TInv, RouteInv', Kept, budget' = budget,
           UNCHANGED <<opens, conn, greeting, link, links, host>>,
           shutting' \in BOOLEAN, online' \in BOOLEAN, serving' \subseteq Links,
           cleaning' \subseteq 0..MaxLinks,
           NEW S \in SUBSET (0..MaxOpens), \A t \in S : t <= opens,
           SendCloses(conn, S), Shrinks,
           \A t \in Routed :
              \/ t \in Routed' /\ owner'[t].link = owner[t].link
              \/ t \in S
              \/ owner[t].link # conn
              \/ Handled(t) /\ t \notin Sessions,
           browser' \subseteq browser, userClosed' \subseteq Terminals,
           seen' \in [Terminals -> Seq(Notes)], missed' \subseteq Terminals,
           OutTypes', StreamShape', mishaps' \in 0..budget'.mishaps
    PROVE  TInv'
<1>1. HostInv' /\ DaemonTypes' /\ cut' \subseteq Links
  BY ServerHost DEF host
<1>2. ClientTypes'
  BY DEF TInv, ClientTypes, Notes
<1>3. ServerTypes'
  BY <1>1 DEF TInv, ServerTypes
<1>4. Lines'
  BY SameLines
<1> QED
  BY <1>1, <1>2, <1>3, <1>4 DEF TInv

\* Routes of S are dropped and closed.
LEMMA Drops ==
    ASSUME TInv, RouteInv', budget' = budget, NEW S \in SUBSET Routed,
           RemoveRoutes(S), CloseOwn(S), Shrinks,
           UNCHANGED <<shutting, registry, link, links, host>>,
           browser' \subseteq browser, userClosed' \subseteq Terminals,
           seen' \in [Terminals -> Seq(Notes)], missed' \subseteq Terminals,
           missed \subseteq missed', userClosed \subseteq userClosed',
           \A t \in Terminals \ S : seen'[t] = seen[t] /\ (t \in missed' => t \in missed),
           \A t \in S :
              \/ seen'[t] = seen[t]
                 /\ (t \in userClosed' \cup missed' \/ owner[t].browser \notin browser')
              \/ \E k \in Ends : seen'[t] = Append(seen[t], Note(k, 0)),
           NEW k \in Nat, Cardinality(cut' \ cut) \in Nat => Mishap(k + Cardinality(cut' \ cut))
    PROVE  TInv'
<1> DEFINE C == {t \in S : owner[t].link = conn}
<1>1. C \in SUBSET (0..MaxOpens) /\ (\A t \in C : t <= opens) /\ SendCloses(conn, C)
  BY RoutedAre DEF CloseOwn
<1>2. CountInv' /\ Kept /\ Routed' = Routed \ S /\ Forget(S)
  BY Removed DEF TInv, RouteInv, RemoveRoutes
<1>3. StreamShape' /\ OutTypes'
  BY <1>2, Ended DEF TInv
<1>4. mishaps' \in 0..budget'.mishaps
  <2>1. Cardinality(cut' \ cut) \in Nat
    BY <1>1, CloseCuts
  <2> QED
    BY <2>1, MishapsTyped
<1>5. \A t \in Routed : \/ t \in Routed' /\ owner'[t].link = owner[t].link
                        \/ t \in C
                        \/ owner[t].link # conn
  BY <1>2 DEF Kept
<1>6. opens' = opens
  BY <1>2 DEF Forget
<1> QED
  BY <1>1, <1>2, <1>3, <1>4, <1>5, <1>6, Handler DEF registry, TInv, ClientTypes, ServerTypes

LEMMA InputT ==
    ASSUME TInv, RouteInv', budget' = budget, NEW t \in Terminals, HandleInput(t)
    PROVE  TInv'
<1>1. {t} \in SUBSET Routed /\ {t} \in SUBSET Terminals
  BY RoutedAre DEF HandleInput
<1>2. EndHeard({t})
  BY <1>1, TellsEnd DEF HandleInput, FailActive, Ends, TInv
<1>3. Shrinks
  BY SameUp DEF HandleInput, TInv
<1> DEFINE k == (IF Reachable(t) THEN 1 ELSE 0) + Cardinality(missed' \ missed)
<1>4. /\ Cardinality(missed' \ missed) \in Nat
      /\ Cardinality(cut' \ cut) \in Nat => Mishap(k + Cardinality(cut' \ cut))
  <2>1. Cardinality(missed' \ missed) \in Nat
    <3>1. missed' \ missed \in SUBSET Terminals
      BY <1>2 DEF EndHeard
    <3> QED
      BY <3>1, CountType
  <2>2. Mishap((IF Reachable(t) THEN 1 ELSE 0) + Cardinality(cut' \ cut)
                + Cardinality(missed' \ missed))
    BY DEF HandleInput
  <2>3. PICK r \in Nat : r = IF Reachable(t) THEN 1 ELSE 0
    OBVIOUS
  <2> QED
    BY <2>1, <2>2, <2>3
<1>5. k \in Nat
  BY <1>4
<1> HIDE DEF k
<1>6. /\ RemoveRoutes({t}) /\ CloseOwn({t})
      /\ UNCHANGED <<shutting, registry, link, links, host, browser, userClosed>>
  BY DEF HandleInput, FailActive
<1> QED
  BY <1>1, <1>2, <1>3, <1>4, <1>5, <1>6, Drops DEF EndHeard, TInv, ClientTypes

LEMMA CloseT ==
    ASSUME TInv, RouteInv', budget' = budget, NEW t \in Terminals, HandleClose(t)
    PROVE  TInv'
<1>1. {t} \in SUBSET Routed
  BY DEF HandleClose
<1>2. EndHeard({}) /\ UNCHANGED client
  BY Quiet DEF HandleClose, TInv
<1>3. Shrinks
  BY SameUp DEF HandleClose, TInv
<1>4. Cardinality(cut' \ cut) \in Nat => Mishap(0 + Cardinality(cut' \ cut))
  BY DEF HandleClose
<1>5. /\ RemoveRoutes({t}) /\ CloseOwn({t})
      /\ UNCHANGED <<shutting, registry, link, links, host, browser>>
      /\ userClosed' = userClosed \cup {t}
  BY DEF HandleClose
<1> QED
  BY <1>1, <1>2, <1>3, <1>4, <1>5, Drops DEF EndHeard, TInv, ClientTypes, client

LEMMA DisconnectT ==
    ASSUME TInv, RouteInv', budget' = budget, NEW b \in Browsers, Disconnect(b)
    PROVE  TInv'
<1> DEFINE mine == {t \in Routed : owner[t].browser = b}
<1>1. mine \in SUBSET Routed
  OBVIOUS
<1>2. EndHeard({}) /\ UNCHANGED client
  BY Quiet DEF Disconnect, TInv
<1>3. Shrinks
  BY SameUp DEF Disconnect, TInv
<1>4. Cardinality(cut' \ cut) \in Nat => Mishap(1 + Cardinality(cut' \ cut))
  BY DEF Disconnect
<1>5. /\ RemoveRoutes(mine) /\ CloseOwn(mine)
      /\ UNCHANGED <<shutting, registry, link, links, host, userClosed>>
      /\ browser' = browser \ {b}
  BY DEF Disconnect
<1>6. \A t \in mine : owner[t].browser \notin browser'
  BY <1>5
<1> HIDE DEF mine
<1> QED
  BY <1>1, <1>2, <1>3, <1>4, <1>5, <1>6, Drops DEF EndHeard, TInv, ClientTypes, client

LEMMA SweepT ==
    ASSUME TInv, RouteInv', budget' = budget, NEW t \in Terminals, SweepPending(t)
    PROVE  TInv'
<1>1. {t} \in SUBSET Routed /\ {t} \in SUBSET Terminals
  BY RoutedAre DEF SweepPending
<1>2. EndHeard({t})
  BY <1>1, TellsEnd DEF SweepPending, Ends, TInv
<1>3. Shrinks
  BY SameUp DEF SweepPending, TInv
<1>4. Cardinality(missed' \ missed) \in Nat
  <2>1. missed' \ missed \in SUBSET Terminals
    BY <1>2 DEF EndHeard
  <2> QED
    BY <2>1, CountType
<1>5. Cardinality(cut' \ cut) \in Nat
        => Mishap(Cardinality(missed' \ missed) + Cardinality(cut' \ cut))
  <2>1. Mishap(Cardinality(cut' \ cut) + Cardinality(missed' \ missed))
    BY DEF SweepPending, QueuesFull
  <2> QED
    BY <1>4, <2>1
<1>6. /\ RemoveRoutes({t}) /\ CloseOwn({t})
      /\ UNCHANGED <<shutting, registry, link, links, host, browser, userClosed>>
  BY DEF SweepPending
<1> QED
  BY <1>1, <1>2, <1>3, <1>4, <1>5, <1>6, Drops DEF EndHeard, TInv, ClientTypes

\* An open that is admitted: the route is pending and the open on its way, or it is over.
LEMMA OpenT ==
    ASSUME TInv, RouteInv', budget' = budget, NEW b \in Browsers, HandleOpen(b)
    PROVE  TInv'
<1> DEFINE n == opens + 1
           sent == route' = [route EXCEPT ![n] = "pending"] /\ UNCHANGED client
           failed == /\ route' = [route EXCEPT ![n] = "gone"]
                     /\ Heard({n}, Note("error", 0))
<1>1. /\ opens \in Nat /\ n \in Nat /\ n \in Terminals /\ n \notin Routed
      /\ opens' = n /\ conn # 0
  <2>1. opens < budget.opens /\ budget.opens \in 0..MaxOpens /\ MaxOpens \in Nat
    BY Bounds DEF TInv, RouteInv, LinkTypes, HandleOpen
  <2>2. opens \in Nat
    BY <2>1 DEF TInv, RouteInv, CountInv, RouteTypes
  <2>3. n \in Terminals
    BY <2>1, <2>2 DEF Terminals
  <2>4. n \notin Routed
    BY <2>2, RoutedAre
  <2> QED
    BY <2>2, <2>3, <2>4 DEF HandleOpen, Admitted
<1>2. /\ route \in [Terminals -> {"unused", "pending", "active", "gone"}]
      /\ owner \in [Terminals -> [browser : Browsers \cup {None}, link : 0..MaxLinks,
                                  out : Nat]]
      /\ seen \in [Terminals -> Seq(Notes)] /\ missed \subseteq Terminals
  BY DEF TInv, RouteInv, CountInv, RouteTypes, ClientTypes, Notes
<1>3. /\ owner' = [owner EXCEPT ![n] = [browser |-> b, link |-> conn, out |-> 1]]
      /\ UNCHANGED <<shutting, browser, userClosed, registry, cut, link, links, up, host>>
  BY DEF HandleOpen
<1>4. /\ owner'[n] = [browser |-> b, link |-> conn, out |-> 1]
      /\ \A t \in Terminals \ {n} : owner'[t] = owner[t]
  BY <1>1, <1>2, <1>3
<1>5. sent \/ failed
  <2>1. ASSUME Tell({n}, Note("error", 0))
        PROVE  Heard({n}, Note("error", 0))
    <3>1. {n} \in SUBSET Terminals /\ Note("error", 0) \in Notes
      BY <1>1, EndNotes DEF Ends
    <3> QED
      BY <2>1, <3>1, TellStep DEF TInv
  <2> QED
    BY <2>1 DEF HandleOpen
<1>6. route[n] = "unused" /\ seen[n] = <<>> /\ n \notin missed
  <2>1. route[n] = "unused" /\ Shape(route[n], seen[n], owner[n].out)
    BY <1>1 DEF TInv, StreamShape, Unopened, Shapes
  <2> QED
    BY <2>1 DEF TInv, StreamShape, Caught, Shape
<1>7. \A t \in Terminals \ {n} : route'[t] = route[t] /\ seen'[t] = seen[t]
                                 /\ (t \in missed' => t \in missed)
  BY <1>2, <1>5 DEF Heard, client
<1>8. seen' \in [Terminals -> Seq(Notes)] /\ missed \subseteq missed' /\ missed' \subseteq Terminals
  BY <1>2, <1>5 DEF Heard, client
<1>9. ClientTypes' /\ OutTypes'
  <2>1. ClientTypes'
    BY <1>3, <1>8 DEF TInv, ClientTypes, Notes
  <2>2. OutTypes'
    BY <1>4, Bounds DEF TInv, OutTypes
  <2> QED
    BY <2>1, <2>2
<1>10. StreamShape'
  <2>1. /\ Shape(route'[n], seen'[n], owner'[n].out)
        /\ n \in missed' => route'[n] = "gone"
        /\ route'[n] = "gone" => \/ n \in missed'
                                 \/ seen'[n] # <<>> /\ seen'[n][Len(seen'[n])].kind \in Ends
    <3>1. CASE sent
      <4>1. route'[n] = "pending" /\ seen'[n] = <<>> /\ owner'[n].out = 1 /\ n \notin missed'
        BY <1>1, <1>2, <1>4, <1>6, <3>1 DEF client
      <4> QED
        BY <4>1 DEF Shape
    <3>2. CASE failed
      <4>1. route'[n] = "gone"
        BY <1>1, <1>2, <3>2
      <4>2. Shape("unused", <<>>, 1) /\ "error" \in Ends /\ <<>> \in Seq(Notes)
        BY DEF Shape, Ends
      <4>3. /\ Shape("gone", Append(<<>>, Note("error", 0)), 1)
            /\ Append(<<>>, Note("error", 0)) # <<>>
            /\ Append(<<>>, Note("error", 0))[Len(Append(<<>>, Note("error", 0)))].kind \in Ends
        BY <4>2, EndShape
      <4>4. Shape("gone", <<>>, 1)
        BY DEF Shape
      <4>5. \/ seen'[n] = <<>> /\ n \in missed'
            \/ seen'[n] = Append(<<>>, Note("error", 0))
        BY <1>6, <3>2 DEF Heard
      <4>6. owner'[n].out = 1
        BY <1>4
      <4> QED
        BY <4>1, <4>3, <4>4, <4>5, <4>6
    <3> QED
      BY <1>5, <3>1, <3>2
  <2>2. Shapes'
    BY <1>4, <1>7, <2>1 DEF TInv, StreamShape, Shapes
  <2>3. Unopened'
    <3>1. \A t \in Terminals : t > n => t > opens /\ t # n
      BY <1>1 DEF Terminals
    <3> QED
      BY <1>1, <1>7, <3>1 DEF TInv, StreamShape, Unopened
  <2>4. Caught'
    BY <1>7, <1>8, <2>1 DEF TInv, StreamShape, Caught
  <2>5. EndIsTold'
    <3>1. \A t \in Terminals \ {n} : route'[t] = "gone" =>
            \/ t \in userClosed' \cup missed' \/ owner'[t].browser \notin browser'
            \/ seen'[t] # <<>> /\ seen'[t][Len(seen'[t])].kind \in {"exit", "error"}
      BY <1>3, <1>4, <1>7, <1>8 DEF TInv, StreamShape, EndIsTold
    <3> QED
      BY <2>1, <3>1 DEF EndIsTold, Ends
  <2> QED
    BY <2>2, <2>3, <2>4, <2>5 DEF StreamShape
<1>11. \A t \in Routed : t # n /\ t \in Routed' /\ owner'[t] = owner[t]
  BY <1>1, <1>4, <1>7 DEF Routed
<1>12. Routed' \subseteq Routed \cup {n}
  BY <1>7 DEF Routed
<1>13. Lines'
  <2>1. conn \in 1..links /\ (greeting # 0 => conn < greeting)
    <3>1. conn \in Nat /\ links \in Nat
      BY RoutedAre, Bounds
    <3> QED
      BY <1>1, <3>1 DEF TInv, Lines
  <2>2. UNCHANGED <<conn, greeting, link, links>> /\ owner'[n].link = conn
    BY <1>3, <1>4 DEF registry
  <2>3. \A t \in Routed' : t = n \/ (t \in Routed /\ owner'[t] = owner[t])
    BY <1>11, <1>12
  <2> QED
    BY <2>1, <2>2, <2>3 DEF TInv, Lines
<1>14. ServerTypes'
  <2>1. Cardinality(missed' \ missed) \in Nat
    <3>1. missed' \ missed \in SUBSET Terminals
      BY <1>8
    <3> QED
      BY <3>1, CountType
  <2>2. \/ mishaps' = mishaps
        \/ Mishap((IF online THEN 1 ELSE 0) + Cardinality(missed' \ missed))
    BY DEF HandleOpen
  <2>3. mishaps' \in 0..budget'.mishaps
    <3>1. CASE mishaps' = mishaps
      BY <3>1 DEF TInv, ServerTypes
    <3>2. CASE Mishap((IF online THEN 1 ELSE 0) + Cardinality(missed' \ missed))
      <4>1. (IF online THEN 1 ELSE 0) + Cardinality(missed' \ missed) \in Nat
        BY <2>1
      <4> QED
        BY <3>2, <4>1, MishapsTyped
    <3> QED
      BY <2>2, <3>1, <3>2
  <2> QED
    BY <1>3, <2>3 DEF TInv, ServerTypes, registry
<1> DEFINE open == Frame("open", n, 0)
<1>15. open \in Frames(DownKinds) /\ open.kind = "open" /\ open.term = n
  BY <1>1, Bounds DEF Frame, Frames, DownKinds, Terminals
<1> HIDE DEF open
<1>16. \/ inbox' = inbox
       \/ inbox' = Append(inbox, open) /\ sent /\ link = conn
  BY DEF HandleOpen, Deliver, open
<1>17. /\ inbox' \in Seq(Frames(DownKinds)) /\ Len(inbox) \in Nat
       /\ Len(inbox) <= Len(inbox') /\ Len(inbox') <= Len(inbox) + 1
       /\ \A i \in 1..Len(inbox) : i \in 1..Len(inbox') /\ inbox'[i] = inbox[i]
       /\ Len(inbox') = Len(inbox) + 1 =>
             inbox'[Len(inbox')] = open /\ link = conn /\ route'[n] = "pending"
  <2>1. inbox \in Seq(Frames(DownKinds))
    BY DEF TInv, DaemonTypes
  <2>2. CASE inbox' = inbox
    BY <2>1, <2>2
  <2>3. CASE inbox' = Append(inbox, open) /\ sent /\ link = conn
    BY <1>1, <1>2, <1>15, <2>1, <2>3
  <2> QED
    BY <1>16, <2>2, <2>3
<1> HIDE DEF n
<1>18. \A i \in 1..Len(inbox') : \/ i \in 1..Len(inbox)
                                 \/ /\ i = Len(inbox') /\ Len(inbox') = Len(inbox) + 1
                                    /\ inbox'[i].kind = "open" /\ inbox'[i].term = n
  BY <1>15, <1>17
<1>19. \A i \in 1..Len(inbox) : inbox[i].term <= opens /\ inbox[i].term # n
                                /\ (inbox[i].kind = "close" => inbox[i].seq = 0)
  BY <1>1 DEF TInv, HostInv, Asked, n
<1>20. OpensFirst'
  <2> SUFFICES ASSUME NEW i \in 1..Len(inbox'), NEW j \in 1..Len(inbox'),
                      inbox'[i].kind = "open", inbox'[j].kind \in {"open", "close"},
                      inbox'[i].term = inbox'[j].term
               PROVE  i <= j
    BY DEF OpensFirst
  <2>1. CASE i \in 1..Len(inbox) /\ j \in 1..Len(inbox)
    BY <1>17, <2>1 DEF TInv, HostInv, OpensFirst
  <2>2. CASE j = Len(inbox')
    BY <2>2
  <2>3. CASE i = Len(inbox') /\ Len(inbox') = Len(inbox) + 1 /\ j \in 1..Len(inbox)
    <3>1. inbox'[i].term = n /\ inbox'[j].term # n
      BY <1>17, <1>18, <1>19, <2>3
    <3> QED
      BY <3>1
  <2> QED
    BY <1>18, <2>1, <2>2, <2>3
<1>21. Asked'
  <2>1. opens <= opens' /\ n <= opens' /\ \A k \in Nat : k <= opens => k <= opens'
    BY <1>1 DEF n
  <2>2. \A i \in 1..Len(inbox) : inbox[i].term \in Nat
    <3> TAKE i \in 1..Len(inbox)
    <3>1. inbox[i] \in Frames(DownKinds)
      BY DEF TInv, DaemonTypes
    <3> QED
      BY <3>1, Bounds DEF Frames
  <2> QED
    BY <1>17, <1>18, <1>19, <2>1, <2>2 DEF Asked
<1>22. ASSUME NEW t \in Nat, Handled(t)
       PROVE  Handled(t)'
  <2>1. t <= opens' /\ t # n
    BY <1>1, <1>22 DEF Handled, n
  <2> QED
    BY <1>17, <1>18, <1>22, <2>1 DEF Handled
<1>23. Reports'
  <2>1. UNCHANGED <<pty, events, up>> /\ Sessions' = Sessions /\ Sessions \subseteq Nat
    BY <1>3, Bounds DEF host, Sessions
  <2>2. ASSUME NEW frame \in Frames(UpKinds), Reported(frame)
        PROVE  Reported(frame)'
    <3>1. frame.term \in Nat
      BY Bounds DEF Frames
    <3> QED
      BY <1>22, <2>1, <2>2, <3>1 DEF Reported
  <2>3. ASSUME NEW i \in 1..Len(events')
        PROVE  Reported(events[i])'
    <3>1. PICK frame : frame = events[i]
      OBVIOUS
    <3>2. frame \in Frames(UpKinds) /\ Reported(frame) /\ frame = events'[i]
      BY <2>1, <2>3, <3>1 DEF TInv, HostInv, Reports, DaemonTypes
    <3> QED
      BY <2>2, <3>2 DEF Reported, Handled
  <2>4. ASSUME NEW m \in Links, NEW i \in 1..Len(up'[m])
        PROVE  Reported(up[m][i])'
    <3>1. PICK frame : frame = up[m][i]
      OBVIOUS
    <3>2. frame \in Frames(UpKinds) /\ Reported(frame) /\ frame = up'[m][i]
      BY <2>1, <2>4, <3>1 DEF TInv, HostInv, Reports, DaemonTypes
    <3> QED
      BY <2>2, <3>2 DEF Reported, Handled
  <2>5. \A t \in Sessions' : Handled(t)'
    BY <1>22, <2>1 DEF TInv, HostInv, Reports
  <2> QED
    BY <2>3, <2>4, <2>5 DEF Reports
<1>24. Accounted'
  <2>1. ASSUME NEW t, Reached(t)
        PROVE  Reached(t)'
    BY <1>3, <1>11, <2>1 DEF Reached
  <2>2. ASSUME NEW k, NEW t, EndsAfter(k, t)
        PROVE  EndsAfter(k, t)'
    BY <1>17, <2>2 DEF EndsAfter
  <2>3. \A t \in Sessions' : Reached(t)' \/ EndsAfter(0, t)'
    <3>1. Sessions' = Sessions
      BY <1>3 DEF host, Sessions
    <3> QED
      BY <2>1, <2>2, <3>1 DEF TInv, HostInv, Accounted
  <2>4. ASSUME NEW i \in 1..Len(inbox'), inbox'[i].kind = "open"
        PROVE  Reached(inbox[i].term)' \/ EndsAfter(i, inbox[i].term)'
    <3>1. PICK t : t = inbox'[i].term
      OBVIOUS
    <3>2. Reached(t)' \/ EndsAfter(i, t)'
      <4>1. CASE i \in 1..Len(inbox)
        <5>1. inbox[i].term = t /\ inbox[i].kind = "open"
          BY <1>17, <2>4, <3>1, <4>1
        <5>2. Reached(t) \/ EndsAfter(i, t)
          BY <4>1, <5>1 DEF TInv, HostInv, Accounted
        <5> QED
          BY <2>1, <2>2, <5>2
      <4>2. CASE i \notin 1..Len(inbox)
        <5>1. t = n /\ Len(inbox') = Len(inbox) + 1
          BY <1>18, <3>1, <4>2
        <5>2. link = conn /\ link' = link /\ route'[n] = "pending" /\ owner'[n].link = conn
          BY <1>3, <1>4, <1>17, <5>1
        <5>3. n \in Routed'
          BY <1>1, <5>2 DEF Routed
        <5> QED
          BY <5>1, <5>2, <5>3 DEF Reached
      <4> QED
        BY <4>1, <4>2
    <3> QED
      BY <3>1, <3>2 DEF Reached, EndsAfter
  <2> QED
    BY <2>3, <2>4 DEF Accounted
<1>25. DaemonTypes'
  BY <1>3, <1>17 DEF TInv, DaemonTypes, host
<1> QED
  BY <1>9, <1>10, <1>13, <1>14, <1>20, <1>21, <1>23, <1>24, <1>25 DEF TInv, HostInv

-----------------------------------------------------------------------------
(* What the server reads.                                                  *)

\* The frame is one the daemon sent, and what it says of its terminal holds.
LEMMA FrameIs ==
    ASSUME TInv, NEW n \in Links, Reading(n)
    PROVE  /\ Head(up[n]) \in Frames(UpKinds) /\ Reported(Head(up[n]))
           /\ Head(up[n]).term \in 0..MaxOpens /\ Head(up[n]).seq \in 0..MaxChunks
           /\ Head(up[n]).term <= opens
<1>1. up[n] \in Seq(Frames(UpKinds)) /\ up[n] # <<>>
  BY DEF TInv, DaemonTypes, Reading
<1>2. Head(up[n]) = up[n][1] /\ 1 \in 1..Len(up[n]) /\ Head(up[n]) \in Frames(UpKinds)
  BY <1>1
<1>3. Reported(up[n][1])
  BY <1>2 DEF TInv, HostInv, Reports
<1>4. Head(up[n]).term \in 0..MaxOpens /\ Head(up[n]).seq \in 0..MaxChunks
  BY <1>2 DEF Frames
<1>5. Reported(Head(up[n]))
  BY <1>2, <1>3
<1> QED
  BY <1>2, <1>4, <1>5 DEF Reported, Handled

\* Handlers that read a frame; what they do to routes and streams is shown of each.
LEMMA Reader ==
    ASSUME TInv, RouteInv', Kept, budget' = budget, NEW n \in Links, Reading(n), Read(n), Untouched,
           opens' = opens, NEW S \in SUBSET {Head(up[n]).term}, SendCloses(conn, S),
           \A t \in Routed :
              \/ t \in Routed' /\ owner'[t].link = owner[t].link
              \/ t \in S
              \/ owner[t].link # conn
              \/ Handled(t) /\ t \notin Sessions,
           seen' \in [Terminals -> Seq(Notes)], missed' \subseteq Terminals,
           OutTypes', StreamShape', QueuesFull \/ UNCHANGED mishaps
    PROVE  TInv'
<1>1. Shrinks
  BY ReadShrinks DEF TInv
<1>2. S \in SUBSET (0..MaxOpens) /\ \A t \in S : t <= opens
  BY FrameIs
<1>3. mishaps' \in 0..budget'.mishaps
  <2>1. CASE QueuesFull
    <3>1. Cardinality(cut' \ cut) \in Nat
      BY <1>2, CloseCuts
    <3>2. Cardinality(missed' \ missed) \in Nat
      <4>1. missed' \ missed \in SUBSET Terminals
        OBVIOUS
      <4> QED
        BY <4>1, CountType
    <3>3. Cardinality(cut' \ cut) + Cardinality(missed' \ missed) \in Nat
      BY <3>1, <3>2
    <3> QED
      BY <2>1, <3>3, MishapsTyped DEF QueuesFull
  <2>2. CASE UNCHANGED mishaps
    BY <2>2 DEF TInv, ServerTypes
  <2> QED
    BY <2>1, <2>2
<1>4. UNCHANGED <<shutting, browser, userClosed, conn, online, serving, greeting, cleaning,
                  link, links, host>>
  BY DEF Untouched, registry
<1> QED
  BY <1>1, <1>2, <1>3, <1>4, Handler DEF TInv, ClientTypes, ServerTypes

\* A frame that changes no route and tells nobody.
LEMMA ReadsOnly ==
    ASSUME TInv, RouteInv', budget' = budget, NEW n \in Links, Reading(n), Read(n), Untouched,
           UNCHANGED <<routes, client>>,
           NEW S \in SUBSET {Head(up[n]).term}, SendCloses(conn, S),
           QueuesFull \/ UNCHANGED mishaps
    PROVE  TInv'
<1>1. Kept /\ UNCHANGED <<opens, route, owner, seen, missed, userClosed, browser>>
  BY Unchanged DEF TInv, RouteInv, routes, client, Untouched
<1>2. StreamShape' /\ OutTypes'
  BY <1>1, SameStreams DEF TInv
<1>3. \A t \in Routed : t \in Routed' /\ owner'[t].link = owner[t].link
  BY <1>1 DEF Routed
<1>4. seen' \in [Terminals -> Seq(Notes)] /\ missed' \subseteq Terminals
  BY <1>1 DEF TInv, ClientTypes, Notes
<1> QED
  BY <1>1, <1>2, <1>3, <1>4, Reader

\* A frame that ends its terminal.  If nothing is sent, the PTY is gone.
LEMMA ReadsEnd ==
    ASSUME TInv, RouteInv', budget' = budget, NEW n \in Links, Reading(n), Read(n), Untouched,
           QueuesFull, Head(up[n]).term \in Routed, RemoveRoutes({Head(up[n]).term}),
           \/ CloseOwn({Head(up[n]).term})
           \/ SendCloses(conn, {Head(up[n]).term})
           \/ UNCHANGED wire /\ Head(up[n]).term \notin Sessions,
           \/ EndHeard({Head(up[n]).term})
           \/ UNCHANGED seen /\ missed' = missed \cup {Head(up[n]).term}
    PROVE  TInv'
<1> DEFINE t == Head(up[n]).term
<1>1. CountInv' /\ Kept /\ Routed' = Routed \ {t} /\ Forget({t})
  BY Removed DEF TInv, RouteInv, RemoveRoutes
<1>2. /\ t \in Terminals /\ Handled(t)
      /\ seen \in [Terminals -> Seq(Notes)] /\ missed \subseteq Terminals
  BY RoutedAre, FrameIs DEF TInv, ClientTypes, Notes, Reported
<1>3. /\ seen' \in [Terminals -> Seq(Notes)] /\ missed \subseteq missed' /\ missed' \subseteq Terminals
      /\ \A u \in Terminals \ {t} : seen'[u] = seen[u] /\ (u \in missed' => u \in missed)
      /\ \/ seen'[t] = seen[t] /\ t \in missed'
         \/ \E k \in Ends : seen'[t] = Append(seen[t], Note(k, 0))
  <2>1. CASE EndHeard({t})
    BY <2>1 DEF EndHeard
  <2>2. CASE UNCHANGED seen /\ missed' = missed \cup {t}
    BY <1>2, <2>2
  <2> QED
    BY <2>1, <2>2
<1>4. StreamShape' /\ OutTypes'
  BY <1>1, <1>2, <1>3, Ended DEF TInv, Untouched
<1>5. PICK S \in SUBSET {t} : SendCloses(conn, S) /\
         (S = {t} \/ (S = {} /\ owner[t].link # conn) \/ t \notin Sessions)
  <2>1. CASE CloseOwn({t})
    <3>1. {u \in {t} : owner[u].link = conn} = IF owner[t].link = conn THEN {t} ELSE {}
      OBVIOUS
    <3> QED
      BY <2>1, <3>1 DEF CloseOwn
  <2>2. CASE SendCloses(conn, {t})
    BY <2>2
  <2>3. CASE UNCHANGED wire /\ t \notin Sessions
    BY <2>3, NoClose
  <2> QED
    BY <2>1, <2>2, <2>3
<1>6. \A u \in Routed :
         \/ u \in Routed' /\ owner'[u].link = owner[u].link
         \/ u \in S
         \/ owner[u].link # conn
         \/ Handled(u) /\ u \notin Sessions
  BY <1>1, <1>2, <1>5 DEF Kept
<1>7. opens' = opens
  BY <1>1 DEF Forget
<1> HIDE DEF t
<1>8. S \in SUBSET {Head(up[n]).term}
  BY DEF t
<1> QED
  BY <1>1, <1>3, <1>4, <1>5, <1>6, <1>7, <1>8, Reader

LEMMA OpenedT ==
    ASSUME TInv, RouteInv', budget' = budget, NEW n \in Links, OnOpened(n)
    PROVE  TInv'
<1> DEFINE t == Head(up[n]).term
           waiting == t \in Pending /\ owner[t].link = n
<1>1. conn = n /\ Reading(n) /\ Read(n) /\ QueuesFull /\ Untouched
  BY DEF OnOpened
<1>2. CASE ~waiting
  <2>1. (SendCloses(conn, {t}) \/ UNCHANGED wire) /\ UNCHANGED <<routes, client>>
    BY <1>1, <1>2 DEF OnOpened
  <2>2. PICK S \in SUBSET {Head(up[n]).term} : SendCloses(conn, S)
    BY <2>1, NoClose
  <2> QED
    BY <1>1, <2>1, <2>2, ReadsOnly
<1>3. CASE waiting
  <2>1. /\ Tell({t}, Note("opened", 0))
        /\ \/ /\ t \notin missed'
              /\ route' = [route EXCEPT ![t] = "active"]
              /\ principalCount' = [principalCount EXCEPT ![Principal(t)] = @ + 1]
              /\ instanceCount' = instanceCount + 1
              /\ UNCHANGED <<opens, owner, wire>>
           \/ t \in missed' /\ RemoveRoutes({t}) /\ SendCloses(n, {t})
    BY <1>3 DEF OnOpened
  <2>2. t \in Routed /\ t \in Terminals /\ route[t] = "pending"
    BY <1>3, RoutedAre DEF Pending
  <2>3. Heard({t}, Note("opened", 0))
    <3>1. {t} \in SUBSET Terminals /\ Note("opened", 0) \in Notes
      BY <2>2, Bounds DEF Note, Notes
    <3> QED
      BY <2>1, <3>1, TellStep DEF TInv
  <2>4. t \notin missed
    BY <2>2 DEF TInv, StreamShape, Caught
  <2>5. CASE t \in missed' /\ RemoveRoutes({t}) /\ SendCloses(n, {t})
    <3>1. seen'[t] = seen[t]
      BY <2>3, <2>4, <2>5 DEF Heard
    <3>2. EndHeard({t})
      BY <2>3, <2>5, <3>1 DEF Heard, EndHeard
    <3> QED
      BY <1>1, <2>2, <2>5, <3>2, ReadsEnd
  <2>6. CASE /\ t \notin missed'
             /\ route' = [route EXCEPT ![t] = "active"]
             /\ principalCount' = [principalCount EXCEPT ![Principal(t)] = @ + 1]
             /\ instanceCount' = instanceCount + 1
             /\ UNCHANGED <<opens, owner, wire>>
    <3> HIDE DEF t
    <3>1. /\ route \in [Terminals -> {"unused", "pending", "active", "gone"}]
          /\ seen \in [Terminals -> Seq(Notes)]
      BY DEF TInv, RouteInv, CountInv, RouteTypes, ClientTypes, Notes
    <3>2. /\ route'[t] = "active" /\ \A u \in Terminals \ {t} : route'[u] = route[u]
          /\ Routed' = Routed /\ owner' = owner /\ opens' = opens
      BY <2>2, <2>6, <3>1 DEF Routed
    <3>3. Kept
      BY <3>2 DEF Kept
    <3>4. /\ seen'[t] = Append(seen[t], Note("opened", 0))
          /\ \A u \in Terminals \ {t} : seen'[u] = seen[u] /\ (u \in missed' => u \in missed)
          /\ seen' \in [Terminals -> Seq(Notes)]
          /\ missed' \subseteq Terminals /\ missed \subseteq missed'
      BY <2>3, <2>6 DEF Heard
    <3>5. seen[t] = <<>> /\ owner[t].out = 1
      BY <2>2 DEF TInv, StreamShape, Shapes, Shape
    <3>6. Shape(route'[t], seen'[t], owner'[t].out)
      <4>1. Append(<<>>, Note("opened", 0)) = <<Note("opened", 0)>>
        OBVIOUS
      <4>2. Shape("active", <<Note("opened", 0)>>, 1)
        BY DEF Shape, Note
      <4> QED
        BY <3>2, <3>4, <3>5, <4>1, <4>2
    <3>7. Shapes'
      BY <3>2, <3>4, <3>6 DEF TInv, StreamShape, Shapes
    <3>8. Unopened' /\ Caught' /\ EndIsTold'
      <4>1. UNCHANGED <<userClosed, browser>>
        BY <1>1 DEF Untouched
      <4>2. Unopened'
        BY <2>2, <3>2 DEF TInv, StreamShape, Unopened
      <4>3. Caught'
        BY <2>6, <3>2, <3>4 DEF TInv, StreamShape, Caught
      <4>4. EndIsTold'
        BY <3>2, <3>4, <4>1 DEF TInv, StreamShape, EndIsTold
      <4> QED
        BY <4>2, <4>3, <4>4
    <3>9. StreamShape' /\ OutTypes'
      BY <3>2, <3>7, <3>8 DEF TInv, StreamShape, OutTypes
    <3>10. SendCloses(conn, {}) /\ {} \in SUBSET {Head(up[n]).term}
      BY <2>6, NoClose
    <3>11. \A u \in Routed : u \in Routed' /\ owner'[u].link = owner[u].link
      BY <3>2
    <3> QED
      BY <1>1, <3>2, <3>3, <3>4, <3>9, <3>10, <3>11, Reader
  <2> QED
    BY <2>1, <2>5, <2>6
<1> QED
  BY <1>2, <1>3

LEMMA RejectedT ==
    ASSUME TInv, RouteInv', budget' = budget, NEW n \in Links, OnRejected(n)
    PROVE  TInv'
<1> DEFINE t == Head(up[n]).term
<1>1. /\ Head(up[n]).kind = "rejected" /\ Reading(n) /\ Read(n) /\ QueuesFull /\ Untouched
      /\ UNCHANGED wire
  BY DEF OnRejected
<1>2. CASE t \in Pending /\ owner[t].link = n
  <2>1. RemoveRoutes({t}) /\ Tell({t}, Note("error", 0))
    BY <1>2 DEF OnRejected
  <2>2. t \in Routed /\ {t} \in SUBSET Terminals /\ "error" \in Ends
    BY <1>2, RoutedAre DEF Ends
  <2>3. EndHeard({t})
    BY <2>1, <2>2, TellsEnd DEF TInv
  <2>4. t \notin Sessions
    BY <1>1, FrameIs DEF Reported
  <2> QED
    BY <1>1, <2>1, <2>2, <2>3, <2>4, ReadsEnd
<1>3. CASE ~(t \in Pending /\ owner[t].link = n)
  <2>1. UNCHANGED <<routes, client>>
    BY <1>3 DEF OnRejected
  <2>2. SendCloses(conn, {}) /\ {} \in SUBSET {Head(up[n]).term}
    BY <1>1, NoClose
  <2> QED
    BY <1>1, <2>1, <2>2, ReadsOnly
<1> QED
  BY <1>2, <1>3

LEMMA ExitT ==
    ASSUME TInv, RouteInv', budget' = budget, NEW n \in Links, OnExit(n)
    PROVE  TInv'
<1> DEFINE t == Head(up[n]).term
<1>1. /\ Head(up[n]).kind = "exit" /\ Reading(n) /\ Read(n) /\ QueuesFull /\ Untouched
      /\ UNCHANGED wire
  BY DEF OnExit
<1>2. CASE t \in Active /\ owner[t].link = n
  <2>1. RemoveRoutes({t}) /\ Tell({t}, Note("exit", 0))
    BY <1>2 DEF OnExit
  <2>2. t \in Routed /\ {t} \in SUBSET Terminals /\ "exit" \in Ends
    BY <1>2, RoutedAre DEF Ends
  <2>3. EndHeard({t})
    BY <2>1, <2>2, TellsEnd DEF TInv
  <2>4. t \notin Sessions
    BY <1>1, FrameIs DEF Reported
  <2> QED
    BY <1>1, <2>1, <2>2, <2>3, <2>4, ReadsEnd
<1>3. CASE ~(t \in Active /\ owner[t].link = n)
  <2>1. UNCHANGED <<routes, client>>
    BY <1>3 DEF OnExit
  <2>2. SendCloses(conn, {}) /\ {} \in SUBSET {Head(up[n]).term}
    BY <1>1, NoClose
  <2> QED
    BY <1>1, <2>1, <2>2, ReadsOnly
<1> QED
  BY <1>2, <1>3

\* One more chunk of output, the one that was due.
LEMMA OutputShape ==
    ASSUME NEW s \in Seq(Notes), NEW out \in Nat \ {0}, Shape("active", s, out)
    PROVE  Shape("active", Append(s, Note("output", out)), out + 1)
<1> DEFINE s2 == Append(s, Note("output", out))
<1>1. Len(s) = out /\ \A i \in 1..Len(s) : /\ s[i].kind \notin Ends
                                           /\ IF i = 1 THEN s[i].kind = "opened"
                                              ELSE s[i].kind = "output" /\ s[i].seq = i - 1
  BY DEF Shape, Ends
<1>2. /\ Len(s2) = out + 1 /\ s2[out + 1] = Note("output", out)
      /\ \A i \in 1..out : s2[i] = s[i]
  BY <1>1
<1>3. s2[out + 1].kind = "output" /\ s2[out + 1].seq = out
  BY <1>2 DEF Note
<1> HIDE DEF s2
<1>4. ASSUME NEW i \in 1..Len(s2)
      PROVE  /\ IF i = 1 THEN s2[i].kind = "opened" ELSE s2[i].kind = "output" /\ s2[i].seq = i - 1
             /\ s2[i].kind \notin Ends
  <2>1. CASE i = out + 1
    BY <1>3, <2>1 DEF Ends
  <2>2. CASE i # out + 1
    <3>1. i \in 1..out
      BY <1>2, <2>2
    <3> QED
      BY <1>1, <1>2, <3>1
  <2> QED
    BY <2>1, <2>2
<1>5. ASSUME NEW i \in 1..Len(s2)
      PROVE  /\ s2[i].kind = "opened" => i = 1
             /\ s2[i].kind = "output" => i > 1 /\ s2[i].seq = i - 1
             /\ s2[i].kind \in {"exit", "error"} => i = Len(s2)
  BY <1>4 DEF Ends
<1> QED
  BY <1>2, <1>4, <1>5 DEF Shape, s2

LEMMA OutputT ==
    ASSUME TInv, RouteInv', budget' = budget, NEW n \in Links, OnOutput(n)
    PROVE  TInv'
<1> DEFINE frame == Head(up[n])
           t == Head(up[n]).term
           mine == t \in Active /\ owner[t].link = n
<1>1. conn = n /\ Reading(n) /\ Read(n) /\ QueuesFull /\ Untouched
  BY DEF OnOutput
<1>2. \/ ~mine /\ SendCloses(n, {t}) /\ UNCHANGED <<routes, client>>
      \/ mine /\ FailActive(t)
      \/ /\ mine /\ frame.seq = owner[t].out
         /\ Tell({t}, Note("output", frame.seq))
         /\ \/ /\ seen' # seen
               /\ owner' = [owner EXCEPT ![t].out = @ + 1]
               /\ UNCHANGED <<opens, route, principalCount, instanceCount, wire>>
            \/ seen' = seen /\ LosesOutput(t)
  BY DEF OnOutput
<1>3. CASE ~mine /\ SendCloses(n, {t}) /\ UNCHANGED <<routes, client>>
  <2>1. {t} \in SUBSET {Head(up[n]).term}
    OBVIOUS
  <2> QED
    BY <1>1, <1>3, <2>1, ReadsOnly
<1>4. CASE mine /\ FailActive(t)
  <2>1. RemoveRoutes({t}) /\ CloseOwn({t}) /\ Tell({t}, Note("error", 0))
    BY <1>4 DEF FailActive
  <2>2. t \in Routed /\ {t} \in SUBSET Terminals /\ "error" \in Ends
    BY <1>4, RoutedAre DEF Ends
  <2>3. EndHeard({t})
    BY <2>1, <2>2, TellsEnd DEF TInv
  <2> QED
    BY <1>1, <2>1, <2>2, <2>3, ReadsEnd
<1>5. CASE /\ mine /\ frame.seq = owner[t].out
           /\ Tell({t}, Note("output", frame.seq))
           /\ \/ /\ seen' # seen
                 /\ owner' = [owner EXCEPT ![t].out = @ + 1]
                 /\ UNCHANGED <<opens, route, principalCount, instanceCount, wire>>
              \/ seen' = seen /\ LosesOutput(t)
  <2>1. t \in Routed /\ t \in Terminals /\ route[t] = "active"
    BY <1>5, RoutedAre DEF Active
  <2>2. /\ frame.seq \in 0..MaxChunks /\ owner[t].out \in Nat \ {0}
        /\ owner[t].out + 1 \in 1..(MaxChunks + 1)
    <3>1. frame.seq \in 0..MaxChunks /\ MaxChunks \in Nat
      BY <1>1, FrameIs, Bounds
    <3>2. owner[t].out \in 1..(MaxChunks + 1)
      BY <2>1 DEF TInv, OutTypes
    <3> QED
      BY <1>5, <3>1, <3>2
  <2>3. Heard({t}, Note("output", frame.seq))
    <3>1. {t} \in SUBSET Terminals /\ Note("output", frame.seq) \in Notes
      BY <2>1, <2>2 DEF Note, Notes
    <3> QED
      BY <1>5, <3>1, TellStep DEF TInv
  <2> DEFINE out == owner[t].out
             note == Note("output", out)
  <2>4. seen \in [Terminals -> Seq(Notes)] /\ note \in Notes
    BY <1>5, <2>2 DEF TInv, ClientTypes, Notes, Note
  <2>5. /\ \/ seen'[t] = seen[t] /\ t \in missed'
           \/ seen'[t] = Append(seen[t], note) /\ (t \in missed' => t \in missed)
        /\ \A u \in Terminals \ {t} : seen'[u] = seen[u] /\ (u \in missed' => u \in missed)
        /\ seen' \in [Terminals -> Seq(Notes)]
        /\ missed' \subseteq Terminals /\ missed \subseteq missed'
    BY <1>5, <2>3 DEF Heard
  <2> HIDE DEF t, note
  <2>6. Append(seen[t], note) # seen[t]
    BY <2>1, <2>4
  <2>7. CASE seen' = seen /\ LosesOutput(t)
    <3>1. RemoveRoutes({t}) /\ CloseOwn({t})
      BY <2>7 DEF LosesOutput
    <3>2. EndHeard({t})
      BY <2>5, <2>6, <2>7 DEF EndHeard
    <3> USE DEF t
    <3> QED
      BY <1>1, <2>1, <3>1, <3>2, ReadsEnd
  <2>8. CASE /\ seen' # seen
             /\ owner' = [owner EXCEPT ![t].out = @ + 1]
             /\ UNCHANGED <<opens, route, principalCount, instanceCount, wire>>
    <3>1. seen'[t] = Append(seen[t], note) /\ t \notin missed'
      <4>1. seen'[t] # seen[t]
        <5>1. CASE seen'[t] = seen[t]
          <6>1. \A u \in Terminals : seen'[u] = seen[u]
            BY <2>5, <5>1
          <6>2. seen' = seen
            BY <2>4, <2>5, <6>1
          <6> QED
            BY <2>8, <6>2
        <5> QED
          BY <5>1
      <4>2. t \notin missed
        BY <2>1 DEF TInv, StreamShape, Caught
      <4> QED
        BY <2>5, <4>1, <4>2
    <3>2. /\ owner'[t].out = out + 1
          /\ \A u \in Terminals \ {t} : owner'[u] = owner[u]
          /\ \A u \in Terminals : owner'[u].browser = owner[u].browser
                                  /\ owner'[u].link = owner[u].link
      BY <2>1, <2>8 DEF TInv, RouteInv, CountInv, RouteTypes
    <3>3. Routed' = Routed /\ route' = route /\ opens' = opens
      BY <2>8 DEF Routed
    <3>4. Kept
      BY <3>2, <3>3 DEF Kept, Routed
    <3>5. Shape(route'[t], seen'[t], owner'[t].out)
      <4>1. Shape("active", seen[t], out) /\ seen[t] \in Seq(Notes)
        BY <2>1, <2>4 DEF TInv, StreamShape, Shapes
      <4>2. Shape("active", Append(seen[t], Note("output", out)), out + 1)
        BY <2>2, <4>1, OutputShape
      <4> QED
        BY <2>1, <3>1, <3>2, <3>3, <4>2 DEF note
    <3>6. Shapes'
      BY <2>5, <3>2, <3>3, <3>5 DEF TInv, StreamShape, Shapes
    <3>7. Unopened' /\ Caught' /\ EndIsTold'
      <4>1. UNCHANGED <<userClosed, browser>>
        BY <1>1 DEF Untouched
      <4>2. Unopened'
        BY <3>3 DEF TInv, StreamShape, Unopened
      <4>3. Caught'
        BY <2>5, <3>1, <3>3 DEF TInv, StreamShape, Caught
      <4>4. EndIsTold'
        BY <2>1, <2>5, <3>2, <3>3, <4>1 DEF TInv, StreamShape, EndIsTold
      <4> QED
        BY <4>2, <4>3, <4>4
    <3>8. StreamShape' /\ OutTypes'
      BY <2>2, <3>2, <3>6, <3>7 DEF TInv, StreamShape, OutTypes
    <3>9. SendCloses(conn, {}) /\ {} \in SUBSET {Head(up[n]).term}
      BY <2>8, NoClose
    <3>10. \A u \in Routed : u \in Routed' /\ owner'[u].link = owner[u].link
      BY <3>2, <3>3 DEF Routed
    <3> QED
      BY <1>1, <2>5, <3>3, <3>4, <3>8, <3>9, <3>10, Reader
  <2> QED
    BY <1>5, <2>7, <2>8 DEF t
<1> QED
  BY <1>2, <1>3, <1>4, <1>5

LEMMA ReadsT ==
    ASSUME TInv, RouteInv', budget' = budget, NEW n \in Links, ServerReads(n)
    PROVE  TInv'
<1>1. CASE Ignore(n)
  <2>1. SendCloses(conn, {}) /\ {} \in SUBSET {Head(up[n]).term}
    BY <1>1, NoClose DEF Ignore
  <2>2. /\ Reading(n) /\ Read(n) /\ Untouched
        /\ UNCHANGED <<routes, client>> /\ UNCHANGED mishaps
    BY <1>1 DEF Ignore
  <2> QED
    BY <2>1, <2>2, ReadsOnly
<1> QED
  BY <1>1, OpenedT, RejectedT, OutputT, ExitT DEF ServerReads

-----------------------------------------------------------------------------
(* The connection of the instance.                                         *)

\* All routes go and their users are told.
LEMMA AllEnd ==
    ASSUME TInv, Forget(Routed), TellEnd(Routed), UNCHANGED <<userClosed, browser>>
    PROVE  /\ StreamShape' /\ OutTypes' /\ Routed' = {} /\ opens' = opens /\ Kept
           /\ seen' \in [Terminals -> Seq(Notes)] /\ missed' \subseteq Terminals
           /\ Cardinality(missed' \ missed) \in Nat
<1>1. Routed \in SUBSET Terminals
  BY RoutedAre
<1>2. EndHeard(Routed)
  BY <1>1, TellEndStep DEF TInv
<1>3. StreamShape' /\ OutTypes'
  BY <1>2, EndedAndHeard DEF TInv
<1>4. Routed' = {} /\ opens' = opens
  BY DEF Forget, Routed
<1>5. missed' \ missed \in SUBSET Terminals
  BY <1>2 DEF EndHeard
<1>6. Cardinality(missed' \ missed) \in Nat
  BY <1>5, CountType
<1> QED
  BY <1>2, <1>3, <1>4, <1>6 DEF EndHeard, Kept

LEMMA CleanupT ==
    ASSUME TInv, RouteInv', budget' = budget, NEW w \in 0..MaxLinks, OnInstanceDisconnect(w)
    PROVE  TInv'
<1>1. /\ Forget(Routed) /\ TellEnd(Routed) /\ SendCloses(conn, Routed) /\ QueuesFull
      /\ UNCHANGED <<shutting, browser, userClosed, conn, online, serving, greeting, link,
                     links, up, host>>
      /\ cleaning' = cleaning \ {w}
  BY DEF OnInstanceDisconnect, CleanupRoutes, RemoveRoutes
<1>2. /\ StreamShape' /\ OutTypes' /\ Routed' = {} /\ opens' = opens /\ Kept
      /\ seen' \in [Terminals -> Seq(Notes)] /\ missed' \subseteq Terminals
      /\ Cardinality(missed' \ missed) \in Nat
  BY <1>1, AllEnd
<1>3. Routed \in SUBSET (0..MaxOpens) /\ \A t \in Routed : t <= opens
  BY RoutedAre
<1>4. mishaps' \in 0..budget'.mishaps
  <2>1. Cardinality(cut' \ cut) \in Nat
    BY <1>1, <1>3, CloseCuts
  <2>2. Cardinality(cut' \ cut) + Cardinality(missed' \ missed) \in Nat
    BY <1>2, <2>1
  <2> QED
    BY <1>1, <2>2, MishapsTyped DEF QueuesFull
<1>5. Shrinks
  BY <1>1, SameUp DEF TInv
<1>6. shutting' \in BOOLEAN /\ online' \in BOOLEAN /\ serving' \subseteq Links
      /\ cleaning' \subseteq 0..MaxLinks /\ browser' \subseteq browser
      /\ userClosed' \subseteq Terminals
  BY <1>1 DEF TInv, ClientTypes, ServerTypes
<1>7. UNCHANGED <<opens, conn, greeting, link, links, host>>
  BY <1>1, <1>2
<1> QED
  BY <1>1, <1>2, <1>3, <1>4, <1>5, <1>6, <1>7, Handler

LEMMA ShutdownT ==
    ASSUME TInv, RouteInv', budget' = budget, Shutdown
    PROVE  TInv'
<1> DEFINE C == {t \in Routed : owner[t].link = conn}
<1>1. /\ Forget(Routed) /\ TellEnd(Routed) /\ SendCloses(conn, C)
      /\ Mishap(1 + Cardinality(cut' \ cut) + Cardinality(missed' \ missed))
      /\ UNCHANGED <<browser, userClosed, conn, online, serving, greeting, link,
                     links, up, host>>
      /\ shutting' = TRUE /\ cleaning' = cleaning \ {0}
  BY DEF Shutdown, CloseOwn
<1>2. /\ StreamShape' /\ OutTypes' /\ Routed' = {} /\ opens' = opens /\ Kept
      /\ seen' \in [Terminals -> Seq(Notes)] /\ missed' \subseteq Terminals
      /\ Cardinality(missed' \ missed) \in Nat
  BY <1>1, AllEnd
<1>3. C \in SUBSET (0..MaxOpens) /\ \A t \in C : t <= opens
  BY RoutedAre
<1>4. mishaps' \in 0..budget'.mishaps
  <2>1. Cardinality(cut' \ cut) \in Nat
    BY <1>1, <1>3, CloseCuts
  <2>2. 1 + Cardinality(cut' \ cut) + Cardinality(missed' \ missed) \in Nat
    BY <1>2, <2>1
  <2> QED
    BY <1>1, <2>2, MishapsTyped
<1>5. Shrinks
  BY <1>1, SameUp DEF TInv
<1>6. shutting' \in BOOLEAN /\ online' \in BOOLEAN /\ serving' \subseteq Links
      /\ cleaning' \subseteq 0..MaxLinks /\ browser' \subseteq browser
      /\ userClosed' \subseteq Terminals
  BY <1>1 DEF TInv, ClientTypes, ServerTypes
<1>7. UNCHANGED <<opens, conn, greeting, link, links, host>>
  BY <1>1, <1>2
<1>8. \A t \in Routed : t \in C \/ owner[t].link # conn
  OBVIOUS
<1> HIDE DEF C
<1> QED
  BY <1>1, <1>2, <1>3, <1>4, <1>5, <1>6, <1>7, <1>8, Handler

\* No route hangs on the connection that says hello, so none of its PTYs has a user to lose.
LEMMA HelloT ==
    ASSUME TInv, RouteInv', budget' = budget, Hello
    PROVE  TInv'
<1>1. /\ Forget(Routed) /\ TellEnd(Routed) /\ greeting # 0
      /\ conn' = greeting /\ online' = TRUE /\ greeting' = 0
      /\ serving' = serving \cup {greeting}
      /\ cut' = (IF conn = 0 THEN cut ELSE cut \cup {conn})
      /\ Mishap(Cardinality(missed' \ missed))
      /\ UNCHANGED <<shutting, browser, userClosed, cleaning, inbox, link, links, up, host>>
  BY DEF Hello, RemoveRoutes
<1>2. /\ StreamShape' /\ OutTypes' /\ Routed' = {} /\ opens' = opens
      /\ seen' \in [Terminals -> Seq(Notes)] /\ missed' \subseteq Terminals
      /\ Cardinality(missed' \ missed) \in Nat
  BY <1>1, AllEnd
<1>3. conn \in 0..MaxLinks /\ greeting \in 1..MaxLinks /\ greeting = links
  BY <1>1, RoutedAre, Bounds DEF TInv, Lines
<1>4. ClientTypes'
  BY <1>1, <1>2 DEF TInv, ClientTypes, Notes
<1>5. cut \subseteq cut' /\ cut' \subseteq Links /\ serving' \subseteq Links
  BY <1>1, <1>3, Bounds DEF TInv, ServerTypes
<1>6. ServerTypes'
  <2>1. mishaps' \in 0..budget'.mishaps
    BY <1>1, <1>2, MishapsTyped
  <2> QED
    BY <1>1, <1>5, <2>1 DEF TInv, ServerTypes
<1>7. DaemonTypes'
  BY <1>1 DEF TInv, DaemonTypes, host
<1>8. Lines'
  <2>1. link' \in {0, links'} /\ greeting' = 0 /\ conn' <= links'
    BY <1>1, <1>3 DEF TInv, Lines
  <2> QED
    BY <1>2, <2>1, Bounds DEF Lines
<1>9. HostInv'
  <2>1. More({})
    BY <1>1 DEF More, TInv, DaemonTypes
  <2>2. Shrinks
    BY <1>1, SameUp DEF TInv
  <2>3. ASSUME NEW t \in 0..MaxOpens, Reached(t)
        PROVE  Reached(t)'
    <3>1. CASE link \in cut
      BY <1>1, <1>5, <3>1 DEF Reached
    <3>2. CASE t \in Routed /\ owner[t].link = link
      <4>1. owner[t].link \in 1..links /\ owner[t].link < greeting /\ link \in {0, links}
        BY <1>1, <3>2 DEF TInv, Lines
      <4>2. FALSE
        BY <1>3, <3>2, <4>1
      <4> QED
        BY <4>2
    <3> QED
      BY <2>3, <3>1, <3>2 DEF Reached
  <2>4. UNCHANGED <<opens, pty, events>>
    BY <1>1, <1>2 DEF host
  <2> QED
    BY <2>1, <2>2, <2>3, <2>4, StillAccounted DEF TInv
<1> QED
  BY <1>2, <1>4, <1>6, <1>7, <1>8, <1>9 DEF TInv

\* Only what the server knows of the connection changes.
LEMMA RegistryOnly ==
    ASSUME TInv, RouteInv', UNCHANGED <<routes, client, userClosed, browser, shutting, conn,
                                        greeting, wire, link, links, up, host>>,
           ServerTypes'
    PROVE  TInv'
<1>1. UNCHANGED <<opens, route, owner, seen, missed, userClosed, browser>> /\ Kept
  BY Unchanged DEF TInv, RouteInv, routes, client
<1>2. StreamShape' /\ OutTypes'
  BY <1>1, SameStreams DEF TInv
<1>3. ClientTypes' /\ DaemonTypes'
  BY <1>1 DEF TInv, ClientTypes, DaemonTypes, wire, host
<1>4. Lines'
  BY <1>1, SameLines
<1>5. HostInv'
  BY <1>1 DEF TInv, HostInv, OpensFirst, Asked, Reports, Reported, Handled, Accounted, Reached,
              EndsAfter, Routed, Sessions, wire, host
<1> QED
  BY <1>2, <1>3, <1>4, <1>5 DEF TInv

LEMMA SweepOfflineT ==
    ASSUME TInv, RouteInv', budget' = budget, SweepOffline \/ Heartbeat
    PROVE  TInv'
<1>1. UNCHANGED <<routes, client, userClosed, browser, shutting, conn, greeting, wire, link,
                  links, up, host>>
  BY DEF SweepOffline, Heartbeat
<1>2. ServerTypes'
  <2>1. CASE SweepOffline
    <3>1. mishaps' \in 0..budget'.mishaps
      BY <2>1, MishapsTyped DEF SweepOffline
    <3>2. cleaning' \subseteq 0..MaxLinks
      BY <2>1, Bounds DEF SweepOffline, TInv, ServerTypes
    <3> QED
      BY <2>1, <3>1, <3>2 DEF SweepOffline, TInv, ServerTypes, wire
  <2>2. CASE Heartbeat
    BY <2>2 DEF Heartbeat, TInv, ServerTypes, wire
  <2> QED
    BY <2>1, <2>2
<1> QED
  BY <1>1, <1>2, RegistryOnly

\* The daemon's side when it has lost its connection.
LEMMA LostT ==
    ASSUME TInv, RouteInv', LoseLink, Shrinks, ServerTypes', conn' \in {0, conn},
           UNCHANGED <<routes, client, userClosed, browser, shutting, greeting, links, host>>
    PROVE  TInv'
<1>1. UNCHANGED <<opens, route, owner, seen, missed, userClosed, browser, pty, events>>
      /\ Routed' = Routed
  BY DEF routes, client, host, Routed
<1>2. StreamShape' /\ OutTypes'
  BY <1>1, SameStreams DEF TInv
<1>3. ClientTypes'
  BY <1>1 DEF TInv, ClientTypes
<1>4. HostInv' /\ DaemonTypes'
  BY <1>1, LoseLinkStep
<1>5. Lines'
  <2>1. link' = 0 /\ links \in Nat /\ conn' <= links /\ (greeting # 0 => conn' < greeting)
    <3>1. conn \in Nat /\ links \in Nat /\ greeting \in Nat
      BY RoutedAre, Bounds
    <3> QED
      BY <3>1 DEF LoseLink, TInv, Lines
  <2>2. \A t \in Routed : owner[t].link # 0
    BY DEF TInv, Lines
  <2> QED
    BY <1>1, <2>1, <2>2 DEF TInv, Lines
<1> QED
  BY <1>2, <1>3, <1>4, <1>5 DEF TInv

LEMMA EndsT ==
    ASSUME TInv, RouteInv', budget' = budget, NEW n \in Links, ServerEnds(n)
    PROVE  TInv'
<1>1. /\ serving' = serving \ {n} /\ up' = [up EXCEPT ![n] = <<>>]
      /\ UNCHANGED <<routes, shutting, browser, client, userClosed, greeting, cut, links, host,
                     mishaps>>
  BY DEF ServerEnds
<1>2. /\ conn = n => conn' = 0 /\ online' = FALSE
                     /\ cleaning' = (IF online THEN cleaning \cup {n} ELSE cleaning)
      /\ conn # n => UNCHANGED <<conn, online, cleaning>>
  BY DEF ServerEnds
<1>3. ServerTypes'
  <2>1. n \in 0..MaxLinks
    BY Bounds
  <2>2. cleaning' \subseteq 0..MaxLinks /\ online' \in BOOLEAN
    BY <1>2, <2>1 DEF TInv, ServerTypes
  <2>3. UNCHANGED <<cut, mishaps>> /\ serving' \subseteq Links
    BY <1>1 DEF TInv, ServerTypes
  <2> QED
    BY <2>2, <2>3 DEF TInv, ServerTypes
<1>4. Shrinks
  BY <1>1, EmptyShrinks DEF TInv
<1>5. CASE link = n
  <2>1. LoseLink /\ conn' \in {0, conn}
    BY <1>2, <1>5 DEF ServerEnds
  <2> QED
    BY <1>1, <1>3, <1>4, <2>1, LostT
<1>6. CASE link # n
  <2>1. UNCHANGED <<opens, route, owner, seen, missed, userClosed, browser, pty, events, inbox,
                    link, cut>> /\ Routed' = Routed
    BY <1>1, <1>6 DEF ServerEnds, routes, client, host, Routed
  <2>2. StreamShape' /\ OutTypes'
    BY <2>1, SameStreams DEF TInv
  <2>3. ClientTypes' /\ DaemonTypes'
    BY <1>1, <1>4, <2>1 DEF TInv, ClientTypes, DaemonTypes, Shrinks
  <2>4. Lines'
    <3>1. conn \in Nat /\ links \in Nat /\ greeting \in Nat
      BY RoutedAre, Bounds
    <3>2. conn' <= links /\ (greeting # 0 => conn' < greeting)
      BY <1>2, <3>1 DEF TInv, Lines
    <3>3. \A t \in Routed : owner[t].link = link => conn' = link
      BY <1>2, <1>6 DEF TInv, Lines
    <3>4. UNCHANGED <<link, links, greeting, owner, Routed>>
      BY <1>1, <2>1
    <3> QED
      BY <3>2, <3>3, <3>4 DEF TInv, Lines
  <2>5. HostInv'
    <3>1. More({})
      BY <2>1 DEF More, TInv, DaemonTypes
    <3>2. \A t : Reached(t) => Reached(t)'
      BY <2>1 DEF Reached
    <3> QED
      BY <1>4, <2>1, <3>1, <3>2, StillAccounted DEF TInv
  <2> QED
    BY <2>2, <2>3, <2>4, <2>5, <1>3 DEF TInv
<1> QED
  BY <1>5, <1>6

LEMMA DropsLinkT ==
    ASSUME TInv, RouteInv', budget' = budget, LinkDrops
    PROVE  TInv'
<1>1. /\ LoseLink /\ conn' \in {0, conn}
      /\ UNCHANGED <<routes, client, userClosed, browser, shutting, greeting, links, host, up>>
  BY DEF LinkDrops, ServerSide, registry
<1>2. ServerTypes'
  BY DEF TInv, ServerTypes, LinkDrops, ServerSide, registry
<1>3. Shrinks
  BY <1>1, SameUp DEF TInv
<1> QED
  BY <1>1, <1>2, <1>3, LostT

\* The new connection carries nothing yet: what ran before is about to be closed.
LEMMA ReconnectT ==
    ASSUME TInv, RouteInv', budget' = budget, Reconnect
    PROVE  TInv'
<1>1. /\ link = 0 /\ greeting = 0 /\ links < budget.links
      /\ links' = links + 1 /\ link' = links + 1 /\ greeting' = links + 1
      /\ UNCHANGED <<routes, shutting, browser, client, userClosed, conn, online, serving,
                     cleaning, wire, up, host, mishaps>>
  BY DEF Reconnect
<1>2. UNCHANGED <<opens, route, owner, seen, missed, userClosed, browser, pty, events, inbox,
                  cut>> /\ Routed' = Routed
  BY <1>1 DEF routes, client, host, wire, Routed
<1>3. /\ links + 1 \in 1..MaxLinks /\ links \in Nat /\ conn \in Nat
  <2>1. budget.links \in 1..MaxLinks /\ MaxLinks \in Nat
    BY Bounds DEF TInv, RouteInv, LinkTypes
  <2> QED
    BY <1>1, <2>1, RoutedAre
<1>4. StreamShape' /\ OutTypes'
  BY <1>2, SameStreams DEF TInv
<1>5. ClientTypes' /\ DaemonTypes' /\ ServerTypes'
  <2>1. link' \in 0..MaxLinks
    BY <1>1, <1>3, Bounds
  <2>2. DaemonTypes'
    BY <1>1, <1>2, <2>1 DEF TInv, DaemonTypes
  <2>3. ClientTypes'
    BY <1>1, <1>2 DEF TInv, ClientTypes
  <2>4. ServerTypes'
    BY <1>1, <1>2 DEF TInv, ServerTypes
  <2> QED
    BY <2>2, <2>3, <2>4
<1>6. Lines'
  <2>1. conn <= links /\ conn < links + 1
    BY <1>3 DEF TInv, Lines
  <2>2. \A t \in Routed : owner[t].link \in 1..links
    BY DEF TInv, Lines
  <2>3. \A t \in Routed : /\ owner[t].link \in 1..(links + 1) /\ owner[t].link < links + 1
                          /\ owner[t].link # links + 1
    BY <1>3, <2>2
  <2> QED
    BY <1>1, <1>2, <1>3, <2>1, <2>3 DEF Lines
<1>7. \A t : ~Reached(t)
  BY <1>1, Bounds DEF Reached, TInv, Lines, ServerTypes
<1>8. HostInv'
  <2>1. More({})
    BY <1>2 DEF More, TInv, DaemonTypes
  <2>2. Shrinks
    BY <1>1, SameUp DEF TInv
  <2> QED
    BY <1>2, <1>7, <2>1, <2>2, StillAccounted DEF TInv
<1> QED
  BY <1>4, <1>5, <1>6, <1>8 DEF TInv

-----------------------------------------------------------------------------
(* The daemon.                                                             *)

\* The server's side is left alone.
LEMMA DaemonOnly ==
    ASSUME TInv, RouteInv', ServerSide, UNCHANGED <<link, links>>,
           HostInv', DaemonTypes', mishaps' \in 0..budget'.mishaps
    PROVE  TInv'
<1>1. /\ UNCHANGED <<routes, shutting, browser, client, userClosed, registry, cut>>
      /\ UNCHANGED <<opens, route, owner, seen, missed>>
  BY DEF ServerSide, routes, client
<1>2. Kept
  BY <1>1, Unchanged DEF TInv, RouteInv
<1>3. StreamShape' /\ OutTypes'
  BY <1>1, SameStreams DEF TInv
<1>4. ClientTypes'
  BY <1>1 DEF TInv, ClientTypes
<1>5. ServerTypes'
  BY <1>1 DEF TInv, ServerTypes, registry
<1>6. Lines'
  BY <1>1, <1>2, SameLines DEF registry
<1> QED
  BY <1>3, <1>4, <1>5, <1>6 DEF TInv

LEMMA SameReach ==
    ASSUME ServerSide, UNCHANGED link, NEW t
    PROVE  Reached(t)' <=> Reached(t)
BY DEF ServerSide, routes, Reached, Routed

\* The inbox is left alone, PTYs may be gone and what is reported of them is true.
LEMMA PtysEnd ==
    ASSUME TInv, ServerSide, UNCHANGED <<inbox, link>>, Sessions' \subseteq Sessions,
           \A i \in 1..Len(events') : \E frame : frame = events'[i] /\
              (Reported(frame) \/ (Handled(frame.term) /\ frame.term \notin Sessions')
               \/ (Handled(frame.term) /\ frame.kind \notin {"rejected", "exit"})),
           \A n \in Links : \A i \in 1..Len(up'[n]) : \E frame :
              frame = up'[n][i] /\ Reported(frame)
    PROVE  HostInv'
<1>1. UNCHANGED <<opens, route, owner, cut, inbox>>
  BY DEF ServerSide, routes
<1>2. OpensFirst' /\ Asked' /\ \A t : Handled(t) => Handled(t)'
  BY <1>1 DEF TInv, HostInv, OpensFirst, Asked, Handled
<1>3. \A t \in Sessions' : Handled(t)'
  BY <1>2 DEF TInv, HostInv, Reports
<1>4. ASSUME NEW i \in 1..Len(events')
      PROVE  Reported(events[i])'
  <2>1. PICK frame : frame = events'[i] /\
           (Reported(frame) \/ (Handled(frame.term) /\ frame.term \notin Sessions')
            \/ (Handled(frame.term) /\ frame.kind \notin {"rejected", "exit"}))
    OBVIOUS
  <2>2. Handled(frame.term)' /\ (frame.kind \in {"rejected", "exit"} => frame.term \notin Sessions')
    BY <1>2, <2>1 DEF Reported
  <2> QED
    BY <2>1, <2>2 DEF Reported, Handled
<1>5. ASSUME NEW n \in Links, NEW i \in 1..Len(up'[n])
      PROVE  Reported(up[n][i])'
  <2>1. PICK frame : frame = up'[n][i] /\ Reported(frame)
    OBVIOUS
  <2>2. Handled(frame.term)' /\ (frame.kind \in {"rejected", "exit"} => frame.term \notin Sessions')
    BY <1>2, <2>1 DEF Reported
  <2> QED
    BY <2>1, <2>2 DEF Reported, Handled
<1>6. Reports'
  BY <1>3, <1>4, <1>5 DEF Reports
<1>7. ASSUME NEW k, NEW t, Reached(t) \/ EndsAfter(k, t)
      PROVE  Reached(t)' \/ EndsAfter(k, t)'
  BY <1>1, <1>7, SameReach DEF EndsAfter
<1>8. Accounted'
  <2>1. \A t \in Sessions' : Reached(t)' \/ EndsAfter(0, t)'
    BY <1>7 DEF TInv, HostInv, Accounted
  <2>2. ASSUME NEW i \in 1..Len(inbox'), inbox'[i].kind = "open"
        PROVE  Reached(inbox[i].term)' \/ EndsAfter(i, inbox[i].term)'
    <3>1. PICK t : t = inbox[i].term
      OBVIOUS
    <3>2. Reached(t) \/ EndsAfter(i, t)
      BY <1>1, <2>2, <3>1 DEF TInv, HostInv, Accounted
    <3>3. Reached(t)' \/ EndsAfter(i, t)'
      BY <1>7, <3>2
    <3> QED
      BY <1>1, <3>1, <3>3 DEF Reached, EndsAfter
  <2> QED
    BY <2>1, <2>2 DEF Accounted
<1> QED
  BY <1>2, <1>6, <1>8 DEF HostInv

LEMMA OldReports ==
    ASSUME TInv
    PROVE  /\ \A i \in 1..Len(events) : Reported(events[i]) /\ events[i] \in Frames(UpKinds)
           /\ \A n \in Links : \A i \in 1..Len(up[n]) : Reported(up[n][i])
           /\ \A t \in Sessions : Handled(t) /\ t \in Terminals /\ pty[t] \in 0..MaxChunks
BY DEF TInv, HostInv, Reports, DaemonTypes, Sessions

LEMMA PtyT ==
    ASSUME TInv, RouteInv', budget' = budget, NEW t \in Terminals, PtyOutput(t) \/ PtyEnds(t)
    PROVE  TInv'
<1>1. PICK frame \in Frames(UpKinds) :
        /\ events' = Append(events, frame) /\ frame.term = t
        /\ \/ frame.kind = "exit" /\ pty' = [pty EXCEPT ![t] = NoPty]
           \/ /\ frame.kind = "output" /\ pty' = [pty EXCEPT ![t] = @ + 1]
              /\ pty[t] + 1 \in 0..MaxChunks
  <2>1. CASE PtyEnds(t)
    <3>1. /\ events' = Append(events, Frame("exit", t, 0))
          /\ pty' = [pty EXCEPT ![t] = NoPty]
      BY <2>1 DEF PtyEnds
    <3>2. Frame("exit", t, 0) \in Frames(UpKinds) /\ Frame("exit", t, 0).term = t
          /\ Frame("exit", t, 0).kind = "exit"
      BY Bounds DEF Frame, Frames, UpKinds
    <3> QED
      BY <3>1, <3>2
  <2>2. CASE PtyOutput(t)
    <3>1. /\ events' = Append(events, Frame("output", t, pty[t] + 1))
          /\ pty' = [pty EXCEPT ![t] = @ + 1] /\ t \in Sessions /\ pty[t] < budget.chunks
      BY <2>2 DEF PtyOutput
    <3>2. pty[t] \in 0..MaxChunks /\ budget.chunks \in 0..MaxChunks /\ MaxChunks \in Nat
      BY <3>1, OldReports, Bounds DEF TInv, RouteInv, LinkTypes
    <3>3. pty[t] + 1 \in 0..MaxChunks
      BY <3>1, <3>2
    <3>4. /\ Frame("output", t, pty[t] + 1) \in Frames(UpKinds)
          /\ Frame("output", t, pty[t] + 1).term = t
          /\ Frame("output", t, pty[t] + 1).kind = "output"
      BY <3>3, Bounds DEF Frame, Frames, UpKinds
    <3> QED
      BY <3>1, <3>3, <3>4
  <2> QED
    BY <2>1, <2>2
<1>2. t \in Sessions /\ ServerSide /\ UNCHANGED <<inbox, link, links, up, mishaps>>
  BY DEF PtyOutput, PtyEnds
<1>3. pty \in [Terminals -> 0..MaxChunks \cup {NoPty}] /\ events \in Seq(Frames(UpKinds))
  BY DEF TInv, DaemonTypes
<1>4. DaemonTypes'
  <2>1. pty' \in [Terminals -> 0..MaxChunks \cup {NoPty}]
    BY <1>1, <1>3
  <2>2. events' \in Seq(Frames(UpKinds))
    BY <1>1, <1>3
  <2> QED
    BY <1>2, <2>1, <2>2 DEF TInv, DaemonTypes
<1>5. Sessions' \subseteq Sessions /\ (frame.kind = "exit" => t \notin Sessions')
  <2>1. \A u \in Terminals \ {t} : pty'[u] = pty[u]
    BY <1>1, <1>3
  <2>2. frame.kind = "exit" => pty'[t] = NoPty
    BY <1>1, <1>3
  <2> QED
    BY <1>2, <2>1, <2>2 DEF Sessions
<1>6. \A i \in 1..Len(events') : \/ i \in 1..Len(events) /\ events'[i] = events[i]
                                \/ events'[i] = frame
  BY <1>1, <1>3
<1>7. ASSUME NEW i \in 1..Len(events')
      PROVE  \E f : f = events'[i] /\
                (Reported(f) \/ (Handled(f.term) /\ f.term \notin Sessions')
                 \/ (Handled(f.term) /\ f.kind \notin {"rejected", "exit"}))
  <2>1. Handled(t)
    BY <1>2, OldReports
  <2>2. CASE i \in 1..Len(events) /\ events'[i] = events[i]
    BY <2>2, OldReports
  <2>3. CASE events'[i] = frame
    BY <1>1, <1>5, <2>1, <2>3
  <2> QED
    BY <1>6, <2>2, <2>3
<1>8. \A n \in Links : \A i \in 1..Len(up'[n]) : \E f : f = up'[n][i] /\ Reported(f)
  BY <1>2, OldReports
<1>9. HostInv'
  BY <1>2, <1>5, <1>7, <1>8, PtysEnd
<1>10. mishaps' \in 0..budget'.mishaps
  BY <1>2 DEF TInv, ServerTypes
<1> QED
  BY <1>2, <1>4, <1>9, <1>10, DaemonOnly

\* What the daemon sends is at the end of what is on its way.
LEMMA Sends ==
    ASSUME DaemonTypes, link # 0, NEW frame \in Frames(UpKinds),
           up' = [up EXCEPT ![link] = Append(@, frame)]
    PROVE  /\ up' \in [Links -> Seq(Frames(UpKinds))]
           /\ \A n \in Links : \A i \in 1..Len(up'[n]) :
                 (i \in 1..Len(up[n]) /\ up'[n][i] = up[n][i]) \/ up'[n][i] = frame
<1>1. link \in Links /\ up \in [Links -> Seq(Frames(UpKinds))]
  BY Bounds DEF DaemonTypes
<1>2. Append(up[link], frame) \in Seq(Frames(UpKinds))
  BY <1>1
<1>3. up' \in [Links -> Seq(Frames(UpKinds))]
  BY <1>1, <1>2
<1>4. ASSUME NEW n \in Links, NEW i \in 1..Len(up'[n])
      PROVE  (i \in 1..Len(up[n]) /\ up'[n][i] = up[n][i]) \/ up'[n][i] = frame
  <2>1. CASE n = link
    <3>1. up'[n] = Append(up[n], frame) /\ up[n] \in Seq(Frames(UpKinds))
      BY <1>1, <2>1
    <3> QED
      BY <3>1
  <2>2. CASE n # link
    <3>1. up'[n] = up[n]
      BY <1>1, <2>2
    <3> QED
      BY <3>1
  <2> QED
    BY <2>1, <2>2
<1> QED
  BY <1>3, <1>4

LEMMA ForwardT ==
    ASSUME TInv, RouteInv', budget' = budget, HubForwards
    PROVE  TInv'
<1> DEFINE event == Head(events)
<1>1. /\ events # <<>> /\ events' = Tail(events) /\ ServerSide
      /\ UNCHANGED <<inbox, link, links, mishaps>>
      /\ \/ link # 0 /\ up' = [up EXCEPT ![link] = Append(@, event)] /\ UNCHANGED pty
         \/ pty' = [pty EXCEPT ![event.term] = NoPty] /\ UNCHANGED up
  BY DEF HubForwards
<1>2. /\ events \in Seq(Frames(UpKinds)) /\ pty \in [Terminals -> 0..MaxChunks \cup {NoPty}]
      /\ DaemonTypes
  BY DEF TInv, DaemonTypes
<1>3. /\ event = events[1] /\ 1 \in 1..Len(events) /\ events' \in Seq(Frames(UpKinds))
      /\ \A i \in 1..Len(events') : i + 1 \in 1..Len(events) /\ events'[i] = events[i + 1]
  BY <1>1, <1>2
<1>4. Reported(event) /\ event \in Frames(UpKinds)
  <2>1. Reported(events[1]) /\ events[1] \in Frames(UpKinds)
    BY <1>3, OldReports
  <2> QED
    BY <1>3, <2>1
<1> HIDE DEF event
<1>5. Sessions' \subseteq Sessions /\ pty' \in [Terminals -> 0..MaxChunks \cup {NoPty}]
  BY <1>1, <1>2 DEF Sessions
<1>6. /\ up' \in [Links -> Seq(Frames(UpKinds))]
      /\ \A n \in Links : \A i \in 1..Len(up'[n]) :
            (i \in 1..Len(up[n]) /\ up'[n][i] = up[n][i]) \/ up'[n][i] = event
  <2>1. CASE link # 0 /\ up' = [up EXCEPT ![link] = Append(@, event)]
    BY <1>2, <1>4, <2>1, Sends
  <2>2. CASE UNCHANGED up
    BY <1>2, <2>2 DEF DaemonTypes
  <2> QED
    BY <1>1, <2>1, <2>2
<1>7. DaemonTypes'
  BY <1>1, <1>2, <1>3, <1>5, <1>6 DEF DaemonTypes
<1>8. ASSUME NEW i \in 1..Len(events')
      PROVE  \E f : f = events'[i] /\
                (Reported(f) \/ (Handled(f.term) /\ f.term \notin Sessions')
                 \/ (Handled(f.term) /\ f.kind \notin {"rejected", "exit"}))
  BY <1>3, OldReports
<1>9. ASSUME NEW n \in Links, NEW i \in 1..Len(up'[n])
      PROVE  \E f : f = up'[n][i] /\ Reported(f)
  <2>1. CASE i \in 1..Len(up[n]) /\ up'[n][i] = up[n][i]
    BY <2>1, OldReports
  <2>2. CASE up'[n][i] = event
    BY <1>4, <2>2
  <2> QED
    BY <1>6, <2>1, <2>2
<1>10. HostInv'
  BY <1>1, <1>5, <1>8, <1>9, PtysEnd
<1>11. mishaps' \in 0..budget'.mishaps
  BY <1>1 DEF TInv, ServerTypes
<1> QED
  BY <1>1, <1>7, <1>10, <1>11, DaemonOnly

\* The first frame of the inbox is taken; what it does to the PTYs and what it reports is
\* shown of each kind.
LEMMA Takes ==
    ASSUME TInv, ServerSide, UNCHANGED <<link, events>>, inbox # <<>>, inbox' = Tail(inbox),
           \A t \in Sessions' : \/ t \in Sessions /\ Head(inbox) \notin {Lost, Frame("close", t, 0)}
                                \/ Head(inbox).kind = "open" /\ Head(inbox).term = t,
           \A n \in Links : \A i \in 1..Len(up'[n]) : \E frame : frame = up'[n][i] /\
              \/ Reported(frame)
              \/ /\ Head(inbox).kind = "open" /\ frame.term = Head(inbox).term
                 /\ frame.kind = "rejected" => frame.term \notin Sessions'
                 /\ frame.kind # "exit"
    PROVE  HostInv'
<1>1. UNCHANGED <<opens, route, owner, cut, events>>
  BY DEF ServerSide, routes
<1>2. PICK head : head = inbox[1]
  OBVIOUS
<1>3. /\ inbox \in Seq(Frames(DownKinds)) /\ Head(inbox) = head /\ 1 \in 1..Len(inbox)
      /\ Len(inbox') = Len(inbox) - 1 /\ Len(inbox) \in Nat
      /\ \A i \in 1..Len(inbox') : i + 1 \in 1..Len(inbox) /\ inbox'[i] = inbox[i + 1]
  BY <1>2 DEF TInv, DaemonTypes
<1>4. \A j \in 1..Len(inbox) : j # 1 => j - 1 \in 1..Len(inbox') /\ inbox'[j - 1] = inbox[j]
  <2> TAKE j \in 1..Len(inbox)
  <2> HAVE j # 1
  <2>1. j - 1 \in 1..Len(inbox') /\ (j - 1) + 1 = j
    BY <1>3
  <2> QED
    BY <1>3, <2>1
<1>5. OpensFirst'
  <2> SUFFICES ASSUME NEW i \in 1..Len(inbox'), NEW j \in 1..Len(inbox'),
                      inbox'[i].kind = "open", inbox'[j].kind \in {"open", "close"},
                      inbox'[i].term = inbox'[j].term
               PROVE  i <= j
    BY DEF OpensFirst
  <2>1. i + 1 <= j + 1
    BY <1>3 DEF TInv, HostInv, OpensFirst
  <2> QED
    BY <2>1
<1>6. Asked'
  BY <1>1, <1>3 DEF TInv, HostInv, Asked
<1>7. \A t : Handled(t) => Handled(t)'
  BY <1>1, <1>3 DEF Handled
<1>8. ASSUME head.kind = "open"
      PROVE  Handled(head.term)' /\ ~Handled(head.term)
  <2>1. ~Handled(head.term)
    BY <1>2, <1>3, <1>8 DEF Handled
  <2>2. head.term <= opens
    BY <1>2, <1>3 DEF TInv, HostInv, Asked
  <2>3. ASSUME NEW i \in 1..Len(inbox'), inbox'[i].kind = "open", inbox'[i].term = head.term
        PROVE  FALSE
    <3>1. i + 1 \in 1..Len(inbox) /\ inbox[i + 1].kind = "open" /\ inbox[i + 1].term = head.term
      BY <1>3, <2>3
    <3>2. i + 1 <= 1
      BY <1>2, <1>3, <1>8, <3>1 DEF TInv, HostInv, OpensFirst
    <3> QED
      BY <3>2
  <2> QED
    BY <1>1, <2>1, <2>2, <2>3 DEF Handled
<1>9. \A t \in Sessions' : Handled(t)'
  BY <1>3, <1>7, <1>8, OldReports
<1>10. ASSUME NEW frame, Reported(frame)
       PROVE  Handled(frame.term)' /\ (frame.kind \in {"rejected", "exit"} => frame.term \notin Sessions')
  <2>1. Handled(frame.term)
    BY <1>10 DEF Reported
  <2>2. head.kind = "open" => head.term # frame.term
    BY <1>8, <2>1
  <2> QED
    BY <1>3, <1>7, <1>10, <2>1, <2>2 DEF Reported
<1>11. Reports'
  <2>1. ASSUME NEW i \in 1..Len(events')
        PROVE  Reported(events[i])'
    <3>1. PICK frame : frame = events[i]
      OBVIOUS
    <3>2. Reported(frame) /\ frame = events'[i]
      BY <1>1, <2>1, <3>1, OldReports
    <3>3. Handled(frame.term)' /\ (frame.kind \in {"rejected", "exit"} => frame.term \notin Sessions')
      BY <1>10, <3>2
    <3> QED
      BY <3>2, <3>3 DEF Reported, Handled
  <2>2. ASSUME NEW n \in Links, NEW i \in 1..Len(up'[n])
        PROVE  Reported(up[n][i])'
    <3>1. PICK frame : frame = up'[n][i] /\
              \/ Reported(frame)
              \/ /\ Head(inbox).kind = "open" /\ frame.term = Head(inbox).term
                 /\ frame.kind = "rejected" => frame.term \notin Sessions'
                 /\ frame.kind # "exit"
      OBVIOUS
    <3>2. Handled(frame.term)' /\ (frame.kind \in {"rejected", "exit"} => frame.term \notin Sessions')
      BY <1>3, <1>8, <1>10, <3>1
    <3> QED
      BY <3>1, <3>2 DEF Reported, Handled
  <2> QED
    BY <1>9, <2>1, <2>2 DEF Reports
<1>12. ASSUME NEW k \in Nat, NEW t, EndsAfter(k, t),
              k > 0 \/ head \notin {Lost, Frame("close", t, 0)}
       PROVE  \A l \in Nat : l <= k /\ (k > 0 => l < k) => EndsAfter(l, t)'
  <2>1. PICK j \in 1..Len(inbox) : j > k /\ inbox[j] \in {Lost, Frame("close", t, 0)}
    BY <1>12 DEF EndsAfter
  <2>2. j # 1
    BY <1>2, <1>12, <2>1
  <2>3. j - 1 \in 1..Len(inbox') /\ inbox'[j - 1] \in {Lost, Frame("close", t, 0)}
    BY <1>4, <2>1, <2>2
  <2>4. \A l \in Nat : l <= k /\ (k > 0 => l < k) => j - 1 > l
    BY <2>1, <2>2
  <2> QED
    BY <2>3, <2>4 DEF EndsAfter
<1>13. Accounted'
  <2>1. ASSUME NEW t \in Sessions'
        PROVE  Reached(t)' \/ EndsAfter(0, t)'
    <3>1. CASE t \in Sessions /\ head \notin {Lost, Frame("close", t, 0)}
      <4>1. Reached(t) \/ EndsAfter(0, t)
        BY <3>1 DEF TInv, HostInv, Accounted
      <4>2. EndsAfter(0, t) => EndsAfter(0, t)'
        BY <1>12, <3>1
      <4> QED
        BY <4>1, <4>2, SameReach
    <3>2. CASE head.kind = "open" /\ head.term = t
      <4>1. Reached(t) \/ EndsAfter(1, t)
        BY <1>2, <1>3, <3>2 DEF TInv, HostInv, Accounted
      <4>2. EndsAfter(1, t) => EndsAfter(0, t)'
        BY <1>12
      <4> QED
        BY <4>1, <4>2, SameReach
    <3> QED
      BY <1>3, <3>1, <3>2
  <2>2. ASSUME NEW i \in 1..Len(inbox'), inbox'[i].kind = "open"
        PROVE  Reached(inbox[i].term)' \/ EndsAfter(i, inbox[i].term)'
    <3>1. PICK t : t = inbox'[i].term
      OBVIOUS
    <3>2. i + 1 \in 1..Len(inbox) /\ inbox[i + 1].kind = "open" /\ inbox[i + 1].term = t
      BY <1>3, <2>2, <3>1
    <3>3. Reached(t) \/ EndsAfter(i + 1, t)
      BY <3>2 DEF TInv, HostInv, Accounted
    <3>4. EndsAfter(i + 1, t) => EndsAfter(i, t)'
      <4>1. i + 1 \in Nat /\ i + 1 > 0 /\ i \in Nat /\ i < i + 1 /\ i <= i + 1
        OBVIOUS
      <4> QED
        BY <1>12, <4>1
    <3>5. Reached(t)' \/ EndsAfter(i, t)'
      BY <3>3, <3>4, SameReach
    <3> QED
      BY <3>1, <3>5 DEF Reached, EndsAfter
  <2> QED
    BY <2>1, <2>2 DEF Accounted
<1> QED
  BY <1>5, <1>6, <1>11, <1>13 DEF HostInv

LEMMA HandlesT ==
    ASSUME TInv, RouteInv', budget' = budget, HubHandles
    PROVE  TInv'
<1> DEFINE head == Head(inbox)
           t == Head(inbox).term
<1>1. /\ inbox # <<>> /\ inbox' = Tail(inbox) /\ Handle(head) /\ ServerSide
      /\ UNCHANGED <<link, links, events>>
  BY DEF HubHandles
<1>2. /\ pty \in [Terminals -> 0..MaxChunks \cup {NoPty}] /\ inbox \in Seq(Frames(DownKinds))
      /\ DaemonTypes
  BY DEF TInv, DaemonTypes
<1>3. head \in Frames(DownKinds) /\ inbox' \in Seq(Frames(DownKinds))
  BY <1>1, <1>2
<1>4. t \in 0..MaxOpens /\ head.kind \in DownKinds
  BY <1>3 DEF Frames
<1>5. \A f \in {"opened", "rejected"} : /\ Frame(f, t, 0) \in Frames(UpKinds)
                                        /\ Frame(f, t, 0).kind = f /\ Frame(f, t, 0).term = t
  BY <1>4, Bounds DEF Frame, Frames, UpKinds
<1>6. head.kind = "open" => head # Lost /\ \A u : head # Frame("close", u, 0)
  BY DEF Lost, Frame
<1>7. \/ head = Lost /\ pty' = [u \in Terminals |-> NoPty] /\ UNCHANGED <<up, mishaps>>
      \/ /\ head.kind = "open" /\ link # 0 /\ UNCHANGED mishaps
         /\ up' = [up EXCEPT ![link] = Append(@, Frame("opened", t, 0))]
         /\ pty' = [pty EXCEPT ![t] = 0]
      \/ /\ head.kind = "open" /\ link # 0 /\ UNCHANGED pty
         /\ up' = [up EXCEPT ![link] = Append(@, Frame("rejected", t, 0))]
         /\ Mishap(IF Cardinality(Sessions) < MaxPerInstance THEN 1 ELSE 0)
      \/ head.kind = "open" /\ UNCHANGED <<up, pty, mishaps>>
      \/ /\ head.kind = "close" /\ pty' = [pty EXCEPT ![t] = NoPty]
         /\ UNCHANGED <<up, mishaps>>
  BY <1>1 DEF Handle
<1> HIDE DEF head, t
<1>8. pty' \in [Terminals -> 0..MaxChunks \cup {NoPty}]
  BY <1>2, <1>7, Bounds
<1>9. /\ up' \in [Links -> Seq(Frames(UpKinds))]
      /\ \A n \in Links : \A i \in 1..Len(up'[n]) :
            \/ i \in 1..Len(up[n]) /\ up'[n][i] = up[n][i]
            \/ head.kind = "open" /\ up'[n][i] = Frame("opened", t, 0)
            \/ /\ head.kind = "open" /\ up'[n][i] = Frame("rejected", t, 0)
               /\ UNCHANGED pty
  <2>1. CASE UNCHANGED up
    BY <1>2, <2>1 DEF DaemonTypes
  <2>2. CASE /\ head.kind = "open" /\ link # 0
             /\ up' = [up EXCEPT ![link] = Append(@, Frame("opened", t, 0))]
    <3>1. PICK frame \in Frames(UpKinds) : frame = Frame("opened", t, 0)
      BY <1>5
    <3>2. up' = [up EXCEPT ![link] = Append(@, frame)] /\ link # 0
      BY <2>2, <3>1
    <3>3. /\ up' \in [Links -> Seq(Frames(UpKinds))]
          /\ \A n \in Links : \A i \in 1..Len(up'[n]) :
                (i \in 1..Len(up[n]) /\ up'[n][i] = up[n][i]) \/ up'[n][i] = frame
      BY <1>2, <3>2, Sends
    <3> QED
      BY <2>2, <3>1, <3>3
  <2>3. CASE /\ head.kind = "open" /\ link # 0 /\ UNCHANGED pty
             /\ up' = [up EXCEPT ![link] = Append(@, Frame("rejected", t, 0))]
    <3>1. PICK frame \in Frames(UpKinds) : frame = Frame("rejected", t, 0)
      BY <1>5
    <3>2. up' = [up EXCEPT ![link] = Append(@, frame)] /\ link # 0
      BY <2>3, <3>1
    <3>3. /\ up' \in [Links -> Seq(Frames(UpKinds))]
          /\ \A n \in Links : \A i \in 1..Len(up'[n]) :
                (i \in 1..Len(up[n]) /\ up'[n][i] = up[n][i]) \/ up'[n][i] = frame
      BY <1>2, <3>2, Sends
    <3> QED
      BY <2>3, <3>1, <3>3
  <2> QED
    BY <1>7, <2>1, <2>2, <2>3
<1>10. DaemonTypes'
  BY <1>1, <1>2, <1>3, <1>8, <1>9 DEF DaemonTypes
<1>11. mishaps' \in 0..budget'.mishaps
  <2>1. CASE UNCHANGED mishaps
    BY <2>1 DEF TInv, ServerTypes
  <2>2. CASE Mishap(IF Cardinality(Sessions) < MaxPerInstance THEN 1 ELSE 0)
    BY <2>2, MishapsTyped
  <2> QED
    BY <1>7, <2>1, <2>2
<1>12. \A u \in Sessions' : \/ u \in Sessions /\ head \notin {Lost, Frame("close", u, 0)}
                            \/ head.kind = "open" /\ t = u
  <2>1. CASE head = Lost /\ pty' = [u \in Terminals |-> NoPty]
    BY <2>1 DEF Sessions
  <2>2. CASE head.kind = "open" /\ (pty' = [pty EXCEPT ![t] = 0] \/ UNCHANGED pty)
    BY <1>2, <1>6, <2>2 DEF Sessions
  <2>3. CASE head.kind = "close" /\ pty' = [pty EXCEPT ![t] = NoPty]
    <3>1. \A u \in Sessions' : u \in Sessions /\ u # t
      BY <1>2, <2>3 DEF Sessions
    <3>2. head # Lost /\ \A u : head = Frame("close", u, 0) => u = t
      BY <2>3 DEF Lost, Frame, t, head
    <3> QED
      BY <3>1, <3>2
  <2> QED
    BY <1>7, <2>1, <2>2, <2>3
<1>13. ASSUME NEW n \in Links, NEW i \in 1..Len(up'[n])
       PROVE  \E frame : frame = up'[n][i] /\
                 \/ Reported(frame)
                 \/ /\ head.kind = "open" /\ frame.term = t
                    /\ frame.kind = "rejected" => frame.term \notin Sessions'
                    /\ frame.kind # "exit"
  <2>1. CASE i \in 1..Len(up[n]) /\ up'[n][i] = up[n][i]
    BY <2>1, OldReports
  <2>2. CASE head.kind = "open" /\ up'[n][i] = Frame("opened", t, 0)
    BY <1>5, <2>2
  <2>3. CASE /\ head.kind = "open" /\ up'[n][i] = Frame("rejected", t, 0)
             /\ UNCHANGED pty
    <3>1. t \notin Sessions
      <4>1. head = inbox[1] /\ 1 \in 1..Len(inbox)
        BY <1>1, <1>2 DEF head
      <4>2. ~Handled(t)
        BY <2>3, <4>1 DEF Handled, t, head
      <4> QED
        BY <4>2, OldReports
    <3>2. t \notin Sessions'
      BY <2>3, <3>1 DEF Sessions
    <3> QED
      BY <1>5, <2>3, <3>2
  <2> QED
    BY <1>9, <2>1, <2>2, <2>3
<1>14. HostInv'
  BY <1>1, <1>12, <1>13, Takes DEF head, t
<1> QED
  BY <1>1, <1>10, <1>11, <1>14, DaemonOnly

-----------------------------------------------------------------------------
(* The streams and the PTYs, always.                                       *)

LEMMA InitTInv == Init => TInv
<1> SUFFICES ASSUME Init
             PROVE  TInv
  OBVIOUS
<1>1. RouteInv
  BY InitRoutes
<1>2. Routed = {} /\ Sessions = {}
  BY DEF Init, Routed, Sessions
<1>3. OutTypes
  BY Bounds DEF Init, OutTypes, NoOwner
<1>4. ClientTypes
  <2>1. <<>> \in Seq(Notes)
    OBVIOUS
  <2>2. seen \in [Terminals -> Seq(Notes)]
    BY <2>1 DEF Init
  <2> QED
    BY <2>2 DEF Init, ClientTypes, Notes
<1>5. ServerTypes
  BY Bounds DEF Init, ServerTypes
<1>6. DaemonTypes
  BY Bounds DEF Init, DaemonTypes, NoPty
<1>7. StreamShape
  <2>1. Shapes
    BY DEF Init, Shapes, Shape
  <2> QED
    BY <2>1 DEF Init, StreamShape, Unopened, Caught, EndIsTold
<1>8. Lines
  BY <1>2 DEF Init, Lines
<1>9. HostInv
  BY <1>2 DEF Init, HostInv, OpensFirst, Asked, Reports, Accounted
<1> QED
  BY <1>1, <1>3, <1>4, <1>5, <1>6, <1>7, <1>8, <1>9 DEF TInv

LEMMA NextTInv == TInv /\ [Next]_vars => TInv'
<1> SUFFICES ASSUME TInv, [Next]_vars
             PROVE  TInv'
  OBVIOUS
<1>1. RouteInv'
  BY NextRoutes DEF TInv
<1>2. CASE Next
  <2>1. budget' = budget
    BY <1>2 DEF Next
  <2>2. ASSUME FromBrowsers
        PROVE  TInv'
    BY <1>1, <2>1, <2>2, OpenT, InputT, CloseT, DisconnectT DEF FromBrowsers
  <2>3. ASSUME \E n \in Links : ServerReads(n) \/ ServerEnds(n)
        PROVE  TInv'
    BY <1>1, <2>1, <2>3, ReadsT, EndsT
  <2>4. ASSUME \E w \in 0..MaxLinks : OnInstanceDisconnect(w)
        PROVE  TInv'
    BY <1>1, <2>1, <2>4, CleanupT
  <2>5. ASSUME \E t \in Terminals : SweepPending(t) \/ PtyOutput(t) \/ PtyEnds(t)
        PROVE  TInv'
    BY <1>1, <2>1, <2>5, SweepT, PtyT
  <2>6. ASSUME Hello \/ SweepOffline \/ Heartbeat \/ Shutdown
        PROVE  TInv'
    BY <1>1, <2>1, <2>6, HelloT, SweepOfflineT, ShutdownT
  <2>7. ASSUME LinkDrops \/ Reconnect \/ HubHandles \/ HubForwards
        PROVE  TInv'
    BY <1>1, <2>1, <2>7, DropsLinkT, ReconnectT, HandlesT, ForwardT
  <2> QED
    BY <1>2, <2>2, <2>3, <2>4, <2>5, <2>6, <2>7 DEF Next, Step
<1>3. CASE UNCHANGED vars
  <2>1. UNCHANGED <<routes, client, userClosed, browser, shutting, conn, greeting, wire, link,
                    links, up, host>>
    BY <1>3 DEF vars, registry
  <2>2. ServerTypes'
    BY <1>3 DEF TInv, ServerTypes, vars, registry, wire
  <2> QED
    BY <1>1, <2>1, <2>2, RegistryOnly
<1> QED
  BY <1>2, <1>3

LEMMA AlwaysTInv == Spec => []TInv
BY InitTInv, NextTInv, PTL DEF Spec

\* The counts are within the quotas, so they have the types the code gives them.
LEMMA Typed == TInv => TypeOK
<1> SUFFICES ASSUME TInv
             PROVE  TypeOK
  OBVIOUS
<1>1. RouteTypes /\ QuotaBalance /\ QuotaHolds /\ LinkTypes
  BY DEF TInv, RouteInv, CountInv
<1>2. Active \in SUBSET Terminals /\ Active \subseteq Routed /\ Routed \in SUBSET Terminals
  BY DEF Active, Routed
<1>3. MaxPerPrincipal \in Nat /\ MaxPerInstance \in Nat
  BY TerminalAssumption DEF TerminalAssumption
<1>4. instanceCount \in 0..MaxPerInstance
  <2>1. Cardinality(Active) <= Cardinality(Routed)
    BY <1>2, PartIsSmaller
  <2>2. Cardinality(Active) \in Nat /\ Cardinality(Routed) \in Nat
    BY <1>2, CountType
  <2> QED
    BY <1>1, <1>3, <2>1, <2>2 DEF QuotaBalance, QuotaHolds
<1>5. principalCount \in [Principals -> 0..MaxPerPrincipal]
  <2> SUFFICES ASSUME NEW p \in Principals
               PROVE  principalCount[p] \in 0..MaxPerPrincipal
    BY <1>1 DEF RouteTypes
  <2>1. /\ Of(p, Active) \in SUBSET Of(p, Routed) /\ Of(p, Routed) \in SUBSET Terminals
        /\ Of(p, Active) \in SUBSET Terminals
    BY <1>2 DEF Of
  <2>2. Cardinality(Of(p, Active)) <= Cardinality(Of(p, Routed))
    BY <2>1, PartIsSmaller
  <2>3. Cardinality(Of(p, Active)) \in Nat /\ Cardinality(Of(p, Routed)) \in Nat
    BY <2>1, CountType
  <2> QED
    BY <1>1, <1>3, <2>2, <2>3 DEF QuotaBalance, QuotaHolds
<1>6. owner \in [Terminals -> [browser : Browsers \cup {None}, link : 0..MaxLinks,
                               out : 1..(MaxChunks + 1)]]
  BY <1>1 DEF RouteTypes, TInv, OutTypes
<1> QED
  BY <1>1, <1>4, <1>5, <1>6
     DEF TypeOK, TInv, RouteTypes, LinkTypes, ClientTypes, ServerTypes, DaemonTypes

\* What a browser sees of its terminal is the answer to its open, the output without a gap
\* and one end; and it is told the end, whichever of the ways a terminal can end came
\* first, unless its user asked for it, left, or lost a frame.
THEOREM StreamsAreTold == Spec => []StreamInv
<1>1. TInv => StreamInv
  <2> SUFFICES ASSUME TInv
               PROVE  StreamInv
    OBVIOUS
  <2>1. Shapes /\ EndIsTold
    BY DEF TInv, StreamShape
  <2>2. StreamIsWhole
    <3> SUFFICES ASSUME NEW t \in Terminals, NEW i \in DOMAIN seen[t]
                 PROVE  /\ seen[t][i].kind = "opened" => i = 1
                        /\ seen[t][i].kind = "output" => i > 1 /\ seen[t][i].seq = i - 1
                        /\ seen[t][i].kind \in {"exit", "error"} => i = Len(seen[t])
      BY DEF StreamIsWhole
    <3>1. seen[t] \in Seq(Notes)
      BY DEF TInv, ClientTypes, Notes
    <3>2. i \in 1..Len(seen[t])
      BY <3>1
    <3>3. Shape(route[t], seen[t], owner[t].out)
      BY <2>1 DEF Shapes
    <3> QED
      BY <3>2, <3>3 DEF Shape
  <2> QED
    BY <2>1, <2>2, Typed DEF StreamInv
<1> QED
  BY <1>1, AlwaysTInv, PTL

\* A PTY that runs on the instance is one its user reaches, or what ends it is on its way:
\* a close, the loss of the connection, or the cut of one that could not take the close.
THEOREM PtysAreAccounted == Spec => []EveryPtyAccounted
<1>1. TInv => EveryPtyAccounted
  <2> SUFFICES ASSUME TInv, NEW t \in Sessions
               PROVE  \/ t \in Routed /\ owner[t].link = link
                      \/ \E i \in DOMAIN inbox : inbox[i] = Lost \/ inbox[i] = Frame("close", t, 0)
                      \/ link \in cut
    BY DEF EveryPtyAccounted
  <2>1. Reached(t) \/ EndsAfter(0, t)
    BY DEF TInv, HostInv, Accounted
  <2>2. ASSUME EndsAfter(0, t)
        PROVE  \E i \in DOMAIN inbox : inbox[i] = Lost \/ inbox[i] = Frame("close", t, 0)
    <3>1. PICK j \in 1..Len(inbox) : inbox[j] \in {Lost, Frame("close", t, 0)}
      BY <2>2 DEF EndsAfter
    <3>2. j \in DOMAIN inbox
      BY DEF TInv, DaemonTypes
    <3> QED
      BY <3>1, <3>2
  <2> QED
    BY <2>1, <2>2 DEF Reached
<1> QED
  BY <1>1, AlwaysTInv, PTL
=============================================================================

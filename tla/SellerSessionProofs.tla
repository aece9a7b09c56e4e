------------------------- MODULE SellerSessionProofs --------------------------
(***************************************************************************)
(* That a seller's rows and counters tell what happened, that a product it *)
(* suspended stays out of its hands, and that its catalogue keeps within   *)
(* the persona's size, for any bounds, catalogue sizes and plans.          *)
(***************************************************************************)
EXTENDS SellerSession, FiniteSetTheorems, SequenceTheorems, TLAPS

\* The type invariant in four parts.
GatewayTypes ==
    /\ users \in 0 .. MaxUsers /\ user \in NoUser .. users
    /\ made \in 0 .. MaxProducts
    /\ owner \in [Products -> NoUser .. users]
    /\ listed \subseteq 1 .. made /\ \A p \in 1 .. made : owner[p] # NoUser
    /\ blind \subseteq 1 .. users

PlanTypes ==
    /\ inventory \subseteq 1 .. made /\ sample \subseteq inventory
    /\ alerts \in Seq(Products) /\ Len(alerts) <= MaxAlerts
    /\ plan \in [create : Nat, update : Nat] /\ todo \in Nat
    /\ suspended \subseteq 1 .. made

ResultTypes ==
    /\ counted \in [Kinds -> Nat] /\ performed \in [Kinds -> Nat]
    /\ errors \in BOOLEAN /\ unanswered \in BOOLEAN

StoreTypes ==
    /\ stage \in Stages
    /\ sessions \in 0 .. MaxSessions
    /\ rows \in Seq({"ok", "partial", "error"})
    /\ completed \in Nat

\* What was confirmed happened, and what was lost is an error.
Honest ==
    /\ \A k \in Kinds : counted[k] <= performed[k]
    /\ unanswered => errors

\* A completion is recorded after its row.
Recorded == completed + (IF stage = "record" THEN 1 ELSE 0) <= Len(rows)

Early == {"auth", "audit", "notifications", "focus"}

\* What the later stages of a session may take from the earlier ones.
Prepared ==
    /\ stage \in Early => suspended = {}
    /\ stage \in Early \cup {"alerts", "expand"} => sample = {}

\* The catalogue is in the inventory until products are created...
Seen ==
    stage \in {"notifications", "focus", "alerts"} /\ user # NoUser /\ user \notin blind
        => Catalogue(user) \subseteq inventory

\* ...and has room for those that are still to be.
Room ==
    stage = "expand" /\ user # NoUser /\ user \notin blind
        => todo = 0 \/ Cardinality(Catalogue(user)) + todo <= MaxCatalog

IInv ==
    /\ GatewayTypes /\ PlanTypes /\ ResultTypes /\ StoreTypes
    /\ Honest /\ Recorded /\ Prepared /\ Seen /\ Room
    /\ SuspendedStaysOut /\ CatalogueKept

LEMMA Parts == GatewayTypes /\ PlanTypes /\ ResultTypes /\ StoreTypes => TypeOK
  BY DEF GatewayTypes, PlanTypes, ResultTypes, StoreTypes, TypeOK

LEMMA RowsAreTrue == Honest /\ Recorded => RowIsTrue
  BY DEF Honest, Recorded, RowIsTrue, SessionOutcome

LEMMA PairExtremes ==
  ASSUME NEW a \in Int, NEW b \in Int
  PROVE  /\ Max({a, b}) = IF a >= b THEN a ELSE b
         /\ Min({a, b}) = IF a <= b THEN a ELSE b
<1>1. /\ Max({a, b}) \in {a, b} /\ \A y \in {a, b} : Max({a, b}) >= y
  <2>1. \E x \in {a, b} : \A y \in {a, b} : x >= y
    OBVIOUS
  <2> QED
    BY <2>1 DEF Max
<1>2. /\ Min({a, b}) \in {a, b} /\ \A y \in {a, b} : Min({a, b}) <= y
  <2>1. \E x \in {a, b} : \A y \in {a, b} : x =< y
    OBVIOUS
  <2> QED
    BY <2>1 DEF Min
<1> QED
    BY <1>1, <1>2

LEMMA Constants ==
  /\ MaxCatalog \in Nat /\ MaxPlan \in Nat /\ MaxAttempts \in Nat /\ MaxUsers \in Nat
  /\ MaxProducts \in Nat /\ MaxAlerts \in Nat /\ MaxSessions \in Nat /\ MinCatalog \in Nat
  BY SellerAssumption DEF SellerAssumption

LEMMA FiniteCatalogue ==
  ASSUME GatewayTypes, NEW u
  PROVE  /\ IsFiniteSet(Catalogue(u)) /\ Cardinality(Catalogue(u)) \in Nat
         /\ Catalogue(u) \subseteq 1 .. made
<1>1. PICK m \in Int : m = made
    BY Constants DEF GatewayTypes
<1>2. IsFiniteSet(1 .. m)
    BY FS_Interval
<1>3. Catalogue(u) \subseteq 1 .. m
    BY <1>1 DEF GatewayTypes, Catalogue
<1> QED
    BY <1>1, <1>2, <1>3, FS_Subset, FS_CardinalityType

LEMMA FiniteInventory ==
  ASSUME GatewayTypes, PlanTypes
  PROVE  IsFiniteSet(inventory) /\ Cardinality(inventory) \in Nat
<1>1. PICK m \in Int : m = made
    BY Constants DEF GatewayTypes
<1>2. IsFiniteSet(1 .. m)
    BY FS_Interval
<1> QED
    BY <1>1, <1>2, FS_Subset, FS_CardinalityType DEF PlanTypes

LEMMA InitIInv == Init => IInv
<1> SUFFICES ASSUME Init PROVE IInv
    OBVIOUS
<1>1. GatewayTypes /\ StoreTypes
    BY Constants DEF Init, GatewayTypes, StoreTypes, NoUser, Stages
<1>2. PlanTypes
    BY Constants DEF Init, PlanTypes, NoPlan
<1>3. ResultTypes
  <2>1. errors \in BOOLEAN /\ unanswered \in BOOLEAN
    BY Zenon DEF Init
  <2> QED
    BY <2>1 DEF Init, ResultTypes, None
<1>4. Honest /\ Recorded /\ Prepared /\ Seen /\ Room
    BY DEF Init, Honest, Recorded, Prepared, Seen, Room, None, Early, NoUser
<1>5. SuspendedStaysOut /\ CatalogueKept
    BY DEF Init, SuspendedStaysOut, CatalogueKept
<1> QED
    BY <1>1, <1>2, <1>3, <1>4, <1>5 DEF IInv

------------------------------------------------------------------------------
(* Requests *)

\* An answer is counted only if the gateway did what it answers.
LEMMA AnswerFacts ==
  ASSUME ResultTypes, Honest, NEW k \in Kinds, NEW n \in Performances, Answer(k, n)
  PROVE  ResultTypes' /\ Honest'
<1>1. n \in Nat
    BY Constants DEF Performances
<1>2. /\ performed' \in [Kinds -> Nat] /\ performed'[k] = performed[k] + n
      /\ \A j \in Kinds \ {k} : performed'[j] = performed[j]
    BY <1>1 DEF Answer, ResultTypes
<1>3. CASE n > 0 /\ Confirm(k)
  <2>1. /\ counted' \in [Kinds -> Nat] /\ counted'[k] = counted[k] + 1
        /\ \A j \in Kinds \ {k} : counted'[j] = counted[j]
        /\ UNCHANGED <<errors, unanswered>>
    BY <1>3 DEF Confirm, ResultTypes
  <2>2. errors' \in BOOLEAN /\ unanswered' \in BOOLEAN
    BY <2>1, Zenon DEF ResultTypes
  <2> QED
    BY <1>1, <1>2, <1>3, <2>1, <2>2 DEF ResultTypes, Honest
<1>4. CASE Refuse \/ Lose
  <2>1. counted' = counted /\ (unanswered' => errors')
    BY <1>4 DEF Refuse, Lose, resultVars, Honest
  <2>2. errors' \in BOOLEAN /\ unanswered' \in BOOLEAN
    BY <1>4, Zenon DEF Refuse, Lose, resultVars, ResultTypes
  <2> QED
    BY <1>1, <1>2, <2>1, <2>2 DEF ResultTypes, Honest
<1> QED
    BY <1>3, <1>4 DEF Answer

LEMMA ResultsKept ==
  ASSUME ResultTypes, Honest, Refuse \/ Lose, UNCHANGED performed
  PROVE  ResultTypes' /\ Honest'
<1>1. counted' = counted /\ (unanswered' => errors')
    BY DEF Refuse, Lose, resultVars, Honest
<1>2. errors' \in BOOLEAN /\ unanswered' \in BOOLEAN
    BY Zenon DEF Refuse, Lose, resultVars, ResultTypes
<1> QED
    BY <1>1, <1>2 DEF ResultTypes, Honest

\* A product that is removed is counted as removed if it was there.
LEMMA RemovesFacts ==
  ASSUME GatewayTypes, PlanTypes, CatalogueKept, NEW p \in Products, Removes(p),
         UNCHANGED <<user, blind>>, performed \in [Kinds -> Nat]
  PROVE  /\ GatewayTypes' /\ CatalogueKept' /\ UNCHANGED <<made, owner, users>>
         /\ \A u : Catalogue(u)' = Catalogue(u) \ {p}
         /\ performed' \in [Kinds -> Nat]
         /\ \A k \in Kinds : performed[k] <= performed'[k]
         /\ p \in listed => performed'["suspend"] = performed["suspend"] + 1
         /\ \A k \in Kinds \ {"suspend"} : performed'[k] = performed[k]
<1>1. /\ listed' = listed \ {p} /\ UNCHANGED <<users, made, owner>>
      /\ performed' = [performed EXCEPT
                          !["suspend"] = @ + Cardinality({p} \cap listed)]
    BY DEF Removes
<1>2. GatewayTypes'
    BY <1>1 DEF GatewayTypes
<1>3. \A u : Catalogue(u)' = Catalogue(u) \ {p}
    BY <1>1 DEF Catalogue
<1>4. CatalogueKept'
  <2> SUFFICES ASSUME NEW u \in 1 .. users, u \notin blind
               PROVE  Cardinality(Catalogue(u)') <= MaxCatalog
    BY <1>1 DEF CatalogueKept
  <2>1. Cardinality(Catalogue(u)) <= MaxCatalog
    BY DEF CatalogueKept
  <2>2. PICK C : C = Catalogue(u)'
    OBVIOUS
  <2>3. Cardinality(C) \in Nat /\ Cardinality(C) <= Cardinality(Catalogue(u))
    BY <1>3, <2>2, FiniteCatalogue, FS_Subset, FS_CardinalityType
  <2> QED
    BY <2>1, <2>2, <2>3, FiniteCatalogue, Constants
<1>5. PICK n \in 0 .. 1 :
         n = Cardinality({p} \cap listed) /\ (p \in listed => n = 1)
  <2>1. {p} \cap listed = IF p \in listed THEN {p} ELSE {}
    OBVIOUS
  <2>2. Cardinality({p}) = 1 /\ Cardinality({}) = 0
    BY FS_Singleton, FS_EmptySet
  <2> QED
    BY <2>1, <2>2
<1>6. /\ performed' \in [Kinds -> Nat] /\ performed'["suspend"] = performed["suspend"] + n
      /\ \A k \in Kinds \ {"suspend"} : performed'[k] = performed[k]
    BY <1>1, <1>5 DEF Kinds
<1> QED
    BY <1>1, <1>2, <1>3, <1>4, <1>5, <1>6 DEF Kinds

\* A creation adds one product at most, or the user is among the blind; no
\* other user's catalogue changes.
LEMMA CreatesFacts ==
  ASSUME IInv, stage = "expand", todo > 0, user # NoUser, UNCHANGED user,
         NEW n \in Performances, Creates(n)
  PROVE  /\ GatewayTypes' /\ CatalogueKept' /\ made <= made'
         /\ \A todo1 \in Nat : todo1 = todo - 1 /\ user \notin blind'
               => todo1 = 0 \/ Cardinality(Catalogue(user)') + todo1 <= MaxCatalog
<1>1. /\ n \in Nat /\ made \in Nat /\ made + n <= MaxProducts /\ made' = made + n
      /\ owner' = [p \in Products |-> IF p \in made + 1 .. made + n THEN user ELSE owner[p]]
      /\ listed' = listed \cup (made + 1 .. made + n)
      /\ blind' = IF n > 1 THEN blind \cup {user} ELSE blind
      /\ users' = users
    BY Constants DEF Performances, Creates, IInv, GatewayTypes
<1>2. user \in 1 .. users /\ users \in Nat /\ owner' \in [Products -> NoUser .. users]
    BY <1>1, Constants DEF IInv, GatewayTypes, NoUser
<1>3. /\ \A p \in 1 .. made : p \in Products /\ owner'[p] = owner[p]
      /\ \A p \in made + 1 .. made + n : p \in Products /\ owner'[p] = user
    BY <1>1, Constants DEF Products, IInv, GatewayTypes
<1>4. GatewayTypes'
  <2>1. listed' \subseteq 1 .. made' /\ made' \in 0 .. MaxProducts
    BY <1>1, Constants DEF IInv, GatewayTypes
  <2>2. \A p \in 1 .. made' : owner'[p] # NoUser
    <3>1. \A p \in 1 .. made' : p \in 1 .. made \/ p \in made + 1 .. made + n
      BY <1>1
    <3> QED
      BY <1>3, <3>1 DEF IInv, GatewayTypes
  <2>3. blind' \subseteq 1 .. users'
    BY <1>1, <1>2 DEF IInv, GatewayTypes
  <2> QED
    BY <1>1, <1>2, <2>1, <2>2, <2>3 DEF IInv, GatewayTypes
<1>5. \A u : u # user => Catalogue(u)' = Catalogue(u)
  <2>1. \A p \in listed : p \in 1 .. made
    BY DEF IInv, GatewayTypes
  <2> QED
    BY <1>1, <1>3, <2>1 DEF Catalogue
<1>6. Catalogue(user)' = Catalogue(user) \cup (made + 1 .. made + n)
  <2>1. \A p \in listed : p \in 1 .. made
    BY DEF IInv, GatewayTypes
  <2> QED
    BY <1>1, <1>3, <2>1 DEF Catalogue
<1>7. PICK C, D : C = Catalogue(user) /\ D = Catalogue(user)'
    OBVIOUS
<1>8. n <= 1 => Cardinality(D) \in Nat /\ Cardinality(D) <= Cardinality(C) + 1
  <2>1. IsFiniteSet(C) /\ Cardinality(C) \in Nat
    BY <1>7, FiniteCatalogue DEF IInv
  <2>2. CASE n = 0
    <3>1. D = C
      BY <1>1, <1>6, <1>7, <2>2
    <3> QED
      BY <2>1, <3>1
  <2>3. CASE n = 1
    <3>1. D = C \cup {made + 1} /\ made + 1 \notin C
      BY <1>1, <1>6, <1>7, <2>3, FiniteCatalogue DEF IInv
    <3>2. Cardinality(C \cup {made + 1}) = Cardinality(C) + 1
      BY <2>1, <3>1, FS_AddElement
    <3> QED
      BY <2>1, <3>1, <3>2
  <2> QED
    BY <1>1, <2>2, <2>3
<1>9. n <= 1 /\ user \notin blind => Cardinality(C) + todo <= MaxCatalog
    BY <1>7 DEF IInv, Room, PlanTypes
<1>10. Cardinality(C) \in Nat /\ todo \in Nat
    BY <1>7, FiniteCatalogue DEF IInv, PlanTypes
<1>11. user \notin blind' => n <= 1 /\ user \notin blind
    BY <1>1
<1>12. CatalogueKept'
  <2> SUFFICES ASSUME NEW u \in 1 .. users, u \notin blind'
               PROVE  Cardinality(Catalogue(u)') <= MaxCatalog
    BY <1>1 DEF CatalogueKept
  <2>1. CASE u = user
    BY <1>7, <1>8, <1>9, <1>10, <1>11, <2>1, Constants
  <2>2. CASE u # user
    BY <1>1, <1>5, <2>2 DEF IInv, CatalogueKept
  <2> QED
    BY <2>1, <2>2
<1>13. \A todo1 \in Nat : todo1 = todo - 1 /\ user \notin blind'
           => todo1 = 0 \/ Cardinality(D) + todo1 <= MaxCatalog
    BY <1>8, <1>9, <1>10, <1>11, Constants
<1> QED
    BY <1>1, <1>4, <1>7, <1>12, <1>13

------------------------------------------------------------------------------
(* Steps that leave the gateway alone *)

\* What a step that leaves the gateway, the user and the inventory alone still
\* has to show.
LEMMA Quiet ==
  ASSUME IInv, UNCHANGED <<sessions, user, inventory, suspended, blind>>,
         UNCHANGED <<rows, completed>>, UNCHANGED <<users, made, owner, listed>>,
         ResultTypes', Honest',
         stage' \in Stages \ {"record"},
         sample' \subseteq inventory,
         alerts' \in Seq(Products), Len(alerts') <= MaxAlerts,
         plan' \in [create : Nat, update : Nat], todo' \in Nat,
         Prepared', Seen', Room'
  PROVE  IInv'
<1>1. GatewayTypes' /\ StoreTypes'
    BY DEF IInv, GatewayTypes, StoreTypes
<1>2. PlanTypes'
    BY DEF IInv, PlanTypes
<1>3. Recorded'
    BY DEF IInv, Recorded, StoreTypes
<1>4. SuspendedStaysOut'
    BY DEF IInv, SuspendedStaysOut
<1>5. CatalogueKept'
    BY DEF IInv, CatalogueKept, Catalogue
<1> QED
    BY <1>1, <1>2, <1>3, <1>4, <1>5 DEF IInv

\* A step that hands nothing on but its stage.
LEMMA QuietStage ==
  ASSUME IInv, UNCHANGED <<sessions, user, inventory, suspended, blind>>,
         UNCHANGED <<rows, completed>>, UNCHANGED <<users, made, owner, listed>>,
         UNCHANGED <<alerts, plan, todo, sample>>, ResultTypes', Honest',
         stage' \in {"idle", "persist"}
  PROVE  IInv'
<1>1. /\ alerts' \in Seq(Products) /\ Len(alerts') <= MaxAlerts
      /\ plan' \in [create : Nat, update : Nat] /\ todo' \in Nat
      /\ sample' \subseteq inventory
    BY DEF IInv, PlanTypes
<1>2. stage' \in Stages \ {"record"}
    BY DEF Stages
<1>3. Prepared' /\ Seen' /\ Room'
    BY DEF Prepared, Seen, Room, Early
<1> QED
    BY <1>1, <1>2, <1>3, Quiet

LEMMA ResultsUnchanged ==
  ASSUME ResultTypes, Honest, UNCHANGED <<counted, errors, unanswered, performed>>
  PROVE  ResultTypes' /\ Honest'
  BY ResultsKept DEF Refuse, resultVars

LEMMA EndsOK ==
  ASSUME IInv, SignUpFails \/ PromoDone \/ PersistFails
  PROVE  IInv'
<1>1. /\ UNCHANGED <<sessions, user, inventory, suspended, blind>>
      /\ UNCHANGED <<rows, completed>> /\ UNCHANGED <<users, made, owner, listed>>
      /\ UNCHANGED <<alerts, plan, todo, sample>> /\ UNCHANGED performed
      /\ stage' \in {"idle", "persist"}
    BY DEF SignUpFails, PromoDone, PersistFails, planVars, storeVars, gatewayVars
<1>2. Refuse \/ Lose
    BY DEF SignUpFails, PromoDone, PersistFails, Refuse
<1>3. ResultTypes' /\ Honest'
    BY <1>1, <1>2, ResultsKept DEF IInv
<1> QED
    BY <1>1, <1>3, QuietStage

LEMMA WithoutUserOK ==
  ASSUME IInv, WithoutUser
  PROVE  IInv'
<1>1. /\ user = NoUser /\ stage \in Early
      /\ stage' \in {"notifications", "focus"}
      /\ UNCHANGED <<sessions, user, inventory, suspended, blind>>
      /\ UNCHANGED <<rows, completed>> /\ UNCHANGED <<users, made, owner, listed>>
      /\ UNCHANGED <<alerts, plan, todo, sample>>
      /\ UNCHANGED <<counted, errors, unanswered, performed>>
    BY DEF WithoutUser, planVars, storeVars, gatewayVars, resultVars, Early
<1>2. /\ alerts' \in Seq(Products) /\ Len(alerts') <= MaxAlerts
      /\ plan' \in [create : Nat, update : Nat] /\ todo' \in Nat
      /\ sample' \subseteq inventory
    BY <1>1 DEF IInv, PlanTypes
<1>3. ResultTypes' /\ Honest'
    BY <1>1, ResultsUnchanged DEF IInv
<1>4. Prepared' /\ Seen' /\ Room' /\ stage' \in Stages \ {"record"}
    BY <1>1 DEF IInv, Prepared, Seen, Room, Early, Stages
<1> QED
    BY <1>1, <1>2, <1>3, <1>4, Quiet

LEMMA AlertsAreSequences ==
  ASSUME GatewayTypes, NEW a \in Alerts
  PROVE  a \in Seq(Products) /\ Len(a) <= MaxAlerts
<1>1. PICK n \in 0 .. MaxAlerts : a \in [1 .. n -> {p \in 1 .. made : owner[p] = user}]
    BY DEF Alerts
<1>2. {p \in 1 .. made : owner[p] = user} \subseteq Products
    BY Constants DEF GatewayTypes, Products
<1>3. n \in Nat /\ a \in [1 .. n -> Products]
    BY <1>1, <1>2, Constants
<1>4. a \in Seq(Products) /\ Len(a) = n
    BY <1>3
<1> QED
    BY <1>1, <1>4, Constants

LEMMA CheckNotificationsOK ==
  ASSUME IInv, CheckNotifications
  PROVE  IInv'
<1>1. /\ stage = "notifications" /\ stage' = "focus"
      /\ UNCHANGED <<sessions, user, inventory, suspended, blind>>
      /\ UNCHANGED <<rows, completed>> /\ UNCHANGED <<users, made, owner, listed>>
      /\ UNCHANGED <<plan, todo, sample, performed>>
      /\ Refuse \/ Lose
      /\ alerts' \in Alerts \/ alerts' = alerts
    BY DEF CheckNotifications, storeVars, gatewayVars, Refuse
<1>2. alerts' \in Seq(Products) /\ Len(alerts') <= MaxAlerts
    BY <1>1, AlertsAreSequences DEF IInv, PlanTypes
<1>3. /\ plan' \in [create : Nat, update : Nat] /\ todo' \in Nat
      /\ sample' \subseteq inventory
    BY <1>1 DEF IInv, PlanTypes
<1>4. ResultTypes' /\ Honest'
    BY <1>1, ResultsKept DEF IInv
<1>5. Prepared' /\ Seen' /\ Room' /\ stage' \in Stages \ {"record"}
    BY <1>1 DEF IInv, Prepared, Seen, Room, Early, Stages, Catalogue
<1> QED
    BY <1>1, <1>2, <1>3, <1>4, <1>5, Quiet

LEMMA PlansAreNaturals ==
  ASSUME GatewayTypes, PlanTypes, NEW p \in ModelPlans \cup FallbackPlans
  PROVE  p \in [create : Nat, update : Nat]
<1>1. CASE p \in ModelPlans
    BY <1>1, Constants DEF ModelPlans
<1>2. CASE p \in FallbackPlans
  <2>1. PICK room \in Int : room = MaxCatalog - Cardinality(inventory)
    BY FiniteInventory, Constants
  <2>2. \/ room > 0 /\ \E k \in 1 .. 3 : p = [NoPlan EXCEPT !.create = Min({room, k})]
        \/ \E k \in 1 .. 4 : p = [NoPlan EXCEPT !.update = k]
        \/ p = NoPlan
    <3> DEFINE PlansOf(f) ==
          CASE f = "expand" /\ MaxCatalog - Cardinality(inventory) > 0 ->
                 {[NoPlan EXCEPT !.create = Min({MaxCatalog - Cardinality(inventory), k})]
                    : k \in 1 .. 3}
            [] f = "promo" -> {[NoPlan EXCEPT !.update = k] : k \in 1 .. 4}
            [] OTHER -> {NoPlan}
    <3>1. PICK f \in FallbackFoci : p \in PlansOf(f)
      <4>1. FallbackPlans = UNION {PlansOf(f) : f \in FallbackFoci}
        BY DEF FallbackPlans
      <4> HIDE DEF PlansOf
      <4> QED
        BY <1>2, <4>1
    <3>2. CASE f = "expand" /\ room > 0
      BY <2>1, <3>1, <3>2
    <3>3. CASE f = "promo"
      BY <3>1, <3>3
    <3>4. CASE ~(f = "expand" /\ room > 0) /\ f # "promo"
      BY <2>1, <3>1, <3>4
    <3> QED
      BY <3>2, <3>3, <3>4
  <2>3. ASSUME NEW k \in 1 .. 3, room > 0 PROVE Min({room, k}) \in Nat
    <3>1. k \in Int /\ k > 0
      OBVIOUS
    <3>2. Min({room, k}) = IF room <= k THEN room ELSE k
      BY <3>1, PairExtremes
    <3> QED
      BY <2>3, <3>1, <3>2
  <2> QED
    BY <2>2, <2>3 DEF NoPlan
<1> QED
    BY <1>1, <1>2

LEMMA DecideFocusOK ==
  ASSUME IInv, DecideFocus
  PROVE  IInv'
<1>1. /\ stage = "focus" /\ stage' = "alerts" /\ plan' \in ModelPlans \cup FallbackPlans
      /\ UNCHANGED <<sessions, user, inventory, suspended, blind>>
      /\ UNCHANGED <<rows, completed>> /\ UNCHANGED <<users, made, owner, listed>>
      /\ UNCHANGED <<alerts, todo, sample>>
      /\ UNCHANGED <<counted, errors, unanswered, performed>>
    BY DEF DecideFocus, storeVars, gatewayVars, resultVars
<1>2. /\ alerts' \in Seq(Products) /\ Len(alerts') <= MaxAlerts /\ todo' \in Nat
      /\ sample' \subseteq inventory
    BY <1>1 DEF IInv, PlanTypes
<1>3. plan' \in [create : Nat, update : Nat]
    BY <1>1, PlansAreNaturals DEF IInv
<1>4. ResultTypes' /\ Honest'
    BY <1>1, ResultsUnchanged DEF IInv
<1>5. Prepared' /\ Seen' /\ Room' /\ stage' \in Stages \ {"record"}
    BY <1>1 DEF IInv, Prepared, Seen, Room, Early, Stages, Catalogue
<1> QED
    BY <1>1, <1>2, <1>3, <1>4, <1>5, Quiet

LEMMA TailOfAlerts ==
  ASSUME PlanTypes, alerts # <<>>
  PROVE  /\ Head(alerts) \in Products
         /\ Tail(alerts) \in Seq(Products) /\ Len(Tail(alerts)) <= MaxAlerts
<1>1. /\ Head(alerts) \in Products /\ Tail(alerts) \in Seq(Products)
      /\ Len(Tail(alerts)) = Len(alerts) - 1 /\ Len(alerts) \in Nat
    BY HeadTailProperties DEF PlanTypes
<1> QED
    BY <1>1, Constants DEF PlanTypes

LEMMA HandlesOK ==
  ASSUME IInv, Ignore \/ Restock
  PROVE  IInv'
<1>1. /\ stage = "alerts" /\ stage' = "alerts" /\ alerts # <<>> /\ alerts' = Tail(alerts)
      /\ UNCHANGED <<sessions, user, inventory, suspended, blind>>
      /\ UNCHANGED <<rows, completed>> /\ UNCHANGED <<users, made, owner, listed>>
      /\ UNCHANGED <<plan, todo, sample>>
    BY DEF Ignore, Restock, storeVars, gatewayVars
<1>2. alerts' \in Seq(Products) /\ Len(alerts') <= MaxAlerts
    BY <1>1, TailOfAlerts DEF IInv
<1>3. /\ plan' \in [create : Nat, update : Nat] /\ todo' \in Nat
      /\ sample' \subseteq inventory
    BY <1>1 DEF IInv, PlanTypes
<1>4. ResultTypes' /\ Honest'
  <2>1. CASE Ignore
    BY <2>1, ResultsUnchanged DEF Ignore, IInv, resultVars
  <2>2. CASE Restock
    BY <2>2, AnswerFacts DEF Restock, IInv, Kinds
  <2> QED
    BY <2>1, <2>2
<1>5. Prepared' /\ Seen' /\ Room' /\ stage' \in Stages \ {"record"}
    BY <1>1 DEF IInv, Prepared, Seen, Room, Early, Stages, Catalogue
<1> QED
    BY <1>1, <1>2, <1>3, <1>4, <1>5, Quiet

\* What is to be created has room in the inventory, and so in the catalogue.
LEMMA AlertsDoneOK ==
  ASSUME IInv, AlertsDone
  PROVE  IInv'
<1>1. /\ stage = "alerts" /\ stage' = "expand" /\ todo' = NToCreate
      /\ UNCHANGED <<sessions, user, inventory, suspended, blind>>
      /\ UNCHANGED <<rows, completed>> /\ UNCHANGED <<users, made, owner, listed>>
      /\ UNCHANGED <<alerts, plan, sample>>
      /\ UNCHANGED <<counted, errors, unanswered, performed>>
    BY DEF AlertsDone, storeVars, gatewayVars, resultVars
<1>2. PICK c \in Nat, v \in Nat : c = plan.create /\ v = Cardinality(inventory)
    BY FiniteInventory DEF IInv, PlanTypes
<1>3. todo' \in Nat /\ (todo' = 0 \/ v + todo' <= MaxCatalog)
  <2>1. PICK room \in Int : room = MaxCatalog - v
    BY Constants
  <2>2. Max({0, room}) = IF 0 >= room THEN 0 ELSE room
    BY PairExtremes
  <2>3. PICK m \in Nat : m = Max({0, room}) /\ (m = 0 \/ m = room)
    BY <2>2
  <2>4. Min({c, m}) = IF c <= m THEN c ELSE m
    BY PairExtremes
  <2>5. todo' = Min({c, m})
    BY <1>1, <1>2, <2>1, <2>3 DEF NToCreate
  <2> QED
    BY <2>1, <2>3, <2>4, <2>5, Constants
<1>4. /\ alerts' \in Seq(Products) /\ Len(alerts') <= MaxAlerts
      /\ plan' \in [create : Nat, update : Nat] /\ sample' \subseteq inventory
    BY <1>1 DEF IInv, PlanTypes
<1>5. ResultTypes' /\ Honest'
    BY <1>1, ResultsUnchanged DEF IInv
<1>6. Room'
  <2> SUFFICES ASSUME user # NoUser, user \notin blind
               PROVE  todo' = 0 \/ Cardinality(Catalogue(user)') + todo' <= MaxCatalog
    BY <1>1 DEF Room
  <2>1. Catalogue(user)' = Catalogue(user)
    BY <1>1 DEF Catalogue
  <2>2. Catalogue(user) \subseteq inventory
    BY <1>1 DEF IInv, Seen
  <2>3. Cardinality(Catalogue(user)) \in Nat /\ Cardinality(Catalogue(user)) <= v
    BY <1>2, <2>2, FiniteInventory, FiniteCatalogue, FS_Subset DEF IInv
  <2>4. PICK n \in Nat, t \in Nat : n = Cardinality(Catalogue(user)) /\ t = todo'
    BY <1>3, <2>3
  <2>5. t = 0 \/ n + t <= MaxCatalog
    <3>1. n <= v /\ (t = 0 \/ v + t <= MaxCatalog)
      BY <1>3, <2>3, <2>4
    <3>2. MaxCatalog \in Nat
      BY Constants
    <3> QED
      BY <3>1, <3>2
  <2> QED
    BY <2>1, <2>4, <2>5
<1>7. Prepared' /\ Seen' /\ stage' \in Stages \ {"record"}
    BY <1>1 DEF IInv, Prepared, Seen, Early, Stages
<1> QED
    BY <1>1, <1>3, <1>4, <1>5, <1>6, <1>7, Quiet

LEMMA ExpandDoneOK ==
  ASSUME IInv, ExpandDone
  PROVE  IInv'
<1>1. /\ stage = "expand" /\ stage' = "promo" /\ sample' \subseteq inventory
      /\ UNCHANGED <<sessions, user, inventory, suspended, blind>>
      /\ UNCHANGED <<rows, completed>> /\ UNCHANGED <<users, made, owner, listed>>
      /\ UNCHANGED <<alerts, plan, todo>>
      /\ UNCHANGED <<counted, errors, unanswered, performed>>
    BY DEF ExpandDone, storeVars, gatewayVars, resultVars, kSubset, Priceable
<1>2. /\ alerts' \in Seq(Products) /\ Len(alerts') <= MaxAlerts
      /\ plan' \in [create : Nat, update : Nat] /\ todo' \in Nat
    BY <1>1 DEF IInv, PlanTypes
<1>3. ResultTypes' /\ Honest'
    BY <1>1, ResultsUnchanged DEF IInv
<1>4. Prepared' /\ Seen' /\ Room' /\ stage' \in Stages \ {"record"}
    BY <1>1 DEF Prepared, Seen, Room, Early, Stages
<1> QED
    BY <1>1, <1>2, <1>3, <1>4, Quiet

LEMMA UpdatePriceOK ==
  ASSUME IInv, NEW p \in Products, UpdatePrice(p)
  PROVE  IInv'
<1>1. /\ stage = "promo" /\ stage' = "promo" /\ sample' = sample \ {p}
      /\ UNCHANGED <<sessions, user, inventory, suspended, blind>>
      /\ UNCHANGED <<rows, completed>> /\ UNCHANGED <<users, made, owner, listed>>
      /\ UNCHANGED <<alerts, plan, todo>>
    BY DEF UpdatePrice, storeVars, gatewayVars
<1>2. /\ alerts' \in Seq(Products) /\ Len(alerts') <= MaxAlerts
      /\ plan' \in [create : Nat, update : Nat] /\ todo' \in Nat
      /\ sample' \subseteq inventory
    BY <1>1 DEF IInv, PlanTypes
<1>3. ResultTypes' /\ Honest'
  <2>1. CASE UNCHANGED <<resultVars, performed>>
    BY <2>1, ResultsUnchanged DEF IInv, resultVars
  <2>2. CASE \E n \in Performances : Answer("price", n)
    BY <2>2, AnswerFacts DEF IInv, Kinds
  <2> QED
    BY <2>1, <2>2 DEF UpdatePrice
<1>4. Prepared' /\ Seen' /\ Room' /\ stage' \in Stages \ {"record"}
    BY <1>1 DEF Prepared, Seen, Room, Early, Stages
<1> QED
    BY <1>1, <1>2, <1>3, <1>4, Quiet

------------------------------------------------------------------------------
(* Steps that reach the gateway *)

\* The deleted product leaves the catalogue and the inventory together.
LEMMA SuspendOK ==
  ASSUME IInv, Suspend
  PROVE  IInv'
<1>1. PICK h \in Products : h = Head(alerts) /\ h \in listed
    BY TailOfAlerts DEF Suspend, IInv
<1>2. /\ stage = "alerts" /\ stage' = "alerts" /\ alerts # <<>> /\ alerts' = Tail(alerts)
      /\ Removes(h) /\ Confirm("suspend")
      /\ suspended' = suspended \cup {h} /\ inventory' = inventory \ {h}
      /\ UNCHANGED <<sessions, user, plan, todo, sample, blind, rows, completed>>
    BY <1>1 DEF Suspend, Forget, storeVars
<1>3. /\ GatewayTypes' /\ CatalogueKept' /\ UNCHANGED <<made, owner, users>>
      /\ \A u : Catalogue(u)' = Catalogue(u) \ {h}
      /\ performed' \in [Kinds -> Nat]
      /\ performed'["suspend"] = performed["suspend"] + 1
      /\ \A k \in Kinds \ {"suspend"} : performed'[k] = performed[k]
    BY <1>1, <1>2, RemovesFacts DEF IInv, ResultTypes
<1>4. sample = {} /\ sample' = {}
    BY <1>2 DEF IInv, Prepared
<1>5. PlanTypes'
  <2>1. alerts' \in Seq(Products) /\ Len(alerts') <= MaxAlerts
    BY <1>2, TailOfAlerts DEF IInv
  <2>2. h \in 1 .. made
    BY <1>1 DEF IInv, GatewayTypes
  <2> QED
    BY <1>2, <1>3, <1>4, <2>1, <2>2 DEF IInv, PlanTypes
<1>6. ResultTypes' /\ Honest'
  <2>1. /\ counted' \in [Kinds -> Nat] /\ counted'["suspend"] = counted["suspend"] + 1
        /\ \A k \in Kinds \ {"suspend"} : counted'[k] = counted[k]
        /\ UNCHANGED <<errors, unanswered>>
    BY <1>2 DEF Confirm, IInv, ResultTypes, Kinds
  <2>2. errors' \in BOOLEAN /\ unanswered' \in BOOLEAN
    BY <2>1, Zenon DEF IInv, ResultTypes
  <2>3. \A k \in Kinds : counted'[k] <= performed'[k]
    BY <1>3, <2>1 DEF IInv, Honest, ResultTypes
  <2> QED
    BY <1>3, <2>1, <2>2, <2>3 DEF IInv, ResultTypes, Honest
<1>7. StoreTypes' /\ Recorded'
    BY <1>2 DEF IInv, StoreTypes, Recorded, Stages
<1>8. Prepared' /\ Room'
    BY <1>2, <1>4 DEF Prepared, Room, Early
<1>9. Seen'
  <2>1. user # NoUser /\ user \notin blind => Catalogue(user) \subseteq inventory
    BY <1>2 DEF IInv, Seen
  <2>2. Catalogue(user)' = Catalogue(user) \ {h}
    <3>1. PICK u : u = user /\ u = user'
      BY <1>2
    <3>2. Catalogue(u)' = Catalogue(u) \ {h}
      BY <1>3
    <3> QED
      BY <3>1, <3>2 DEF Catalogue
  <2>3. user # NoUser /\ user \notin blind => Catalogue(user)' \subseteq inventory'
    BY <1>2, <2>1, <2>2
  <2> QED
    BY <1>2, <2>3 DEF Seen, Catalogue
<1>10. SuspendedStaysOut'
    BY <1>2, <1>4 DEF IInv, SuspendedStaysOut
<1> QED
    BY <1>3, <1>5, <1>6, <1>7, <1>8, <1>9, <1>10 DEF IInv

\* A deletion whose answer the session does not get, or a request that ends
\* with its session.
LEMMA UnansweredRemoval ==
  ASSUME IInv, stage = "alerts", alerts # <<>>,
         Removes(Head(alerts)) \/ UNCHANGED <<performed, gatewayVars>>,
         UNCHANGED <<sessions, user, inventory, plan, todo, sample, suspended, blind>>,
         UNCHANGED <<rows, completed>>, UNCHANGED <<counted, errors, unanswered>>,
         alerts' \in {alerts, Tail(alerts)}, stage' \in {"alerts", "idle"}
  PROVE  IInv'
<1>1. PICK h \in Products : h = Head(alerts)
    BY TailOfAlerts DEF IInv
<1>2. /\ GatewayTypes' /\ CatalogueKept' /\ UNCHANGED <<made, owner, users>>
      /\ \A u : Catalogue(u)' \subseteq Catalogue(u)
      /\ performed' \in [Kinds -> Nat]
      /\ \A k \in Kinds : performed[k] <= performed'[k]
  <2>1. CASE Removes(h)
    <3>1. /\ GatewayTypes' /\ CatalogueKept' /\ UNCHANGED <<made, owner, users>>
          /\ \A u : Catalogue(u)' = Catalogue(u) \ {h}
          /\ performed' \in [Kinds -> Nat]
          /\ \A k \in Kinds : performed[k] <= performed'[k]
      BY <2>1, RemovesFacts DEF IInv, ResultTypes
    <3> QED
      BY <3>1
  <2>2. CASE UNCHANGED <<performed, gatewayVars>>
    <3>1. UNCHANGED <<performed, users, made, owner, listed>>
      BY <2>2 DEF gatewayVars
    <3>2. GatewayTypes' /\ CatalogueKept'
      BY <3>1 DEF IInv, GatewayTypes, CatalogueKept, Catalogue
    <3>3. \A u : Catalogue(u)' \subseteq Catalogue(u)
      BY <3>1 DEF Catalogue
    <3>4. performed' \in [Kinds -> Nat] /\ \A k \in Kinds : performed[k] <= performed'[k]
      BY <3>1 DEF IInv, ResultTypes
    <3> QED
      BY <3>1, <3>2, <3>3, <3>4
  <2> QED
    BY <1>1, <2>1, <2>2
<1>3. PlanTypes'
  <2>1. alerts' \in Seq(Products) /\ Len(alerts') <= MaxAlerts
    BY TailOfAlerts DEF IInv, PlanTypes
  <2> QED
    BY <1>2, <2>1 DEF IInv, PlanTypes
<1>4. ResultTypes' /\ Honest'
  <2>1. errors' \in BOOLEAN /\ unanswered' \in BOOLEAN
    BY Zenon DEF IInv, ResultTypes
  <2>2. \A k \in Kinds : counted[k] <= performed'[k]
    BY <1>2 DEF IInv, Honest, ResultTypes
  <2> QED
    BY <1>2, <2>1, <2>2 DEF IInv, ResultTypes, Honest
<1>5. StoreTypes' /\ Recorded'
    BY DEF IInv, StoreTypes, Recorded, Stages
<1>6. Prepared' /\ Room'
    BY DEF IInv, Prepared, Room, Early
<1>7. Seen'
  <2>1. user # NoUser /\ user \notin blind => Catalogue(user) \subseteq inventory
    BY DEF IInv, Seen
  <2>2. Catalogue(user)' \subseteq Catalogue(user)
    BY <1>2
  <2>3. user # NoUser /\ user \notin blind => Catalogue(user)' \subseteq inventory'
    BY <2>1, <2>2
  <2> QED
    BY <2>3 DEF Seen, Catalogue
<1>8. SuspendedStaysOut'
    BY DEF IInv, SuspendedStaysOut
<1> QED
    BY <1>2, <1>3, <1>4, <1>5, <1>6, <1>7, <1>8 DEF IInv

LEMMA SuspendFailsOK ==
  ASSUME IInv, SuspendRefused \/ SuspendLost
  PROVE  IInv'
<1>1. /\ stage = "alerts" /\ alerts # <<>>
      /\ Removes(Head(alerts)) \/ UNCHANGED <<performed, gatewayVars>>
    BY DEF SuspendRefused, SuspendLost
<1>2. /\ UNCHANGED <<sessions, user, inventory, plan, todo, sample, suspended, blind>>
      /\ UNCHANGED <<rows, completed>> /\ UNCHANGED <<counted, errors, unanswered>>
      /\ alerts' \in {alerts, Tail(alerts)} /\ stage' \in {"alerts", "idle"}
  <2>1. CASE SuspendRefused
    BY <1>1, <2>1 DEF SuspendRefused, resultVars, storeVars
  <2>2. CASE SuspendLost
    BY <2>2 DEF SuspendLost, resultVars, storeVars, planVars
  <2> QED
    BY <2>1, <2>2
<1> QED
    BY <1>1, <1>2, UnansweredRemoval

\* A product is created, by a session that goes on or by one that is cancelled
\* in the request.
LEMMA Creation ==
  ASSUME IInv, stage = "expand", todo > 0, user # NoUser,
         NEW n \in Performances, Creates(n),
         UNCHANGED <<sessions, user, inventory, alerts, plan, sample, suspended>>,
         UNCHANGED <<rows, completed>>, ResultTypes', Honest',
         \/ stage' = "expand" /\ todo' = todo - 1
         \/ stage' = "idle" /\ todo' = todo
  PROVE  IInv'
<1>1. /\ GatewayTypes' /\ CatalogueKept' /\ made <= made'
      /\ \A todo1 \in Nat : todo1 = todo - 1 /\ user \notin blind'
            => todo1 = 0 \/ Cardinality(Catalogue(user)') + todo1 <= MaxCatalog
    BY CreatesFacts
<1>2. PlanTypes'
  <2>1. 1 .. made \subseteq 1 .. made'
    BY <1>1, Constants DEF IInv, GatewayTypes
  <2>2. todo' \in Nat
    BY DEF IInv, PlanTypes
  <2> QED
    BY <2>1, <2>2 DEF IInv, PlanTypes
<1>3. StoreTypes' /\ Recorded'
    BY DEF IInv, StoreTypes, Recorded, Stages
<1>4. Prepared' /\ Seen'
    BY DEF IInv, Prepared, Seen, Early
<1>5. Room'
  <2> SUFFICES ASSUME stage' = "expand", user # NoUser, user \notin blind'
               PROVE  todo' = 0 \/ Cardinality(Catalogue(user)') + todo' <= MaxCatalog
    BY DEF Room, Catalogue
  <2>1. PICK t \in Nat : t = todo' /\ t = todo - 1
    BY DEF IInv, PlanTypes
  <2> QED
    BY <1>1, <2>1
<1>6. SuspendedStaysOut'
    BY DEF IInv, SuspendedStaysOut
<1> QED
    BY <1>1, <1>2, <1>3, <1>4, <1>5, <1>6 DEF IInv

LEMMA CreateProductOK ==
  ASSUME IInv, CreateProduct
  PROVE  IInv'
<1>1. /\ stage = "expand" /\ stage' = "expand" /\ todo > 0 /\ todo' = todo - 1
      /\ UNCHANGED <<sessions, user, inventory, alerts, plan, sample, suspended>>
      /\ UNCHANGED <<rows, completed>>
    BY DEF CreateProduct, storeVars
<1>2. CASE user # NoUser
  <2>1. PICK n \in Performances : Creates(n) /\ Answer("create", n)
    BY <1>2 DEF CreateProduct
  <2>2. ResultTypes' /\ Honest'
    BY <2>1, AnswerFacts DEF IInv, Kinds
  <2> QED
    BY <1>1, <1>2, <2>1, <2>2, Creation
<1>3. CASE user = NoUser
  <2>1. /\ UNCHANGED <<counted, errors, unanswered, performed>>
        /\ UNCHANGED blind /\ UNCHANGED <<users, made, owner, listed>>
    BY <1>3 DEF CreateProduct, resultVars, gatewayVars
  <2>2. /\ alerts' \in Seq(Products) /\ Len(alerts') <= MaxAlerts
        /\ plan' \in [create : Nat, update : Nat] /\ todo' \in Nat
        /\ sample' \subseteq inventory
    BY <1>1 DEF IInv, PlanTypes
  <2>3. ResultTypes' /\ Honest'
    BY <2>1, ResultsUnchanged DEF IInv
  <2>4. Prepared' /\ Seen' /\ Room' /\ stage' \in Stages \ {"record"}
    BY <1>1, <1>3 DEF IInv, Prepared, Seen, Room, Early, Stages
  <2> QED
    BY <1>1, <2>1, <2>2, <2>3, <2>4, Quiet
<1> QED
    BY <1>2, <1>3

LEMMA CancelledOK ==
  ASSUME IInv, Cancelled
  PROVE  IInv'
<1>1. /\ stage' = "idle"
      /\ UNCHANGED <<sessions, user, inventory, alerts, plan, todo, sample, suspended>>
      /\ UNCHANGED <<rows, completed>> /\ UNCHANGED <<counted, errors, unanswered>>
    BY DEF Cancelled, planVars, resultVars, storeVars
<1>2. CASE UNCHANGED <<performed, blind, gatewayVars>>
  <2>1. ResultTypes' /\ Honest'
    BY <1>1, <1>2, ResultsUnchanged DEF IInv
  <2> QED
    BY <1>1, <1>2, <2>1, QuietStage DEF gatewayVars
<1>3. CASE /\ stage = "expand" /\ todo > 0 /\ user # NoUser
           /\ (\E n \in Performances : Creates(n)) /\ UNCHANGED performed
  <2>1. ResultTypes' /\ Honest'
    BY <1>1, <1>3, ResultsUnchanged DEF IInv
  <2> QED
    BY <1>1, <1>3, <2>1, Creation
<1>4. CASE /\ stage = "alerts" /\ alerts # <<>> /\ Removes(Head(alerts))
           /\ UNCHANGED blind
    BY <1>1, <1>4, UnansweredRemoval
<1> QED
    BY <1>2, <1>3, <1>4 DEF Cancelled

------------------------------------------------------------------------------
(* The session's own steps *)

LEMMA PickPersonaOK ==
  ASSUME IInv, PickPersona
  PROVE  IInv'
<1>1. /\ stage = "idle" /\ sessions < MaxSessions /\ stage' = "auth"
      /\ sessions' = sessions + 1 /\ user' = NoUser
      /\ inventory' = {} /\ alerts' = <<>> /\ plan' = NoPlan /\ todo' = 0 /\ sample' = {}
      /\ counted' = None /\ errors' = FALSE /\ unanswered' = FALSE
      /\ performed' = None /\ suspended' = {}
      /\ UNCHANGED <<blind, rows, completed, users, made, owner, listed>>
    BY DEF PickPersona, NewState, storeVars, gatewayVars
<1>2. GatewayTypes'
    BY <1>1, Constants DEF IInv, GatewayTypes, NoUser
<1>3. PlanTypes'
    BY <1>1, Constants DEF PlanTypes, NoPlan
<1>4. ResultTypes' /\ Honest'
  <2>1. errors' \in BOOLEAN /\ unanswered' \in BOOLEAN
    BY <1>1, Zenon
  <2> QED
    BY <1>1, <2>1 DEF ResultTypes, Honest, None
<1>5. StoreTypes' /\ Recorded'
    BY <1>1, Constants DEF IInv, StoreTypes, Recorded, Stages
<1>6. Prepared' /\ Seen' /\ Room' /\ SuspendedStaysOut'
    BY <1>1 DEF Prepared, Seen, Room, SuspendedStaysOut
<1>7. CatalogueKept'
    BY <1>1 DEF IInv, CatalogueKept, Catalogue
<1> QED
    BY <1>2, <1>3, <1>4, <1>5, <1>6, <1>7 DEF IInv

\* A user of its own has no product yet.
LEMMA SignUpOK ==
  ASSUME IInv, NEW u \in NoUser .. MaxUsers, SignUp(u)
  PROVE  IInv'
<1>1. /\ stage = "auth" /\ u \in NoUser .. users + 1 /\ u <= MaxUsers /\ user' = u
      /\ users' = Max({users, u}) /\ stage' = "audit"
      /\ UNCHANGED <<sessions, inventory, alerts, plan, todo, sample>>
      /\ UNCHANGED <<counted, errors, unanswered, performed>>
      /\ UNCHANGED <<suspended, blind, rows, completed, made, owner, listed>>
    BY DEF SignUp, planVars, resultVars, storeVars
<1>2. /\ users \in Nat /\ u \in Nat /\ users' \in 0 .. MaxUsers /\ u <= users'
      /\ users' \in {users, users + 1}
    BY <1>1, PairExtremes, Constants DEF IInv, GatewayTypes, NoUser
<1>3. GatewayTypes'
  <2>1. NoUser .. users \subseteq NoUser .. users' /\ 1 .. users \subseteq 1 .. users'
    BY <1>2 DEF NoUser
  <2>2. owner' \in [Products -> NoUser .. users']
    BY <1>1, <2>1 DEF IInv, GatewayTypes
  <2>3. user' \in NoUser .. users' /\ blind' \subseteq 1 .. users'
    BY <1>1, <1>2, <2>1 DEF IInv, GatewayTypes, NoUser
  <2> QED
    BY <1>1, <1>2, <2>2, <2>3 DEF IInv, GatewayTypes
<1>4. PlanTypes' /\ StoreTypes' /\ Recorded' /\ SuspendedStaysOut'
    BY <1>1 DEF IInv, PlanTypes, StoreTypes, Recorded, SuspendedStaysOut, Stages
<1>5. ResultTypes' /\ Honest'
    BY <1>1, ResultsUnchanged DEF IInv
<1>6. Prepared' /\ Seen' /\ Room'
    BY <1>1 DEF IInv, Prepared, Seen, Room, Early
<1>7. CatalogueKept'
  <2> SUFFICES ASSUME NEW v \in 1 .. users', v \notin blind
               PROVE  Cardinality(Catalogue(v)') <= MaxCatalog
    BY <1>1 DEF CatalogueKept
  <2>1. Catalogue(v)' = Catalogue(v)
    BY <1>1 DEF Catalogue
  <2>2. CASE v \in 1 .. users
    BY <2>1, <2>2 DEF IInv, CatalogueKept
  <2>3. CASE v \notin 1 .. users
    <3>1. \A p \in listed : owner[p] # v
      <4>1. \A p \in listed : p \in Products
        BY Constants DEF IInv, GatewayTypes, Products
      <4>2. v \notin NoUser .. users
        BY <1>2, <2>3 DEF NoUser
      <4> QED
        BY <4>1, <4>2 DEF IInv, GatewayTypes
    <3>2. Catalogue(v) = {}
      BY <3>1 DEF Catalogue
    <3> QED
      BY <2>1, <3>2, FS_EmptySet, Constants
  <2> QED
    BY <2>2, <2>3
<1> QED
    BY <1>3, <1>4, <1>5, <1>6, <1>7 DEF IInv

LEMMA AuditOK ==
  ASSUME IInv, AuditFails \/ \E found \in SUBSET Catalogue(user) : AuditInventory(found)
  PROVE  IInv'
<1>1. /\ stage = "audit" /\ user # NoUser /\ stage' = "notifications"
      /\ UNCHANGED <<sessions, user, alerts, plan, todo, sample, performed, suspended>>
      /\ UNCHANGED <<rows, completed>> /\ UNCHANGED <<users, made, owner, listed>>
      /\ Refuse \/ Lose
      /\ inventory' \in {inventory} \cup SUBSET Catalogue(user)
      /\ blind \subseteq blind' /\ blind' \subseteq blind \cup {user}
      /\ inventory' = Catalogue(user) \/ user \in blind'
  <2>1. CASE AuditFails
    BY <2>1 DEF AuditFails, planVars, storeVars, gatewayVars
  <2>2. CASE \E found \in SUBSET Catalogue(user) : AuditInventory(found)
    <3>1. PICK found \in SUBSET Catalogue(user) : AuditInventory(found)
      BY <2>2
    <3> QED
      BY <3>1 DEF AuditInventory, resultVars, storeVars, gatewayVars, Refuse
  <2> QED
    BY <2>1, <2>2
<1>2. sample = {} /\ suspended = {}
    BY <1>1 DEF IInv, Prepared, Early
<1>3. GatewayTypes'
  <2>1. user \in 1 .. users
    BY <1>1, Constants DEF IInv, GatewayTypes, NoUser
  <2> QED
    BY <1>1, <2>1 DEF IInv, GatewayTypes
<1>4. PlanTypes'
  <2>1. inventory' \subseteq 1 .. made
    BY <1>1, FiniteCatalogue DEF IInv, PlanTypes
  <2> QED
    BY <1>1, <1>2, <2>1 DEF IInv, PlanTypes
<1>5. ResultTypes' /\ Honest'
    BY <1>1, ResultsKept DEF IInv
<1>6. StoreTypes' /\ Recorded'
    BY <1>1 DEF IInv, StoreTypes, Recorded, Stages
<1>7. Prepared' /\ Room' /\ SuspendedStaysOut'
    BY <1>1, <1>2 DEF Prepared, Room, SuspendedStaysOut, Early
<1>8. Seen'
  <2>1. Catalogue(user)' = Catalogue(user)
    BY <1>1 DEF Catalogue
  <2> QED
    BY <1>1, <2>1 DEF Seen, Catalogue
<1>9. CatalogueKept'
    BY <1>1 DEF IInv, CatalogueKept, Catalogue
<1> QED
    BY <1>3, <1>4, <1>5, <1>6, <1>7, <1>8, <1>9 DEF IInv

LEMMA RecordOK ==
  ASSUME IInv, Persist \/ RecordCompletion
  PROVE  IInv'
<1>1. /\ UNCHANGED <<sessions, user, inventory, alerts, plan, todo, sample>>
      /\ UNCHANGED <<counted, errors, unanswered, performed>>
      /\ UNCHANGED <<suspended, blind, users, made, owner, listed>>
      /\ stage' \in {"record", "idle"}
      /\ \/ /\ stage = "persist" /\ stage' = "record" /\ completed' = completed
            /\ rows' = Append(rows, SessionOutcome)
         \/ /\ stage = "record" /\ stage' = "idle" /\ completed' = completed + 1
            /\ rows' = rows
    BY DEF Persist, RecordCompletion, planVars, resultVars, gatewayVars
<1>2. GatewayTypes' /\ PlanTypes'
    BY <1>1 DEF IInv, GatewayTypes, PlanTypes
<1>3. ResultTypes' /\ Honest'
    BY <1>1, ResultsUnchanged DEF IInv
<1>4. StoreTypes' /\ Recorded'
  <2>1. SessionOutcome \in {"ok", "partial", "error"}
    BY DEF SessionOutcome
  <2>2. /\ rows' \in Seq({"ok", "partial", "error"})
        /\ Len(rows') = IF stage = "persist" THEN Len(rows) + 1 ELSE Len(rows)
    BY <1>1, <2>1 DEF IInv, StoreTypes
  <2>3. completed' \in Nat /\ stage' \in Stages /\ sessions' \in 0 .. MaxSessions
    BY <1>1 DEF IInv, StoreTypes, Stages
  <2>4. Recorded'
    BY <1>1, <2>2 DEF IInv, StoreTypes, Recorded
  <2> QED
    BY <2>2, <2>3, <2>4 DEF StoreTypes
<1>5. Prepared' /\ Seen' /\ Room' /\ SuspendedStaysOut'
    BY <1>1 DEF IInv, Prepared, Seen, Room, SuspendedStaysOut, Early
<1>6. CatalogueKept'
    BY <1>1 DEF IInv, CatalogueKept, Catalogue
<1> QED
    BY <1>2, <1>3, <1>4, <1>5, <1>6 DEF IInv

LEMMA StutterOK ==
  ASSUME IInv, UNCHANGED vars
  PROVE  IInv'
<1>1. /\ UNCHANGED <<stage, sessions, user, inventory, alerts, plan, todo, sample>>
      /\ UNCHANGED <<counted, errors, unanswered, performed, suspended, blind>>
      /\ UNCHANGED <<rows, completed, users, made, owner, listed>>
    BY DEF vars, planVars, resultVars, storeVars, gatewayVars
<1>2. GatewayTypes' /\ PlanTypes' /\ StoreTypes'
    BY <1>1 DEF IInv, GatewayTypes, PlanTypes, StoreTypes
<1>3. ResultTypes' /\ Honest'
    BY <1>1, ResultsUnchanged DEF IInv
<1>4. Recorded' /\ Prepared' /\ Seen' /\ Room' /\ SuspendedStaysOut'
    BY <1>1 DEF IInv, Recorded, Prepared, Seen, Room, SuspendedStaysOut, Catalogue
<1>5. CatalogueKept'
    BY <1>1 DEF IInv, CatalogueKept, Catalogue
<1> QED
    BY <1>2, <1>3, <1>4, <1>5 DEF IInv

LEMMA NextOK ==
  ASSUME IInv, [Next]_vars
  PROVE  IInv'
<1>1. CASE PickPersona
    BY <1>1, PickPersonaOK
<1>2. CASE SignUpFails \/ PromoDone \/ PersistFails
    BY <1>2, EndsOK
<1>3. CASE \E u \in NoUser .. MaxUsers : SignUp(u)
    BY <1>3, SignUpOK
<1>4. CASE WithoutUser
    BY <1>4, WithoutUserOK
<1>5. CASE AuditFails \/ \E found \in SUBSET Catalogue(user) : AuditInventory(found)
    BY <1>5, AuditOK
<1>6. CASE CheckNotifications \/ DecideFocus
    BY <1>6, CheckNotificationsOK, DecideFocusOK
<1>7. CASE Ignore \/ Restock
    BY <1>7, HandlesOK
<1>8. CASE Suspend
    BY <1>8, SuspendOK
<1>9. CASE SuspendRefused \/ SuspendLost
    BY <1>9, SuspendFailsOK
<1>10. CASE AlertsDone \/ CreateProduct \/ ExpandDone
    BY <1>10, AlertsDoneOK, CreateProductOK, ExpandDoneOK
<1>11. CASE \E p \in Products : UpdatePrice(p)
    BY <1>11, UpdatePriceOK
<1>12. CASE Persist \/ RecordCompletion
    BY <1>12, RecordOK
<1>13. CASE Cancelled
    BY <1>13, CancelledOK
<1>14. CASE UNCHANGED vars
    BY <1>14, StutterOK
<1> QED
    BY <1>1, <1>2, <1>3, <1>4, <1>5, <1>6, <1>7, <1>8, <1>9, <1>10, <1>11, <1>12,
       <1>13, <1>14 DEF Next

------------------------------------------------------------------------------
(* The theorems *)

\* What a seller session holds, what it has asked of the gateway and what the
\* gateway has done fit together after every request.
THEOREM Inductive == Spec => []IInv
<1>1. Init => IInv
    BY InitIInv
<1>2. IInv /\ [Next]_vars => IInv'
    BY NextOK
<1> QED
    BY <1>1, <1>2, PTL DEF Spec

\* The state of a session (sellers/state.py), the rows it leaves and the
\* gateway's products keep to their kinds, and what a session has in hand are
\* products there have been.
THEOREM TypeCorrect == Spec => []TypeOK
<1>1. IInv => TypeOK
    BY Parts DEF IInv
<1> QED
    BY <1>1, Inductive, PTL

\* The row of a session (sellers/repository.py:95-118) counts no more than the
\* gateway did for it, and says ok only of a session all of whose requests were
\* answered, however many attempts a request is given.
THEOREM RowIsAlwaysTrue == Spec => []RowIsTrue
<1>1. IInv => RowIsTrue
    BY RowsAreTrue DEF IInv
<1> QED
    BY <1>1, Inductive, PTL

\* A suspended product leaves the inventory (suspend.py:22-23) before prices
\* are picked from it, whatever the alerts and the plan.
THEOREM SuspendedAlwaysStaysOut == Spec => []SuspendedStaysOut
<1>1. IInv => SuspendedStaysOut
    BY DEF IInv
<1> QED
    BY <1>1, Inductive, PTL

\* The cap of runner.py:285-290 on what a session creates keeps a user's
\* catalogue within max_catalog_size through all its sessions, as long as each
\* saw it whole and no request was performed twice.
THEOREM CatalogueAlwaysKept == Spec => []CatalogueKept
<1>1. IInv => CatalogueKept
    BY DEF IInv
<1> QED
    BY <1>1, Inductive, PTL
==============================================================================

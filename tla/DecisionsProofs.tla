--------------------------- MODULE DecisionsProofs --------------------------
(***************************************************************************)
(* Proofs about the decisions, for any catalogues, requests, runners and   *)
(* hosts.  A record that is kept was made by one decision out of nothing,  *)
(* so each theorem is a fact about the operators of a decision, and the    *)
(* lemmas are about those.                                                 *)
(***************************************************************************)
EXTENDS Decisions, FiniteSetTheorems, WellFoundedInduction, TLAPS

-----------------------------------------------------------------------------
(* The order of the candidates *)

\* Two sequences of numbers are never above one another.
LEMMA AboveIsOneWay ==
  ASSUME NEW a, NEW b, DOMAIN a \subseteq Nat \ {0}, DOMAIN b = DOMAIN a,
         \A i \in DOMAIN a : a[i] \in Int /\ b[i] \in Int,
         \A i \in DOMAIN a : 1..i \subseteq DOMAIN a,
         Ro!Above(a, b), Ro!Above(b, a)
  PROVE  FALSE
<1>1. PICK i \in DOMAIN a : a[i] > b[i] /\ \A j \in 1..(i - 1) : a[j] = b[j]
  BY DEF Ro!Above
<1>2. PICK k \in DOMAIN a : b[k] > a[k] /\ \A j \in 1..(k - 1) : b[j] = a[j]
  BY DEF Ro!Above
<1>3. i \in Nat \ {0} /\ k \in Nat \ {0}
  OBVIOUS
<1>4. CASE i = k
  BY <1>1, <1>2, <1>4
<1>5. CASE i < k
  <2>1. i \in 1..(k - 1)
    BY <1>3, <1>5
  <2>. QED  BY <2>1, <1>1, <1>2
<1>6. CASE k < i
  <2>1. k \in 1..(i - 1)
    BY <1>3, <1>6
  <2>. QED  BY <2>1, <1>1, <1>2
<1>. QED  BY <1>3, <1>4, <1>5, <1>6

\* What the order looks at are numbers.
LEMMA KeysAreNumbers ==
  ASSUME NEW models, IsCatalogue(models), NEW m \in models, NEW task
  PROVE  /\ Ro!Fit(m, task) \in Int /\ Ro!One(Ro!measured(m, task)) \in Int
         /\ Ro!One(m.resident) \in Int /\ Ro!Score(m, task) \in Int
         /\ Ro!policy_preference(m, task) \in Int
         /\ - m.size \in Int /\ - m.name[1] \in Int /\ - m.name[2] \in Int
<1>1. Ro!Fit(m, task) \in Int /\ Ro!One(Ro!measured(m, task)) \in Int /\ Ro!One(m.resident) \in Int
  BY DEF Ro!Fit, Ro!One
<1>2. Ro!Score(m, task) \in Int
  BY DEF IsCatalogue, Ro!Score, Ro!measured
<1>3. Ro!policy_preference(m, task) \in Int
  BY RoutingAssumption DEF IsCatalogue, Ro!policy_preference, Ro!qualified
<1>4. m.size \in Nat /\ m.name[1] \in Nat /\ m.name[2] \in Nat
  BY DEF IsCatalogue, Names
<1>. QED  BY <1>1, <1>2, <1>3, <1>4

\* Of two candidates one at most is taken before the other.
LEMMA OrderIsOneWay ==
  ASSUME NEW models, IsCatalogue(models), NEW l \in models, NEW r \in models, NEW input,
         Ro!compare_candidates(l, r, input), Ro!compare_candidates(r, l, input)
  PROVE  FALSE
<1>. DEFINE t == input.task
            Fast(m) == <<Ro!Fit(m, t), Ro!Score(m, t), - m.size>>
            Fair(m) == <<Ro!Fit(m, t), Ro!One(Ro!measured(m, t)), Ro!One(m.resident),
                         Ro!Score(m, t), Ro!policy_preference(m, t)>>
            Good(m) == <<Ro!policy_preference(m, t)>>
            Tie(m) == <<- m.name[1], - m.name[2]>>
            Before(a, b, x, y) == Ro!Above(a, b) \/ (a = b /\ Ro!Above(x, y))
<1>1. \A m \in {l, r} : /\ Fast(m) \in Int \X Int \X Int /\ Fair(m) \in Int \X Int \X Int \X Int \X Int
                        /\ Ro!policy_preference(m, t) \in Int /\ Tie(m) \in Int \X Int
  BY KeysAreNumbers
<1>2. ~ (Ro!Above(Tie(l), Tie(r)) /\ Ro!Above(Tie(r), Tie(l)))
  <2>. HIDE DEF t
  <2>. DEFINE a == Tie(l)  b == Tie(r)
  <2>1. DOMAIN a = 1..2 /\ DOMAIN b = 1..2
    OBVIOUS
  <2>2. \A i \in 1..2 : a[i] \in Int /\ b[i] \in Int
    BY <1>1
  <2>3. \A i \in 1..2 : 1..i \subseteq 1..2
    OBVIOUS
  <2>. HIDE DEF a, b
  <2>4. ~ (Ro!Above(a, b) /\ Ro!Above(b, a))
    BY <2>1, <2>2, <2>3, AboveIsOneWay
  <2>. QED  BY <2>4 DEF a, b
<1>3. ASSUME NEW n \in 1..5, NEW a, NEW b, DOMAIN a = 1..n, DOMAIN b = 1..n,
             \A i \in 1..n : a[i] \in Int /\ b[i] \in Int,
             Before(a, b, Tie(l), Tie(r)), Before(b, a, Tie(r), Tie(l))
      PROVE  FALSE
  <2>1. ~ (Ro!Above(a, b) /\ Ro!Above(b, a))
    <3>1. 1..n \subseteq Nat \ {0} /\ \A i \in 1..n : 1..i \subseteq 1..n
      OBVIOUS
    <3>. QED  BY <1>3, <3>1, AboveIsOneWay
  <2>2. ~ Ro!Above(a, a)
    BY <1>3 DEF Ro!Above
  <2>. QED  BY <1>2, <1>3, <2>1, <2>2
<1>4. CASE input.objective = "fastest"
  <2>1. Before(Fast(l), Fast(r), Tie(l), Tie(r)) /\ Before(Fast(r), Fast(l), Tie(r), Tie(l))
    BY <1>4 DEF Ro!compare_candidates
  <2>. DEFINE a == Fast(l)  b == Fast(r)
  <2>2. DOMAIN a = 1..3 /\ DOMAIN b = 1..3 /\ \A i \in 1..3 : a[i] \in Int /\ b[i] \in Int
    BY <1>1
  <2>3. Before(a, b, Tie(l), Tie(r)) /\ Before(b, a, Tie(r), Tie(l))
    BY <2>1
  <2>. HIDE DEF a, b
  <2>. QED  BY <1>3, <2>2, <2>3
<1>5. CASE input.objective = "balanced"
  <2>1. Before(Fair(l), Fair(r), Tie(l), Tie(r)) /\ Before(Fair(r), Fair(l), Tie(r), Tie(l))
    BY <1>5 DEF Ro!compare_candidates
  <2>. DEFINE a == Fair(l)  b == Fair(r)
  <2>2. DOMAIN a = 1..5 /\ DOMAIN b = 1..5 /\ \A i \in 1..5 : a[i] \in Int /\ b[i] \in Int
    BY <1>1
  <2>3. Before(a, b, Tie(l), Tie(r)) /\ Before(b, a, Tie(r), Tie(l))
    BY <2>1
  <2>. HIDE DEF a, b
  <2>. QED  BY <1>3, <2>2, <2>3
<1>6. CASE input.objective \notin {"fastest", "balanced"}
  <2>1. Before(Good(l), Good(r), Tie(l), Tie(r)) /\ Before(Good(r), Good(l), Tie(r), Tie(l))
    BY <1>6 DEF Ro!compare_candidates
  <2>. DEFINE a == Good(l)  b == Good(r)
  <2>2. DOMAIN a = 1..1 /\ DOMAIN b = 1..1 /\ \A i \in 1..1 : a[i] \in Int /\ b[i] \in Int
    BY <1>1
  <2>3. Before(a, b, Tie(l), Tie(r)) /\ Before(b, a, Tie(r), Tie(l))
    BY <2>1
  <2>. HIDE DEF a, b
  <2>. QED  BY <1>3, <2>2, <2>3
<1>. QED  BY <1>4, <1>5, <1>6

-----------------------------------------------------------------------------
(* Who may serve, and who does *)

\* The models that may serve are models, and only those with a policy under a
\* quality objective.
LEMMA EligibleAreModels ==
  ASSUME NEW models, NEW input
  PROVE  Ro!Eligible(input, models) \subseteq models
  BY DEF Ro!Eligible, Ro!eligible_for_objective, Ro!CapabilityEligible

\* Taking away a model that is not the last with a policy takes away no other.
LEMMA OthersStayEligible ==
  ASSUME NEW models, NEW input, NEW m, NEW o, m # o,
         m \in Ro!Eligible(input, models), o \in Ro!Eligible(input, models)
  PROVE  Ro!Eligible(input, models \ {o}) = Ro!Eligible(input, models) \ {o}
<1>. DEFINE able == Ro!CapabilityEligible(input, models)
            vouched == {x \in able : Ro!qualified(x, input.task)}
            fewer == {x \in able \ {o} : Ro!qualified(x, input.task)}
<1>1. Ro!CapabilityEligible(input, models \ {o}) = able \ {o}
  BY DEF Ro!CapabilityEligible
<1>. HIDE DEF able
<1>2. fewer = vouched \ {o}
  OBVIOUS
<1>3. Ro!Eligible(input, models) = Ro!eligible_for_objective(input, able)
  BY DEF Ro!Eligible, able
<1>4. Ro!Eligible(input, models \ {o}) = Ro!eligible_for_objective(input, able \ {o})
  BY <1>1 DEF Ro!Eligible
<1>5. CASE input.model # None \/ input.objective = "fastest"
  BY <1>3, <1>4, <1>5 DEF Ro!eligible_for_objective
<1>6. CASE ~ (input.model # None \/ input.objective = "fastest") /\ vouched = {} /\ input.objective = "balanced"
  <2>1. Ro!eligible_for_objective(input, able) = able
    BY <1>6 DEF Ro!eligible_for_objective
  <2>2. Ro!eligible_for_objective(input, able \ {o}) = able \ {o}
    BY <1>2, <1>6 DEF Ro!eligible_for_objective
  <2>. QED  BY <1>3, <1>4, <2>1, <2>2
<1>7. CASE ~ (input.model # None \/ input.objective = "fastest") /\ ~ (vouched = {} /\ input.objective = "balanced")
  <2>1. Ro!eligible_for_objective(input, able) = vouched
    BY <1>7 DEF Ro!eligible_for_objective
  <2>2. m \in vouched
    BY <1>3, <2>1
  <2>3. ~ (fewer = {} /\ input.objective = "balanced")
    BY <1>2, <1>7, <2>2
  <2>4. Ro!eligible_for_objective(input, able \ {o}) = fewer
    BY <1>7, <2>3 DEF Ro!eligible_for_objective
  <2>. QED  BY <1>2, <1>3, <1>4, <2>1, <2>4
<1>. QED  BY <1>5, <1>6, <1>7

\* The model a name denotes is one model, and the same without any other.
LEMMA InstalledIsOne ==
  ASSUME NEW models, IsCatalogue(models), NEW requested, NEW m, m \in Ro!installed_model(models, requested)
  PROVE  /\ Ro!installed_model(models, requested) = {m}
         /\ \A o \in models \ {m} : Ro!installed_model(models \ {o}, requested) = {m}
<1>. DEFINE exact(s) == {x \in s : x.name = requested}
            family(s) == {x \in s : requested[2] = None /\ x.name[1] = requested[1]}
            latest(s) == {x \in family(s) : x.name[2] = Latest}
<1>1. ASSUME NEW s \in SUBSET models
      PROVE  /\ exact(s) # {} => Ro!installed_model(s, requested) = exact(s)
             /\ exact(s) = {} /\ latest(s) # {} => Ro!installed_model(s, requested) = latest(s)
             /\ exact(s) = {} /\ latest(s) = {} /\ Cardinality(family(s)) = 1
                  => Ro!installed_model(s, requested) = family(s)
             /\ exact(s) = {} /\ latest(s) = {} /\ Cardinality(family(s)) # 1
                  => Ro!installed_model(s, requested) = {}
  <2>. DEFINE E == exact(s)  F == family(s)  L == latest(s)
  <2>1. Ro!installed_model(s, requested) =
          CASE E # {} -> E
            [] E = {} /\ L # {} -> L
            [] E = {} /\ L = {} /\ Cardinality(F) = 1 -> F
            [] OTHER -> {}
    BY DEF Ro!installed_model
  <2>. HIDE DEF E, F, L
  <2>. SUFFICES /\ E # {} => Ro!installed_model(s, requested) = E
                /\ E = {} /\ L # {} => Ro!installed_model(s, requested) = L
                /\ E = {} /\ L = {} /\ Cardinality(F) = 1 => Ro!installed_model(s, requested) = F
                /\ E = {} /\ L = {} /\ Cardinality(F) # 1 => Ro!installed_model(s, requested) = {}
    BY DEF E, F, L
  <2>. QED  BY <2>1
<1>2. \A x, y \in models : x.name = y.name => x = y
  BY DEF IsCatalogue
<1>3. CASE exact(models) # {}
  <2>1. m \in exact(models)
    BY <1>1, <1>3
  <2>2. exact(models) = {m}
    BY <1>2, <2>1
  <2>3. \A o \in models \ {m} : exact(models \ {o}) = {m}
    BY <2>2
  <2>. QED  BY <1>1, <1>3, <2>2, <2>3
<1>4. CASE exact(models) = {} /\ latest(models) # {}
  <2>1. m \in latest(models)
    BY <1>1, <1>4
  <2>2. \A x \in latest(models) : x.name = m.name
    <3>1. \A x \in latest(models) : x.name \in Nat \X Nat /\ x.name[1] = requested[1] /\ x.name[2] = Latest
      BY DEF IsCatalogue, Names
    <3>. QED  BY <2>1, <3>1
  <2>3. latest(models) = {m}
    BY <1>2, <2>1, <2>2
  <2>4. \A o \in models \ {m} : latest(models \ {o}) = {m} /\ exact(models \ {o}) = {}
    BY <1>4, <2>3
  <2>. QED  BY <1>1, <1>4, <2>3, <2>4
<1>5. CASE exact(models) = {} /\ latest(models) = {}
  <2>1. Cardinality(family(models)) = 1 /\ m \in family(models)
    BY <1>1, <1>5
  <2>2. IsFiniteSet(family(models))
    BY FS_Subset DEF IsCatalogue
  <2>3. family(models) = {m}
    <3>. HIDE DEF family
    <3>. QED  BY <2>1, <2>2, FS_Singleton
  <2>4. \A o \in models \ {m} : family(models \ {o}) = {m} /\ latest(models \ {o}) = {} /\ exact(models \ {o}) = {}
    BY <1>5, <2>3
  <2>. QED  BY <1>1, <1>5, <2>1, <2>3, <2>4
<1>. QED  BY <1>3, <1>4, <1>5

\* The best candidate, when there is one, is one model, and is the best of any
\* fewer candidates it is among.
LEMMA BestIsOne ==
  ASSUME NEW models, IsCatalogue(models), NEW able \in SUBSET models, NEW input,
         NEW m, m \in Ro!Best(able, input)
  PROVE  Ro!Best(able, input) = {m} /\ \A o \in able \ {m} : Ro!Best(able \ {o}, input) = {m}
<1>1. m \in able /\ \A o \in able \ {m} : Ro!compare_candidates(m, o, input)
  BY DEF Ro!Best
<1>2. ASSUME NEW some \in SUBSET able, m \in some, NEW x \in Ro!Best(some, input), x # m
      PROVE  FALSE
  <2>1. x \in some /\ Ro!compare_candidates(x, m, input)
    BY <1>2 DEF Ro!Best
  <2>. QED  BY <1>1, <1>2, <2>1, OrderIsOneWay
<1>3. ASSUME NEW some \in SUBSET able, m \in some
      PROVE  Ro!Best(some, input) = {m}
  <2>1. m \in Ro!Best(some, input)
    BY <1>1, <1>3 DEF Ro!Best
  <2>. QED  BY <1>2, <1>3, <2>1
<1>. QED  BY <1>1, <1>3

\* So the model taken is one, and without a model that may serve but was not
\* taken it is the same.
LEMMA ChosenIsOne ==
  ASSUME NEW models, IsCatalogue(models), NEW input, NEW assigned, NEW m,
         m \in Ro!Chosen(input, models, assigned)
  PROVE  /\ m \in Ro!Eligible(input, models)
         /\ Ro!Chosen(input, models, assigned) = {m}
         /\ \A o \in Ro!Eligible(input, models) \ {m} : Ro!Chosen(input, models \ {o}, assigned) = {m}
<1>. DEFINE E == Ro!Eligible(input, models)
            A == Ro!Affine(input, models, assigned)
            I == Ro!installed_model(models, input.model)
<1>1. E \in SUBSET models
  BY EligibleAreModels
<1>2. Ro!Chosen(input, models, assigned)
        = CASE input.model # None -> I \cap E
            [] input.model = None /\ A # {} -> A
            [] OTHER -> Ro!Best(E, input)
  BY DEF Ro!Chosen
<1>3. ASSUME NEW o
      PROVE  Ro!Chosen(input, models \ {o}, assigned)
               = CASE input.model # None -> Ro!installed_model(models \ {o}, input.model) \cap Ro!Eligible(input, models \ {o})
                   [] input.model = None /\ Ro!Affine(input, models \ {o}, assigned) # {}
                        -> Ro!Affine(input, models \ {o}, assigned)
                   [] OTHER -> Ro!Best(Ro!Eligible(input, models \ {o}), input)
  BY DEF Ro!Chosen
<1>4. ASSUME NEW o \in E \ {m}, m \in E
      PROVE  Ro!Eligible(input, models \ {o}) = E \ {o} /\ Ro!Affine(input, models \ {o}, assigned) = A \ {o}
  <2>1. Ro!Eligible(input, models \ {o}) = E \ {o}
    BY <1>4, OthersStayEligible
  <2>2. Ro!Affine(input, models \ {o}, assigned) = A \ {o}
    BY <2>1 DEF Ro!Affine
  <2>. QED  BY <2>1, <2>2
<1>5. \A x, y \in A : x = y
  <2>1. \A x \in A : x \in models /\ x.name = assigned
    BY <1>1 DEF Ro!Affine
  <2>. QED  BY <2>1 DEF IsCatalogue
<1>6. A \subseteq E
  BY DEF Ro!Affine
<1>. HIDE DEF E, A, I
<1>7. CASE input.model # None
  <2>1. m \in I /\ m \in E
    BY <1>2, <1>7
  <2>2. I = {m} /\ \A o \in models \ {m} : Ro!installed_model(models \ {o}, input.model) = {m}
    BY <2>1, InstalledIsOne DEF I
  <2>3. Ro!Chosen(input, models, assigned) = {m}
    BY <1>2, <1>7, <2>1, <2>2
  <2>4. ASSUME NEW o \in E \ {m} PROVE Ro!Chosen(input, models \ {o}, assigned) = {m}
    <3>1. Ro!Chosen(input, models \ {o}, assigned)
            = Ro!installed_model(models \ {o}, input.model) \cap Ro!Eligible(input, models \ {o})
      BY <1>3, <1>7
    <3>. QED  BY <1>1, <1>4, <2>1, <2>2, <2>4, <3>1
  <2>. QED  BY <2>1, <2>3, <2>4 DEF E
<1>8. CASE input.model = None /\ A # {}
  <2>1. Ro!Chosen(input, models, assigned) = A /\ m \in A
    BY <1>2, <1>8
  <2>2. A = {m} /\ m \in E
    BY <1>5, <1>6, <2>1
  <2>3. ASSUME NEW o \in E \ {m} PROVE Ro!Chosen(input, models \ {o}, assigned) = {m}
    <3>1. Ro!Affine(input, models \ {o}, assigned) = {m}
      BY <1>4, <2>2, <2>3
    <3>. QED  BY <1>3, <1>8, <3>1
  <2>. QED  BY <2>1, <2>2, <2>3 DEF E
<1>9. CASE input.model = None /\ A = {}
  <2>1. Ro!Chosen(input, models, assigned) = Ro!Best(E, input)
    BY <1>2, <1>9
  <2>2. m \in E
    BY <2>1 DEF Ro!Best
  <2>3. Ro!Best(E, input) = {m} /\ \A o \in E \ {m} : Ro!Best(E \ {o}, input) = {m}
    BY <1>1, <2>1, BestIsOne
  <2>4. ASSUME NEW o \in E \ {m} PROVE Ro!Chosen(input, models \ {o}, assigned) = {m}
    <3>1. Ro!Affine(input, models \ {o}, assigned) = {}
      BY <1>4, <1>9, <2>2, <2>4
    <3>2. Ro!Chosen(input, models \ {o}, assigned) = Ro!Best(Ro!Eligible(input, models \ {o}), input)
      BY <1>3, <1>9, <3>1
    <3>3. Ro!Eligible(input, models \ {o}) = E \ {o}
      BY <1>4, <2>2, <2>4
    <3>. QED  BY <2>3, <2>4, <3>2, <3>3
  <2>. QED  BY <2>1, <2>2, <2>3, <2>4 DEF E
<1>. QED  BY <1>7, <1>8, <1>9

-----------------------------------------------------------------------------
(* The routes *)

\* What a route says of the model m it takes.
RouteTo(m, input, models, assigned) ==
  [selected |-> m.name,
   options  |-> Ro!profile(input, m),
   window   |-> Ro!sent_window_fit(m, Ro!profile(input, m)),
   grade    |-> Ro!route_evidence(m, input.task),
   rejected |-> Ro!rejected_candidates(input, models, m),
   reasons  |-> Ro!reasons(input, m, assigned)]

Confident(m, input) ==
  Ro!enforce_min_confidence(input, Ro!route_evidence(m, input.task).confidence)

\* The one model decides whether there is a route, and which.
LEMMA RouteOfChosen ==
  ASSUME NEW models, NEW input, NEW assigned, NEW m, Ro!Chosen(input, models, assigned) = {m}
  PROVE  Ro!select_route(input, models, assigned)
           = IF Confident(m, input) THEN RouteTo(m, input, models, assigned) ELSE None
<1>1. (CHOOSE x \in {m} : TRUE) = m
  OBVIOUS
<1>2. {m} # {}
  OBVIOUS
<1>. HIDE DEF Ro!Chosen
<1>3. (CHOOSE x \in Ro!Chosen(input, models, assigned) : TRUE) = m
  BY <1>1
<1>. QED  BY <1>2, <1>3 DEF Ro!select_route, RouteTo, Confident

LEMMA RouteIsOfChosen ==
  ASSUME NEW models, IsCatalogue(models), NEW input, NEW assigned,
         Ro!select_route(input, models, assigned) # None
  PROVE  \E m \in Ro!Eligible(input, models) :
           /\ Ro!Chosen(input, models, assigned) = {m}
           /\ Confident(m, input)
           /\ Ro!select_route(input, models, assigned) = RouteTo(m, input, models, assigned)
<1>1. Ro!Chosen(input, models, assigned) # {}
  BY DEF Ro!select_route
<1>2. PICK m : m \in Ro!Chosen(input, models, assigned)
  BY <1>1
<1>3. m \in Ro!Eligible(input, models) /\ Ro!Chosen(input, models, assigned) = {m}
  BY <1>2, ChosenIsOne
<1>4. Ro!select_route(input, models, assigned)
        = IF Confident(m, input) THEN RouteTo(m, input, models, assigned) ELSE None
  BY <1>3, RouteOfChosen
<1>. QED  BY <1>3, <1>4

\* The least of some numbers is one of them, and no larger than any.
LEMMA LeastOfNumbers ==
  ASSUME NEW S \in SUBSET Nat, S # {}
  PROVE  (CHOOSE n \in S : \A o \in S : n <= o) \in S /\ \A o \in S : (CHOOSE n \in S : \A k \in S : n <= k) <= o
<1>1. IsWellFoundedOn(OpToRel(<, Nat), Nat)
  BY NatLessThanWellFounded
<1>2. PICK n \in S : \A y \in S : ~ (<<y, n>> \in OpToRel(<, Nat))
  BY <1>1, WFMin
<1>3. ASSUME NEW y \in S PROVE n <= y
  <2>1. n \in Nat /\ y \in Nat /\ ~ (y < n)
    BY <1>2 DEF OpToRel
  <2>. QED  BY <2>1
<1>. QED  BY <1>3

\* What a route says is of the types above, whatever it is made for.
LEMMA RouteTypes ==
  ASSUME NEW models, IsCatalogue(models), NEW input, input.context \in Option(Nat), NEW assigned,
         NEW m \in models, NEW fewer \in SUBSET models
  PROVE  RouteTo(m, input, fewer, assigned) \in Routes
<1>1. m.name \in Names /\ m.window \in Option(Nat)
  BY DEF IsCatalogue
<1>2. Ro!profile(input, m) \in [num_ctx : Nat, num_predict : Nat, think : Efforts, strict : BOOLEAN]
  <2>. DEFINE t == input.task
              policy == IF t \in DOMAIN m.policy_options THEN m.policy_options[t] ELSE [think |-> None, num_predict |-> None]
              effort == IF t \in {"code_repair", "coding", "long_context"} THEN Ro!thinking_or_off(m, "medium") ELSE "off"
              length == CASE t = "browser" -> 64 [] t = "tools" -> 256 [] t = "embedding" -> 0
                          [] t \in {"vision", "completion"} -> 512 [] OTHER -> 2048
              sizes == {Ro!requested_context(input), MaxNumCtx} \cup (IF m.window = None THEN {} ELSE {m.window})
              think == CASE policy.think = None -> effort
                         [] policy.think = TRUE -> Ro!thinking_or_off(m, "on")
                         [] OTHER -> "off"
  <2>1. Ro!requested_context(input) \in Nat
    BY DEF Ro!requested_context, Option
  <2>2. sizes \in SUBSET Nat /\ sizes # {}
    BY <1>1, <2>1, RoutingAssumption DEF Option
  <2>3. Ro!Least(sizes) \in Nat
    <3>. HIDE DEF sizes
    <3>. QED  BY <2>2, LeastOfNumbers DEF Ro!Least
  <2>4. effort \in Efforts /\ Ro!thinking_or_off(m, "on") \in Efforts
    BY DEF Efforts, Ro!thinking_or_off
  <2>5. think \in Efforts
    <3>. HIDE DEF effort, policy
    <3>. QED  BY <2>4 DEF Efforts
  <2>6. length \in Nat
    OBVIOUS
  <2>7. policy.num_predict \in Option(Nat)
    BY DEF IsCatalogue, Option
  <2>8. (IF policy.num_predict = None THEN length ELSE policy.num_predict) \in Nat
    <3>. HIDE DEF length, policy
    <3>. QED  BY <2>6, <2>7 DEF Option
  <2>9. Ro!profile(input, m) = [num_ctx |-> Ro!Least(sizes),
                                num_predict |-> IF policy.num_predict = None THEN length ELSE policy.num_predict,
                                think |-> think, strict |-> t \in {"browser", "tools", "code_repair"}]
    BY DEF Ro!profile
  <2>10. (t \in {"browser", "tools", "code_repair"}) \in BOOLEAN
    OBVIOUS
  <2>. HIDE DEF sizes, policy, length, think, t
  <2>. QED  BY <2>3, <2>5, <2>8, <2>9, <2>10
<1>3. Ro!sent_window_fit(m, Ro!profile(input, m)) \in {"unknown", "fits", "insufficient_context"}
  BY DEF Ro!sent_window_fit
<1>4. \A o : Ro!route_evidence(o, input.task) \in [confidence : {"low", "medium"}, evidence : Evidence]
  BY DEF Ro!route_evidence, Evidence
<1>5. Ro!rejected_candidates(input, fewer, m) \in SUBSET [name : Names, reason : Evidence]
  <2>1. \A o \in Ro!Eligible(input, fewer) : o.name \in Names
    BY EligibleAreModels DEF IsCatalogue
  <2>2. \A o : Ro!route_evidence(o, input.task).evidence \in Evidence
    BY <1>4
  <2>. QED  BY <2>1, <2>2 DEF Ro!rejected_candidates
<1>6. Ro!reasons(input, m, assigned) \in
        SUBSET (Evidence \cup {"explicit_model", "session_affinity", "resident",
                               "repeats_last_resort", "context_clamped"})
  <2>1. Ro!route_evidence(m, input.task).evidence \in Evidence
    BY <1>4
  <2>. QED  BY <2>1 DEF Ro!reasons, Ro!push_selection_reasons
<1>. QED  BY <1>1, <1>2, <1>3, <1>4, <1>5, <1>6 DEF RouteTo, Routes

\* A model that was rejected had no part in the decision.
LEMMA RejectedPlayNoPart ==
  ASSUME NEW models, IsCatalogue(models), NEW input, input.context \in Option(Nat), NEW assigned
  PROVE  Ro!LosersDoNotMatter(input, models, assigned)
<1>. DEFINE route == Ro!select_route(input, models, assigned)
            without(o) == Ro!select_route(input, models \ {o}, assigned)
<1>1. SUFFICES ASSUME route # None, NEW o \in models, \E r \in route.rejected : r.name = o.name
               PROVE  /\ without(o) # None
                      /\ without(o).selected = route.selected
                      /\ without(o).options = route.options
                      /\ without(o).grade = route.grade
  BY DEF Ro!LosersDoNotMatter
<1>2. PICK m \in Ro!Eligible(input, models) :
             /\ Ro!Chosen(input, models, assigned) = {m}
             /\ Confident(m, input)
             /\ route = RouteTo(m, input, models, assigned)
  BY <1>1, RouteIsOfChosen
<1>3. route.rejected = Ro!rejected_candidates(input, models, m)
  BY <1>2 DEF RouteTo
<1>4. PICK x \in Ro!Eligible(input, models) \ {m} : x.name = o.name
  <2>1. PICK r \in Ro!rejected_candidates(input, models, m) : r.name = o.name
    BY <1>1, <1>3
  <2>. QED  BY <2>1 DEF Ro!rejected_candidates
<1>5. o = x
  BY <1>4, EligibleAreModels DEF IsCatalogue
<1>6. Ro!Chosen(input, models \ {o}, assigned) = {m}
  BY <1>2, <1>4, <1>5, ChosenIsOne
<1>7. without(o) = RouteTo(m, input, models \ {o}, assigned)
  BY <1>2, <1>6, RouteOfChosen
<1>. DEFINE before == RouteTo(m, input, models, assigned)
            after == RouteTo(m, input, models \ {o}, assigned)
<1>8. after.selected = before.selected /\ after.options = before.options /\ after.grade = before.grade
  BY DEF RouteTo
<1>9. after # None
  <2>1. m \in models
    BY EligibleAreModels
  <2>2. after \in Routes
    BY <2>1, RouteTypes
  <2>. QED  BY <2>2, NoneAssumption
<1>. QED  BY <1>2, <1>7, <1>8, <1>9

\* With a key that begins with a number, a smaller first number is never above.
LEMMA FirstDecides ==
  ASSUME NEW a, NEW b, 1 \in DOMAIN a, DOMAIN a \subseteq Nat \ {0}, a[1] = 0, b[1] = 1
  PROVE  ~ Ro!Above(a, b) /\ a # b
<1>1. a # b
  OBVIOUS
<1>2. ASSUME NEW i \in DOMAIN a, a[i] > b[i], \A j \in 1..(i - 1) : a[j] = b[j]
      PROVE  FALSE
  <2>1. CASE i = 1
    BY <1>2, <2>1
  <2>2. CASE i # 1
    <3>1. 1 \in 1..(i - 1)
      BY <2>2
    <3>. QED  BY <1>2, <3>1
  <2>. QED  BY <2>1, <2>2
<1>. QED  BY <1>1, <1>2 DEF Ro!Above

\* Affinity, a policy and the first key of the order each keep a model that
\* repeats itself from being taken before one that does not.
LEMMA RepeatersComeLast ==
  ASSUME NEW models, IsCatalogue(models), NEW input, NEW assigned
  PROVE  Ro!RepeatsOnlyAsLastResort(input, models, assigned)
<1>. DEFINE route == Ro!select_route(input, models, assigned)
            t == input.task
            E == Ro!Eligible(input, models)
<1>1. SUFFICES ASSUME route # None, input.model = None,
                      NEW w \in models, w.name = route.selected, ~ Ro!general_fallback_fit(w, t),
                      NEW o \in E, Ro!general_fallback_fit(o, t)
               PROVE  FALSE
  BY DEF Ro!RepeatsOnlyAsLastResort
<1>2. PICK m \in E : Ro!Chosen(input, models, assigned) = {m} /\ route = RouteTo(m, input, models, assigned)
  BY <1>1, RouteIsOfChosen
<1>3. m = w
  <2>1. m.name = w.name /\ m \in models
    BY <1>1, <1>2, EligibleAreModels DEF RouteTo
  <2>. QED  BY <2>1 DEF IsCatalogue
<1>4. o # m
  BY <1>1, <1>3
<1>5. Ro!Affine(input, models, assigned) = {}
  <2>1. Ro!Affine(input, models, assigned) # {} => Ro!Chosen(input, models, assigned) = Ro!Affine(input, models, assigned)
    BY <1>1 DEF Ro!Chosen
  <2>2. m \notin Ro!Affine(input, models, assigned)
    BY <1>1, <1>3 DEF Ro!Affine
  <2>. QED  BY <1>2, <2>1, <2>2
<1>6. m \in Ro!Best(E, input)
  BY <1>1, <1>2, <1>5 DEF Ro!Chosen
<1>7. Ro!compare_candidates(m, o, input)
  BY <1>4, <1>6 DEF Ro!Best
<1>8. Ro!Fit(m, t) = 0 /\ Ro!Fit(o, t) = 1
  BY <1>1, <1>3 DEF Ro!Fit, Ro!One
<1>9. CASE input.objective = "fastest"
  <2>. DEFINE a == <<Ro!Fit(m, t), Ro!Score(m, t), - m.size>>
              b == <<Ro!Fit(o, t), Ro!Score(o, t), - o.size>>
  <2>1. Ro!Above(a, b) \/ a = b
    BY <1>7, <1>9 DEF Ro!compare_candidates
  <2>2. DOMAIN a = 1..3 /\ a[1] = 0 /\ b[1] = 1
    BY <1>8
  <2>. HIDE DEF a, b
  <2>. QED  BY <2>1, <2>2, FirstDecides
<1>10. CASE input.objective = "balanced"
  <2>. DEFINE a == <<Ro!Fit(m, t), Ro!One(Ro!measured(m, t)), Ro!One(m.resident),
                     Ro!Score(m, t), Ro!policy_preference(m, t)>>
              b == <<Ro!Fit(o, t), Ro!One(Ro!measured(o, t)), Ro!One(o.resident),
                     Ro!Score(o, t), Ro!policy_preference(o, t)>>
  <2>1. Ro!Above(a, b) \/ a = b
    BY <1>7, <1>10 DEF Ro!compare_candidates
  <2>2. DOMAIN a = 1..5 /\ a[1] = 0 /\ b[1] = 1
    BY <1>8
  <2>. HIDE DEF a, b
  <2>. QED  BY <2>1, <2>2, FirstDecides
<1>11. CASE input.objective \notin {"fastest", "balanced"}
  <2>1. m \in {x \in Ro!CapabilityEligible(input, models) : Ro!qualified(x, t)}
    BY <1>1, <1>11 DEF Ro!Eligible, Ro!eligible_for_objective
  <2>. QED  BY <1>1, <1>3, <2>1 DEF Ro!general_fallback_fit
<1>. QED  BY <1>9, <1>10, <1>11

-----------------------------------------------------------------------------
(* The size of a context *)

\* What is known of a model that is asked for.
IsModel(m) == m.window \in Option(Nat) /\ m.modelfile \in Option(Nat)
IsRoute(route, m) == /\ route \in [num_ctx : Nat, num_predict : Option(Nat), think : Efforts]
                     /\ m.window # None => route.num_ctx <= m.window
IsRunner(r, m) == r # None => /\ r.context \in Option(Nat)
                              /\ r.context # None /\ m.window # None => r.context <= m.window

LEMMA EstimateIsNumber ==
  ASSUME NEW t, IsTask(t)
  PROVE  Rq!Estimate(t) \in Nat /\ Rq!ScopedEstimate(t) \in Nat
<1>1. Rq!Or0(t.tools) \in Nat
  BY DEF IsTask, Option, Rq!Or0, Rq!Known
<1>. QED  BY <1>1 DEF IsTask, Rq!Estimate, Rq!ScopedEstimate

\* An output budget is the number of tokens that is sent.
LEMMA BudgetIsSent ==
  ASSUME NEW t, IsTask(t), NEW m, NEW route, IsRoute(route, m),
         NEW d, d = Rq!apply_request_options(t, route), d # None
  PROVE  /\ d.num_predict \in Option(Int) /\ d.num_ctx = route.num_ctx
         /\ Rq!OutputBudget(d) # None => Rq!OutputBudget(d) \in Nat /\ Rq!OutputBudget(d) = d.num_predict
<1>1. d.num_predict \in Option(Int) /\ d.num_ctx = route.num_ctx
  <2>1. d = [route EXCEPT !.num_predict = IF "num_predict" \in DOMAIN t.options THEN t.options["num_predict"] ELSE @,
                          !.think = Rq!Known(t.think, @)]
    BY DEF Rq!apply_request_options
  <2>. QED  BY <2>1 DEF IsTask, IsRoute, Option
<1>. QED  BY <1>1 DEF Option, Rq!OutputBudget

\* An automatic context holds what is required, and the window of the model
\* holds it.
LEMMA AutomaticCovers ==
  ASSUME NEW t, IsTask(t), NEW m, IsModel(m), NEW d, d.num_ctx \in Nat,
         Rq!OutputBudget(d) \in Nat, Rq!AutomaticContext(t, d, m) # None
  PROVE  LET sized == Rq!AutomaticContext(t, d, m)
         IN /\ sized = Rq!Sized("prompt_estimate", sized.num_ctx)
            /\ sized.num_ctx \in Nat
            /\ Rq!Estimate(t) + Rq!OutputBudget(d) + TemplateMargin <= sized.num_ctx
            /\ m.window # None => sized.num_ctx <= m.window
<1>. DEFINE required == Rq!Estimate(t) + Rq!OutputBudget(d) + TemplateMargin
            largest == Rq!Largest(Buckets)
            asked == Rq!Known(m.window, d.num_ctx)
            cap == Rq!Least({asked, largest})
            enough == {b \in Buckets : b >= required}
            sizes == {cap} \cup (IF enough = {} THEN {} ELSE {Rq!Least(enough)})
            size == Rq!Least(sizes)
<1>1. required \in Nat
  BY EstimateIsNumber, SizesAssumption
<1>2. largest \in Nat
  <2>1. \E b \in Buckets : \A o \in Buckets : b >= o
    BY SizesAssumption
  <2>2. largest \in Buckets
    BY <2>1 DEF Rq!Largest
  <2>. QED  BY <2>2, SizesAssumption
<1>3. asked \in Nat /\ (m.window # None => asked = m.window)
  BY DEF IsModel, Option, Rq!Known
<1>4. cap \in Nat /\ cap <= asked
  <2>. HIDE DEF asked, largest
  <2>1. {asked, largest} \in SUBSET Nat /\ {asked, largest} # {}
    BY <1>2, <1>3
  <2>2. cap \in {asked, largest} /\ \A o \in {asked, largest} : cap <= o
    BY <2>1, LeastOfNumbers DEF Rq!Least
  <2>. QED  BY <2>1, <2>2
<1>5. Rq!AutomaticContext(t, d, m) = IF required > cap THEN None ELSE Rq!Sized("prompt_estimate", size)
  BY DEF Rq!AutomaticContext
<1>6. ~ (required > cap)
  BY <1>5
<1>7. ASSUME enough # {} PROVE Rq!Least(enough) \in enough /\ enough \subseteq Nat
  <2>1. enough \in SUBSET Nat
    BY SizesAssumption
  <2>. HIDE DEF enough
  <2>. QED  BY <1>7, <2>1, LeastOfNumbers DEF Rq!Least
<1>8. \A n \in sizes : n \in Nat /\ n >= required
  <2>. HIDE DEF cap, required
  <2>1. \A n \in enough : n >= required
    OBVIOUS
  <2>. HIDE DEF enough
  <2>. QED  BY <1>1, <1>4, <1>6, <1>7, <2>1
<1>9. size \in Nat /\ required <= size /\ size <= cap
  <2>1. cap \in sizes
    OBVIOUS
  <2>. HIDE DEF sizes, cap, required
  <2>2. sizes \in SUBSET Nat /\ sizes # {}
    BY <1>8, <2>1
  <2>3. size \in sizes /\ \A o \in sizes : size <= o
    BY <2>2, LeastOfNumbers DEF Rq!Least
  <2>4. size >= required /\ size \in Nat /\ size <= cap
    BY <1>8, <2>1, <2>3
  <2>. QED  BY <1>1, <2>4
<1>10. Rq!AutomaticContext(t, d, m) = Rq!Sized("prompt_estimate", size)
  BY <1>5, <1>6
<1>11. Rq!Sized("prompt_estimate", size).num_ctx = size
  BY DEF Rq!Sized
<1>12. m.window # None => size <= m.window
  <2>. HIDE DEF size, cap, asked
  <2>. QED  BY <1>3, <1>4, <1>9
<1>. HIDE DEF size
<1>. QED  BY <1>9, <1>10, <1>11, <1>12

\* The sizes that are promised to hold the request do.
LEMMA SizesCover ==
  ASSUME NEW t, IsTask(t), NEW m, IsModel(m), NEW route, IsRoute(route, m),
         NEW d, d = Rq!apply_request_options(t, route), d # None,
         NEW sized, sized = Rq!size_context(t, d, m), sized # None,
         sized.mode \in {"prompt_estimate", "scope_explicit_estimate"}
  PROVE  /\ d.num_predict \in Nat
         /\ sized = Rq!Sized(sized.mode, sized.num_ctx) /\ sized.num_ctx \in Nat
         /\ Rq!Estimate(t) + d.num_predict + TemplateMargin <= sized.num_ctx
         /\ m.window # None => sized.num_ctx <= m.window
<1>. DEFINE Good == /\ d.num_predict \in Nat
                    /\ sized = Rq!Sized(sized.mode, sized.num_ctx) /\ sized.num_ctx \in Nat
                    /\ Rq!Estimate(t) + d.num_predict + TemplateMargin <= sized.num_ctx
                    /\ m.window # None => sized.num_ctx <= m.window
<1>1. /\ d.num_ctx = route.num_ctx /\ d.num_ctx \in Nat
      /\ m.window # None => d.num_ctx <= m.window
      /\ Rq!OutputBudget(d) # None => Rq!OutputBudget(d) \in Nat /\ Rq!OutputBudget(d) = d.num_predict
  BY BudgetIsSent DEF IsRoute
<1>2. ASSUME sized = Rq!AutomaticContext(t, d, m), Rq!OutputBudget(d) # None
      PROVE  Good
  <2>1. Rq!OutputBudget(d) \in Nat /\ Rq!OutputBudget(d) = d.num_predict
    BY <1>1, <1>2
  <2>2. /\ sized = Rq!Sized("prompt_estimate", sized.num_ctx) /\ sized.num_ctx \in Nat
        /\ Rq!Estimate(t) + Rq!OutputBudget(d) + TemplateMargin <= sized.num_ctx
        /\ m.window # None => sized.num_ctx <= m.window
    BY <1>1, <1>2, <2>1, AutomaticCovers
  <2>3. sized.mode = "prompt_estimate"
    BY <2>2 DEF Rq!Sized
  <2>. QED  BY <2>1, <2>2, <2>3
<1>3. ASSUME sized = Rq!size_scoped_explicit_context(t, d), Rq!OutputBudget(d) # None
      PROVE  Good
  <2>1. Rq!OutputBudget(d) \in Nat /\ Rq!OutputBudget(d) = d.num_predict
    BY <1>1, <1>3
  <2>2. /\ ~ (Rq!ScopedEstimate(t) + Rq!OutputBudget(d) + TemplateMargin > d.num_ctx)
        /\ sized = Rq!Sized(IF Rq!has_unestimated_modality(t) THEN "scope_explicit_multimodal"
                            ELSE "scope_explicit_estimate", d.num_ctx)
    BY <1>3 DEF Rq!size_scoped_explicit_context
  <2>3. sized.num_ctx = d.num_ctx /\ ~ Rq!has_unestimated_modality(t) /\ sized.mode = "scope_explicit_estimate"
    BY <2>2 DEF Rq!Sized
  <2>4. Rq!ScopedEstimate(t) = Rq!Estimate(t)
    BY <2>3 DEF Rq!ScopedEstimate, Rq!Estimate
  <2>5. Rq!Estimate(t) + Rq!OutputBudget(d) + TemplateMargin <= d.num_ctx
    BY <1>1, <2>1, <2>2, <2>4, EstimateIsNumber, SizesAssumption
  <2>. QED  BY <1>1, <2>1, <2>2, <2>3, <2>5
<1>4. \/ sized = Rq!AutomaticContext(t, d, m) /\ Rq!OutputBudget(d) # None
      \/ sized = Rq!size_scoped_explicit_context(t, d) /\ Rq!OutputBudget(d) # None
      \/ sized \in {Rq!Sized(mode, d.num_ctx) : mode \in {"warm_profile", "explicit", "profile"}}
  BY DEF Rq!size_context
<1>5. sized \notin {Rq!Sized(mode, d.num_ctx) : mode \in {"warm_profile", "explicit", "profile"}}
  BY DEF Rq!Sized
<1>. HIDE DEF Good
<1>6. Good
  BY <1>2, <1>3, <1>4, <1>5
<1>. QED  BY <1>6 DEF Good

\* How a request that is sent comes of the options, the size, the reused window
\* and the default that is left to Ollama.
PreparedFrom(d, sized, reused, left, t, route, m, host, resident, loaded, prepared) ==
  /\ d = Rq!apply_request_options(t, route) /\ d # None
  /\ sized = Rq!size_context(t, d, m) /\ sized # None
  /\ reused = IF resident /\ sized.mode = "prompt_estimate"
                THEN Rq!reuse_resident_context(sized, m, loaded.first) ELSE None
  /\ left = Rq!context_left_to_ollama([sized EXCEPT !.num_ctx = Rq!Known(reused, sized.num_ctx)],
                                      reused, m, host, resident, loaded.second)
  /\ prepared.mode = sized.mode /\ prepared.sized = sized.num_ctx
  /\ prepared.context = Rq!Known(left, [sized EXCEPT !.num_ctx = Rq!Known(reused, sized.num_ctx)].num_ctx)
  /\ prepared.body.num_predict
       = [d EXCEPT !.num_ctx = Rq!Known(left, [sized EXCEPT !.num_ctx = Rq!Known(reused, sized.num_ctx)].num_ctx)].num_predict

\* The window of the runner that is reused, or the default that is left to
\* Ollama, is what the request is sent with; both hold the size and fit.
LEMMA WhatIsPrepared ==
  ASSUME NEW t, NEW route, NEW m, NEW host, NEW resident, NEW loaded,
         NEW prepared, prepared = Rq!run_session_task(t, route, m, host, resident, loaded), prepared # None
  PROVE  \E d, sized, reused, left : PreparedFrom(d, sized, reused, left, t, route, m, host, resident, loaded, prepared)
<1>. DEFINE d == Rq!apply_request_options(t, route)
            sized == IF d = None THEN None ELSE Rq!size_context(t, d, m)
            reused == IF resident /\ sized.mode = "prompt_estimate"
                        THEN Rq!reuse_resident_context(sized, m, loaded.first) ELSE None
            fitted == [sized EXCEPT !.num_ctx = Rq!Known(reused, sized.num_ctx)]
            left == Rq!context_left_to_ollama(fitted, reused, m, host, resident, loaded.second)
            body == Rq!build_managed_request(t, [d EXCEPT !.num_ctx = Rq!Known(left, fitted.num_ctx)], left, host)
<1>1. prepared = IF sized = None \/ ~ Rq!VisionVouched(t, m) THEN None
                 ELSE IF Rq!memory_kv_preflight(m, host) THEN None
                 ELSE IF body.path = None THEN None
                 ELSE [mode |-> sized.mode, sized |-> sized.num_ctx, context |-> Rq!Known(left, fitted.num_ctx), body |-> body]
  BY DEF Rq!run_session_task
<1>2. body.num_predict = [d EXCEPT !.num_ctx = Rq!Known(left, fitted.num_ctx)].num_predict
  BY DEF Rq!build_managed_request
<1>. HIDE DEF body
<1>3. /\ sized # None
      /\ prepared = [mode |-> sized.mode, sized |-> sized.num_ctx, context |-> Rq!Known(left, fitted.num_ctx), body |-> body]
  BY <1>1
<1>4. /\ prepared.mode = sized.mode /\ prepared.sized = sized.num_ctx
      /\ prepared.context = Rq!Known(left, fitted.num_ctx) /\ prepared.body = body
  BY <1>3
<1>5. d # None /\ sized = Rq!size_context(t, d, m)
  BY <1>3
<1>6. prepared.body.num_predict = [d EXCEPT !.num_ctx = Rq!Known(left, fitted.num_ctx)].num_predict
  BY <1>2, <1>4
<1>7. d = Rq!apply_request_options(t, route)
  OBVIOUS
<1>. HIDE DEF d, sized
<1>8. reused = IF resident /\ sized.mode = "prompt_estimate"
                 THEN Rq!reuse_resident_context(sized, m, loaded.first) ELSE None
  OBVIOUS
<1>. HIDE DEF reused
<1>9. left = Rq!context_left_to_ollama([sized EXCEPT !.num_ctx = Rq!Known(reused, sized.num_ctx)],
                                       reused, m, host, resident, loaded.second)
  OBVIOUS
<1>. HIDE DEF left
<1>10. PreparedFrom(d, sized, reused, left, t, route, m, host, resident, loaded, prepared)
  BY <1>3, <1>4, <1>5, <1>6, <1>7, <1>8, <1>9 DEF PreparedFrom
<1>. QED  BY <1>10

LEMMA LeftDefaultFits ==
  ASSUME NEW m, IsModel(m), NEW host, IsHost(host), NEW sized, NEW reused, NEW resident, NEW loaded,
         NEW left, left = Rq!context_left_to_ollama(sized, reused, m, host, resident, loaded), left # None
  PROVE  /\ reused = None /\ left \in Nat /\ left >= sized.num_ctx
         /\ m.window # None => left <= m.window
         /\ resident /\ loaded # None => loaded.context \in {None, left}
<1>. DEFINE default == Rq!ollama_default_context(m, host)
            told == Rq!Known(m.modelfile, Rq!Known(host.configured, host.environment))
<1>1. /\ left = default /\ reused = None /\ default # None /\ default >= sized.num_ctx
      /\ default <= Rq!Known(m.window, default)
      /\ ~ (resident /\ loaded # None /\ loaded.context \notin {None, default})
  BY DEF Rq!context_left_to_ollama
<1>2. told \in Option(Nat)
  BY DEF IsModel, IsHost, Option, Rq!Known
<1>3. \A gib : Rq!vram_tier_default_context(gib) \in Nat
  BY DEF Rq!vram_tier_default_context
<1>4. default \in Nat
  <2>1. \/ default = told \/ default = None
        \/ default = Rq!vram_tier_default_context(IF host.vram > host.overhead THEN host.vram - host.overhead ELSE 0)
    BY DEF Rq!ollama_default_context
  <2>. HIDE DEF default, told
  <2>. QED  BY <1>1, <1>2, <1>3, <2>1 DEF Option
<1>. HIDE DEF default
<1>. QED  BY <1>1, <1>4 DEF Rq!Known

\* A request that is sent holds what was sized for it.
LEMMA PreparedCovers ==
  ASSUME NEW t, IsTask(t), NEW m, IsModel(m), NEW route, IsRoute(route, m), NEW host, IsHost(host),
         NEW resident, NEW loaded, IsRunner(loaded.first, m)
  PROVE  Rq!SentContextCovers(t, m, Rq!run_session_task(t, route, m, host, resident, loaded))
<1>. DEFINE prepared == Rq!run_session_task(t, route, m, host, resident, loaded)
<1>1. SUFFICES ASSUME prepared # None, prepared.mode \in {"prompt_estimate", "scope_explicit_estimate"}
               PROVE  /\ Rq!Estimate(t) + prepared.body.num_predict + TemplateMargin <= prepared.context
                      /\ m.window # None => prepared.context <= m.window
  BY DEF Rq!SentContextCovers
<1>2. PICK d, sized, reused, left : PreparedFrom(d, sized, reused, left, t, route, m, host, resident, loaded, prepared)
  BY <1>1, WhatIsPrepared
<1>. DEFINE fitted == [sized EXCEPT !.num_ctx = Rq!Known(reused, sized.num_ctx)]
<1>. USE <1>2 DEF PreparedFrom
<1>0. left = Rq!context_left_to_ollama(fitted, reused, m, host, resident, loaded.second)
  OBVIOUS
<1>. HIDE DEF prepared
<1>3. /\ d.num_predict \in Nat /\ sized = Rq!Sized(sized.mode, sized.num_ctx) /\ sized.num_ctx \in Nat
      /\ Rq!Estimate(t) + d.num_predict + TemplateMargin <= sized.num_ctx
      /\ m.window # None => sized.num_ctx <= m.window
  BY <1>1, <1>2, SizesCover
<1>4. prepared.body.num_predict = d.num_predict
  BY <1>2
<1>5. fitted.num_ctx = Rq!Known(reused, sized.num_ctx)
  BY <1>3 DEF Rq!Sized
<1>6. reused # None => /\ reused \in Nat /\ reused > sized.num_ctx
                       /\ m.window # None => reused <= m.window
  <2>1. reused # None => /\ loaded.first # None /\ loaded.first.context # None
                         /\ loaded.first.context > sized.num_ctx /\ reused = loaded.first.context
    BY <1>2 DEF Rq!reuse_resident_context
  <2>. QED  BY <2>1 DEF IsRunner, Option
<1>7. left # None => /\ left \in Nat /\ left >= fitted.num_ctx
                     /\ m.window # None => left <= m.window
  <2>. HIDE <1>2
  <2>. HIDE DEF fitted, PreparedFrom
  <2>. QED  BY <1>0, LeftDefaultFits
<1>8. /\ fitted.num_ctx \in Nat /\ fitted.num_ctx >= sized.num_ctx
      /\ m.window # None => fitted.num_ctx <= m.window
  BY <1>3, <1>5, <1>6 DEF Rq!Known
<1>9. prepared.context = Rq!Known(left, fitted.num_ctx)
  BY <1>2
<1>. HIDE DEF fitted
<1>10. /\ prepared.context \in Nat /\ prepared.context >= sized.num_ctx
       /\ m.window # None => prepared.context <= m.window
  <2>1. CASE left = None
    BY <1>8, <1>9, <2>1 DEF Rq!Known
  <2>2. CASE left # None
    BY <1>3, <1>7, <1>8, <1>9, <2>2 DEF Rq!Known
  <2>. QED  BY <2>1, <2>2
<1>11. Rq!Estimate(t) \in Nat
  BY EstimateIsNumber
<1>. QED  BY <1>3, <1>4, <1>10, <1>11, SizesAssumption

\* A runner that is warm enough is asked for as it is.
LEMMA PreparedKeepsWarm ==
  ASSUME NEW t, IsTask(t), NEW m, IsModel(m), NEW route, IsRoute(route, m), NEW host, IsHost(host),
         NEW resident, NEW loaded, IsRunner(loaded.first, m)
  PROVE  Rq!WarmRunnerKept(m, resident, loaded, Rq!run_session_task(t, route, m, host, resident, loaded))
<1>. DEFINE prepared == Rq!run_session_task(t, route, m, host, resident, loaded)
            runner == loaded.first
<1>1. SUFFICES ASSUME prepared # None, prepared.mode = "prompt_estimate", resident, loaded.first = loaded.second,
                      runner # None, m.digest # None, runner.digest = m.digest,
                      runner.context # None, runner.context >= prepared.sized
               PROVE  prepared.context = runner.context
  BY DEF Rq!WarmRunnerKept
<1>2. PICK d, sized, reused, left : PreparedFrom(d, sized, reused, left, t, route, m, host, resident, loaded, prepared)
  BY <1>1, WhatIsPrepared
<1>. DEFINE fitted == [sized EXCEPT !.num_ctx = Rq!Known(reused, sized.num_ctx)]
<1>. USE <1>2 DEF PreparedFrom
<1>0. left = Rq!context_left_to_ollama(fitted, reused, m, host, resident, loaded.second)
  OBVIOUS
<1>. HIDE DEF prepared
<1>3. sized = Rq!Sized(sized.mode, sized.num_ctx) /\ sized.num_ctx \in Nat
  <2>1. sized.mode = "prompt_estimate"
    BY <1>1
  <2>2. /\ d = Rq!apply_request_options(t, route) /\ d # None
        /\ sized = Rq!size_context(t, d, m) /\ sized # None
    OBVIOUS
  <2>. HIDE <1>2
  <2>. QED  BY <2>1, <2>2, SizesCover
<1>4. fitted.num_ctx = Rq!Known(reused, sized.num_ctx)
  BY <1>3 DEF Rq!Sized
<1>5. runner.context \in Nat /\ runner.context >= sized.num_ctx
  BY <1>1, <1>2 DEF IsRunner, Option
<1>6. left # None => reused = None /\ runner.context = left
  <2>1. ASSUME left # None
        PROVE  reused = None /\ loaded.second.context \in {None, left}
    <3>. HIDE <1>2
    <3>. HIDE DEF fitted, PreparedFrom
    <3>1. reused = None /\ (resident /\ loaded.second # None => loaded.second.context \in {None, left})
      BY <1>0, <2>1, LeftDefaultFits
    <3>2. resident /\ loaded.second # None
      BY <1>1
    <3>. QED  BY <3>1, <3>2
  <2>. QED  BY <1>1, <2>1
<1>7. prepared.context = Rq!Known(left, fitted.num_ctx)
  BY <1>2
<1>8. reused = IF runner.context > sized.num_ctx THEN runner.context ELSE None
  BY <1>1, <1>2 DEF Rq!reuse_resident_context
<1>. HIDE DEF fitted, runner
<1>9. CASE left # None
  BY <1>6, <1>7, <1>9 DEF Rq!Known
<1>10. CASE left = None /\ runner.context > sized.num_ctx
  <2>1. reused = runner.context /\ reused # None
    BY <1>5, <1>8, <1>10, NoneAssumption
  <2>. QED  BY <1>4, <1>7, <1>10, <2>1 DEF Rq!Known
<1>11. CASE left = None /\ ~ (runner.context > sized.num_ctx)
  <2>1. reused = None /\ runner.context = sized.num_ctx
    BY <1>3, <1>5, <1>8, <1>11
  <2>. QED  BY <1>4, <1>7, <1>11, <2>1 DEF Rq!Known
<1>. QED  BY <1>9, <1>10, <1>11

-----------------------------------------------------------------------------
(* What is learned *)

\* What disturbs a run, an admission or a change of the settings, takes its
\* profile from it, and nothing else makes it differ from the one asked for.
LEMMA UndisturbedIsFound ==
  ASSUME NEW ask, NEW completion, NEW later
  PROVE  Pl!LearnedIsFound(ask, completion, later)
<1>. DEFINE total == ask.before.slots_total
            alone == Pl!Receipt(total, Pl!Charge(ask.cost, total), 1)
            run == Pl!Served(ask)
            moved == [run EXCEPT !.completion = completion, !.settings_after = later]
<1>1. SUFFICES ASSUME Pl!routing_profile(ask) # None
               PROVE  /\ Pl!CompletedProfile(run) = Pl!routing_profile(ask)
                      /\ moved # run => Pl!CompletedProfile(moved) = None
  BY DEF Pl!LearnedIsFound
<1>2. ask.settings # None
  BY <1>1 DEF Pl!routing_profile
<1>3. alone.in_flight = 1
  BY DEF Pl!Receipt
<1>4. Pl!CompletedProfile(run) = Pl!routing_profile(ask)
  <2>1. Pl!routing_profile(ask) = Pl!profile_from_observations(
              [task |-> ask.task, model |-> ask.model, catalog_digest |-> ask.catalog_digest, body |-> ask.body,
               placement |-> Pl!observe_physical_placement(ask.placement, ask.entry),
               dispatch |-> alone, completion |-> alone,
               dispatch_settings |-> ask.settings, completion_settings |-> ask.settings, warm |-> TRUE])
    BY <1>1 DEF Pl!routing_profile, Pl!Prospective
  <2>2. Pl!CompletedProfile(run) = Pl!profile_from_observations(
              [task |-> ask.task, model |-> ask.model, catalog_digest |-> ask.catalog_digest, body |-> ask.body,
               placement |-> Pl!observe_physical_placement(ask.placement, ask.entry),
               dispatch |-> alone, completion |-> alone,
               dispatch_settings |-> ask.settings, completion_settings |-> ask.settings, warm |-> TRUE])
    <3>. HIDE DEF alone
    <3>1. run = [task |-> ask.task, model |-> ask.model, catalog_digest |-> ask.catalog_digest, body |-> ask.body,
                 placement |-> ask.placement, entry |-> ask.entry, mode |-> "resident_shared",
                 dispatch |-> alone, completion |-> alone,
                 settings_before |-> ask.settings, settings_after |-> ask.settings]
      BY DEF Pl!Served, alone
    <3>. HIDE DEF run
    <3>. QED  BY <1>2, <1>3, <3>1 DEF Pl!CompletedProfile, Pl!unchanged_admission_interval
  <2>. QED  BY <2>1, <2>2
<1>5. ASSUME moved # run PROVE Pl!CompletedProfile(moved) = None
  <2>. HIDE DEF alone
  <2>1. run = [task |-> ask.task, model |-> ask.model, catalog_digest |-> ask.catalog_digest, body |-> ask.body,
               placement |-> ask.placement, entry |-> ask.entry, mode |-> "resident_shared",
               dispatch |-> alone, completion |-> alone,
               settings_before |-> ask.settings, settings_after |-> ask.settings]
    BY DEF Pl!Served, alone
  <2>. HIDE DEF run
  <2>. DEFINE like(c, s) ==
                [task |-> ask.task, model |-> ask.model, catalog_digest |-> ask.catalog_digest, body |-> ask.body,
                 placement |-> ask.placement, entry |-> ask.entry, mode |-> "resident_shared",
                 dispatch |-> alone, completion |-> c, settings_before |-> ask.settings, settings_after |-> s]
  <2>4. moved = like(completion, later) /\ run = like(alone, ask.settings)
    <3>1. run = like(alone, ask.settings)
      BY <2>1
    <3>2. moved = [like(alone, ask.settings) EXCEPT !.completion = completion, !.settings_after = later]
      BY <3>1
    <3>3. [like(alone, ask.settings) EXCEPT !.completion = completion] = like(completion, ask.settings)
      OBVIOUS
    <3>4. [like(completion, ask.settings) EXCEPT !.settings_after = later] = like(completion, later)
      OBVIOUS
    <3>5. moved = [[like(alone, ask.settings) EXCEPT !.completion = completion] EXCEPT !.settings_after = later]
      BY <3>2
    <3>. HIDE DEF like, moved
    <3>. QED  BY <3>1, <3>3, <3>4, <3>5
  <2>2. completion # alone \/ later # ask.settings
    <3>. HIDE DEF like, moved
    <3>. QED  BY <1>5, <2>4
  <2>3. /\ moved.dispatch = alone /\ moved.completion = completion /\ moved.settings_before = ask.settings
        /\ moved.settings_after = later /\ moved.mode = "resident_shared"
    BY <2>1
  <2>. HIDE DEF moved
  <2>. QED  BY <1>2, <1>3, <2>2, <2>3
            DEF Pl!CompletedProfile, Pl!profile_from_observations, Pl!unchanged_admission_interval
<1>. QED  BY <1>4, <1>5

-----------------------------------------------------------------------------
(* Numbers and recursive functions *)

\* What holds of zero and of the successor of whatever it holds of.
LEMMA UpTo ==
  ASSUME NEW n \in Nat, NEW S, 0 \in S, \A m \in 1..n : m - 1 \in S => m \in S
  PROVE  \A m \in 0..n : m \in S
<1>. DEFINE Bad == {m \in 0..n : m \notin S}
<1>1. SUFFICES ASSUME Bad # {} PROVE FALSE
  OBVIOUS
<1>2. Bad \in SUBSET Nat
  OBVIOUS
<1>3. PICK m \in Bad : \A o \in Bad : m <= o
  <2>. HIDE DEF Bad
  <2>. QED  BY <1>1, <1>2, LeastOfNumbers
<1>4. m \in 1..n
  BY <1>3
<1>5. m - 1 \in 0..n /\ m - 1 \notin Bad
  BY <1>3, <1>4
<1>. QED  BY <1>3, <1>4, <1>5

\* A function that begins with `base` and goes on as `next` says, in the set V.
Follows(f, n, V, base, next) ==
  f \in [0..n -> V] /\ f[0] = base /\ \A m \in 1..n : f[m] = next[<<m, f[m - 1]>>]

LEMMA StepByStep ==
  ASSUME NEW n \in Nat, NEW V, NEW base \in V, NEW next \in [(1..n) \X V -> V]
  PROVE  \E f : Follows(f, n, V, base, next)
<1>. DEFINE S == {k \in 0..n : \E f : Follows(f, k, V, base, next)}
<1>1. 0 \in S
  <2>. DEFINE f == [m \in 0..0 |-> base]
  <2>1. f \in [0..0 -> V] /\ f[0] = base /\ 0 \in 0..n
    OBVIOUS
  <2>2. Follows(f, 0, V, base, next)
    BY <2>1 DEF Follows
  <2>. HIDE DEF f
  <2>. QED  BY <2>1, <2>2
<1>2. ASSUME NEW k \in 1..n, k - 1 \in S PROVE k \in S
  <2>1. PICK f : Follows(f, k - 1, V, base, next)
    BY <1>2
  <2>. DEFINE g == [m \in 0..k |-> IF m = k THEN next[<<k, f[k - 1]>>] ELSE f[m]]
  <2>2. k - 1 \in 0..(k - 1) /\ k # 0 /\ \A m \in 0..k : m # k => m \in 0..(k - 1)
    OBVIOUS
  <2>3. f[k - 1] \in V /\ next[<<k, f[k - 1]>>] \in V
    BY <2>1, <2>2 DEF Follows
  <2>4. g \in [0..k -> V]
    BY <2>1, <2>2, <2>3 DEF Follows
  <2>5. g[0] = base
    <3>1. 0 \in 0..k /\ 0 # k
      OBVIOUS
    <3>. QED  BY <2>1, <3>1 DEF Follows
  <2>6. ASSUME NEW m \in 1..k PROVE g[m] = next[<<m, g[m - 1]>>]
    <3>1. m \in 0..k /\ m - 1 \in 0..k /\ m - 1 # k /\ (m # k => m \in 1..(k - 1))
      OBVIOUS
    <3>. QED  BY <2>1, <3>1 DEF Follows
  <2>7. k \in 0..n
    OBVIOUS
  <2>. HIDE DEF g
  <2>8. Follows(g, k, V, base, next)
    BY <2>4, <2>5, <2>6 DEF Follows
  <2>. QED  BY <2>7, <2>8
<1>3. n \in S
  <2>. HIDE DEF S
  <2>1. \A m \in 0..n : m \in S
    BY <1>1, <1>2, UpTo
  <2>. QED  BY <2>1
<1>. QED  BY <1>3

\* The largest of numbers that have a bound.
LEMMA MostOfNumbers ==
  ASSUME NEW n \in Nat, NEW S \in SUBSET (0..n), S # {}
  PROVE  Rp!Most(S) \in S /\ \A o \in S : Rp!Most(S) >= o
<1>. DEFINE D == {d \in 0..n : n - d \in S}
<1>1. D \in SUBSET Nat /\ \A m \in S : n - m \in D
  OBVIOUS
<1>2. PICK d \in D : \A o \in D : d <= o
  <2>. HIDE DEF D
  <2>1. D # {}
    BY <1>1
  <2>. QED  BY <1>1, <2>1, LeastOfNumbers
<1>3. PICK m \in S : d = n - m
  OBVIOUS
<1>4. ASSUME NEW o \in S PROVE m >= o
  <2>1. n - m <= n - o
    BY <1>1, <1>2, <1>3
  <2>. QED  BY <2>1
<1>. QED  BY <1>4 DEF Rp!Most

-----------------------------------------------------------------------------
(* The repetition at the end of a text *)

\* The end of a text, from `start` on, repeats what is a period before.
EndRepeats(text, start, period) == \A i \in (start + 1)..Len(text) : text[i] = text[i - period]

LEMMA RepeatedIsMost ==
  ASSUME NEW T, NEW text \in Seq(T), NEW p \in 0..Len(text)
  PROVE  LET r == Rp!Repeated(text, p)
         IN /\ r \in 0..(Len(text) - p) /\ EndRepeats(text, Len(text) - r, p)
            /\ \A k \in 0..(Len(text) - p) : EndRepeats(text, Len(text) - k, p) => k <= r
<1>. DEFINE S == {k \in 0..(Len(text) - p) : \A i \in (Len(text) - k + 1)..Len(text) : text[i] = text[i - p]}
<1>1. Len(text) \in Nat /\ Len(text) - p \in Nat /\ p \in Nat
  OBVIOUS
<1>2. 0 \in S /\ S \in SUBSET (0..(Len(text) - p))
  BY <1>1
<1>3. Rp!Repeated(text, p) = Rp!Most(S)
  BY DEF Rp!Repeated
<1>4. Rp!Most(S) \in S /\ \A o \in S : Rp!Most(S) >= o
  <2>. HIDE DEF S
  <2>. QED  BY <1>1, <1>2, MostOfNumbers
<1>5. \A k \in 0..(Len(text) - p) : k \in S <=> EndRepeats(text, Len(text) - k, p)
  BY <1>1 DEF EndRepeats
<1>6. \A k \in S : k \in 0..(Len(text) - p)
  OBVIOUS
<1>. HIDE DEF S
<1>7. Rp!Most(S) \in 0..(Len(text) - p) /\ EndRepeats(text, Len(text) - Rp!Most(S), p)
  BY <1>4, <1>5, <1>6
<1>8. ASSUME NEW k \in 0..(Len(text) - p), EndRepeats(text, Len(text) - k, p) PROVE k <= Rp!Most(S)
  <2>1. Rp!Most(S) >= k
    BY <1>4, <1>5, <1>8
  <2>. QED  BY <1>1, <1>7, <2>1
<1>. QED  BY <1>3, <1>7, <1>8

\* Two periods that meet at the end of a text: where the longer tail of one
\* overlaps the other by both periods, the other reaches as far back.
LEMMA TailsMeet ==
  ASSUME NEW T, NEW text \in Seq(T), NEW p \in Nat \ {0}, NEW q \in Nat \ {0}, NEW a \in Nat, NEW b \in Nat,
         a <= b, Len(text) - b >= p + q,
         EndRepeats(text, a + q, q), EndRepeats(text, b + p, p)
  PROVE  EndRepeats(text, a + p, p)
<1>1. Len(text) \in Nat
  OBVIOUS
<1>. DEFINE n == Len(text)
            D == {d \in 0..n : n - d \in (a + p + 1)..n /\ text[n - d] # text[n - d - p]}
<1>2. SUFFICES ASSUME D # {} PROVE FALSE
  <2>1. ASSUME D = {}, NEW i \in (a + p + 1)..n, text[i] # text[i - p] PROVE FALSE
    <3>1. n - i \in 0..n /\ n - (n - i) = i
      BY <1>1
    <3>. QED  BY <2>1, <3>1
  <2>. QED  BY <1>2, <2>1 DEF EndRepeats
<1>3. PICK d \in D : \A o \in D : d <= o
  <2>1. D \in SUBSET Nat
    OBVIOUS
  <2>. HIDE DEF D
  <2>. QED  BY <1>2, <2>1, LeastOfNumbers
<1>4. PICK i \in (a + p + 1)..n : i = n - d /\ text[i] # text[i - p]
  OBVIOUS
<1>5. i < b + p + 1
  <2>1. ASSUME b + p + 1 <= i PROVE FALSE
    <3>1. i \in (b + p + 1)..n
      BY <1>1, <1>4, <2>1
    <3>2. text[i] = text[i - p]
      BY <3>1 DEF EndRepeats
    <3>. QED  BY <1>4, <3>2
  <2>. QED  BY <1>4, <2>1
<1>6. /\ i + q \in (a + q + 1)..n /\ i + q - p \in (a + q + 1)..n
      /\ i + q - q = i /\ i + q - p - q = i - p /\ i + q \in (a + p + 1)..n
  BY <1>1, <1>5
<1>7. text[i + q] = text[i] /\ text[i + q - p] = text[i - p]
  <2>1. text[i + q] = text[i + q - q] /\ text[i + q - p] = text[i + q - p - q]
    BY <1>1, <1>6 DEF EndRepeats
  <2>. QED  BY <1>6, <2>1
<1>8. text[i + q] = text[i + q - p]
  <2>1. CASE d - q \in D
    <3>1. d \in Nat
      OBVIOUS
    <3>. HIDE DEF D
    <3>2. d <= d - q
      BY <1>3, <2>1
    <3>. QED  BY <3>1, <3>2
  <2>2. CASE d - q \notin D
    <3>1. d - q \in 0..n /\ n - (d - q) = i + q
      BY <1>1, <1>4, <1>6
    <3>. HIDE DEF n
    <3>3. ~ (i + q \in (a + p + 1)..n /\ text[i + q] # text[i + q - p])
      <4>1. \A e \in (0..n) \ D : \A k : k = n - e => ~ (k \in (a + p + 1)..n /\ text[k] # text[k - p])
        OBVIOUS
      <4>. HIDE DEF D
      <4>. QED  BY <2>2, <3>1, <4>1
    <3>. QED  BY <1>6, <3>3
  <2>. QED  BY <2>1, <2>2
<1>. QED  BY <1>4, <1>7, <1>8

Qualifying(text) == {p \in Rp!Periods(text) : Rp!qualifies(text, p)}

\* After the periods up to n: nothing, or the run that begins earliest.
EarliestOf(text, n, found) ==
  LET able == Qualifying(text) \cap 1..n
  IN IF found = None THEN able = {}
     ELSE \E p \in Qualifying(text) :
            /\ found = Rp!Run(text, p)
            /\ \A q \in able : Rp!Run(text, p).unique_prefix <= Rp!Run(text, q).unique_prefix

LEMMA RunOf ==
  ASSUME NEW T, NEW text \in Seq(T), NEW p \in Rp!Periods(text)
  PROVE  /\ p \in 1..Len(text) /\ p \in 1..MaxPeriod
         /\ Rp!Run(text, p) \in Loops /\ Rp!Run(text, p) # None
         /\ Rp!Run(text, p).period = p
         /\ Rp!Run(text, p).repeated = Rp!Repeated(text, p)
         /\ Rp!Run(text, p).unique_prefix = Len(text) - Rp!Repeated(text, p)
         /\ Rp!Run(text, p).unique_prefix >= p
<1>1. Len(text) \in Nat /\ MaxPeriod \in Nat
  BY RepetitionAssumption
<1>2. p \in 1..Len(text) /\ p \in 1..MaxPeriod /\ p \in 0..Len(text)
  BY <1>1 DEF Rp!Periods
<1>3. Rp!Repeated(text, p) \in 0..(Len(text) - p)
  BY <1>2, RepeatedIsMost
<1>4. Rp!Run(text, p) = [unique_prefix |-> Len(text) - Rp!Repeated(text, p), period |-> p,
                         repeated |-> Rp!Repeated(text, p)]
  BY DEF Rp!Run
<1>5. Len(text) - Rp!Repeated(text, p) \in Nat /\ Len(text) - Rp!Repeated(text, p) >= p
  BY <1>1, <1>2, <1>3
<1>6. Rp!Run(text, p) \in Loops
  BY <1>2, <1>3, <1>4, <1>5 DEF Loops
<1>. QED  BY <1>2, <1>4, <1>5, <1>6, NoneAssumption

\* One more period keeps the run that begins earliest: a longer unit than the best
\* prefix cannot begin earlier, and is not looked at.
LEMMA OneMorePeriod ==
  ASSUME NEW T, NEW text \in Seq(T), NEW m \in 1..MaxPeriod, NEW found, EarliestOf(text, m - 1, found)
  PROVE  EarliestOf(text, m, Rp!Earlier(text, m, found))
<1>. DEFINE next == Rp!Earlier(text, m, found)
            run  == Rp!Run(text, m)
<1>1. \A q \in 1..m : q \in 1..(m - 1) \/ q = m
  BY RepetitionAssumption
<1>2. CASE m \notin Qualifying(text)
  <2>1. next = found
    BY <1>2 DEF Rp!Earlier, Qualifying
  <2>2. Qualifying(text) \cap 1..m = Qualifying(text) \cap 1..(m - 1)
    BY <1>1, <1>2
  <2>. QED  BY <2>1, <2>2 DEF EarliestOf
<1>3. CASE m \in Qualifying(text)
  <2>1. m \in Rp!Periods(text) /\ Rp!qualifies(text, m)
    BY <1>3 DEF Qualifying
  <2>2. run # None /\ run.unique_prefix \in Nat /\ run.unique_prefix >= m /\ m \in Nat
    BY <2>1, RunOf DEF Loops
  <2>3. CASE found = None
    <3>1. next = run /\ Qualifying(text) \cap 1..(m - 1) = {}
      BY <2>1, <2>3 DEF Rp!Earlier, EarliestOf
    <3>2. \A q \in Qualifying(text) \cap 1..m : q = m
      BY <1>1, <3>1
    <3>. QED  BY <1>3, <2>2, <3>1, <3>2 DEF EarliestOf
  <2>4. CASE found # None
    <3>1. PICK p \in Qualifying(text) :
                 /\ found = Rp!Run(text, p)
                 /\ \A q \in Qualifying(text) \cap 1..(m - 1) :
                      Rp!Run(text, p).unique_prefix <= Rp!Run(text, q).unique_prefix
      BY <2>4 DEF EarliestOf
    <3>2. found.unique_prefix \in Nat
      BY <3>1, RunOf DEF Qualifying, Loops
    <3>3. \A q \in Qualifying(text) : Rp!Run(text, q).unique_prefix \in Nat
      BY RunOf DEF Qualifying, Loops
    <3>4. CASE m < found.unique_prefix /\ run.unique_prefix < found.unique_prefix
      <4>1. next = run
        BY <2>1, <3>4 DEF Rp!Earlier
      <4>2. ASSUME NEW q \in Qualifying(text) \cap 1..m
            PROVE  run.unique_prefix <= Rp!Run(text, q).unique_prefix
        BY <1>1, <2>2, <3>1, <3>2, <3>3, <3>4
      <4>. QED  BY <1>3, <2>2, <4>1, <4>2 DEF EarliestOf
    <3>5. CASE ~ (m < found.unique_prefix /\ run.unique_prefix < found.unique_prefix)
      <4>1. next = found
        BY <2>4, <3>5 DEF Rp!Earlier
      <4>2. found.unique_prefix <= run.unique_prefix
        BY <2>2, <3>2, <3>5
      <4>3. ASSUME NEW q \in Qualifying(text) \cap 1..m
            PROVE  found.unique_prefix <= Rp!Run(text, q).unique_prefix
        BY <1>1, <3>1, <4>2
      <4>. QED  BY <2>4, <3>1, <4>1, <4>3 DEF EarliestOf
    <3>. QED  BY <3>4, <3>5
  <2>. QED  BY <2>3, <2>4
<1>. QED  BY <1>2, <1>3

\* So the search finds the run of a text that begins earliest, of every period.
LEMMA SearchIsComplete ==
  ASSUME NEW T, NEW text \in Seq(T)
  PROVE  EarliestOf(text, MaxPeriod, Rp!detect_in_window(text))
<1>. DEFINE V == {None} \cup {Rp!Run(text, p) : p \in 0..MaxPeriod}
            next == [s \in (1..MaxPeriod) \X V |-> Rp!Earlier(text, s[1], s[2])]
            Is(f) == f = [p \in 0..MaxPeriod |-> IF p = 0 THEN None ELSE Rp!Earlier(text, p, f[p - 1])]
            best == CHOOSE f : Is(f)
<1>1. MaxPeriod \in Nat
  BY RepetitionAssumption
<1>2. Rp!detect_in_window(text) = best[MaxPeriod]
  BY DEF Rp!detect_in_window
<1>3. next \in [(1..MaxPeriod) \X V -> V]
  BY DEF Rp!Earlier
<1>4. \E f : Is(f)
  <2>1. None \in V
    OBVIOUS
  <2>. HIDE DEF V
  <2>2. \A m \in 1..MaxPeriod : \A x \in V : next[<<m, x>>] = Rp!Earlier(text, m, x)
    OBVIOUS
  <2>. HIDE DEF next
  <2>3. PICK f : Follows(f, MaxPeriod, V, None, next)
    BY <1>1, <1>3, <2>1, StepByStep
  <2>4. ASSUME NEW m \in 1..MaxPeriod PROVE f[m] = Rp!Earlier(text, m, f[m - 1])
    <3>1. m - 1 \in 0..MaxPeriod
      BY <1>1
    <3>. QED  BY <2>2, <2>3, <3>1 DEF Follows
  <2>5. \A m \in 0..MaxPeriod : m # 0 => m \in 1..MaxPeriod
    BY <1>1
  <2>6. \A m \in 0..MaxPeriod : f[m] = IF m = 0 THEN None ELSE Rp!Earlier(text, m, f[m - 1])
    BY <2>3, <2>4, <2>5 DEF Follows
  <2>7. Is(f)
    BY <2>3, <2>6 DEF Follows
  <2>. QED  BY <2>7
<1>5. Is(best)
  <2>. HIDE DEF Is
  <2>. QED  BY <1>4
<1>. HIDE DEF best
<1>6. best[0] = None /\ \A m \in 1..MaxPeriod : best[m] = Rp!Earlier(text, m, best[m - 1])
  <2>1. \A m \in 0..MaxPeriod : best[m] = IF m = 0 THEN None ELSE Rp!Earlier(text, m, best[m - 1])
    BY <1>5
  <2>2. 0 \in 0..MaxPeriod /\ \A m \in 1..MaxPeriod : m \in 0..MaxPeriod /\ m # 0
    BY <1>1
  <2>. QED  BY <2>1, <2>2
<1>. DEFINE S == {m \in 0..MaxPeriod : EarliestOf(text, m, best[m])}
<1>7. 0 \in S
  BY <1>1, <1>6 DEF EarliestOf
<1>8. ASSUME NEW m \in 1..MaxPeriod, m - 1 \in S PROVE m \in S
  BY <1>1, <1>6, <1>8, OneMorePeriod
<1>9. MaxPeriod \in S
  <2>. HIDE DEF S
  <2>1. \A m \in 0..MaxPeriod : m \in S
    BY <1>1, <1>7, <1>8, UpTo
  <2>. QED  BY <1>1, <2>1
<1>. QED  BY <1>2, <1>9

LEMMA WindowIs ==
  ASSUME NEW T, NEW text \in Seq(T)
  PROVE  /\ Rp!Window(text) \in Seq(T)
         /\ Len(text) - Len(Rp!Window(text)) \in Nat
         /\ \A i \in 1..Len(Rp!Window(text)) :
              Rp!Window(text)[i] = text[i + (Len(text) - Len(Rp!Window(text)))]
         /\ Len(Rp!Window(text)) = Len(text) \/ Len(Rp!Window(text)) = ScanWindow
<1>1. Len(text) \in Nat /\ ScanWindow \in Nat
  BY RepetitionAssumption
<1>2. CASE Len(text) > ScanWindow
  <2>1. Rp!Window(text) = SubSeq(text, Len(text) - ScanWindow + 1, Len(text))
    BY <1>2 DEF Rp!Window
  <2>2. /\ Rp!Window(text) \in Seq(T) /\ Len(Rp!Window(text)) = ScanWindow
        /\ \A i \in 1..ScanWindow : Rp!Window(text)[i] = text[i + (Len(text) - ScanWindow)]
    BY <1>1, <1>2, <2>1
  <2>. QED  BY <1>1, <1>2, <2>2
<1>3. CASE ~ (Len(text) > ScanWindow)
  <2>1. Rp!Window(text) = text
    BY <1>3 DEF Rp!Window
  <2>. QED  BY <1>1, <2>1
<1>. QED  BY <1>2, <1>3

\* A run in the window is the one of the text, as far as the window goes.
LEMMA WindowRepeats ==
  ASSUME NEW T, NEW text \in Seq(T), NEW p \in 1..Len(Rp!Window(text))
  PROVE  LET r == Rp!Repeated(text, p)
             k == Len(Rp!Window(text)) - p
         IN /\ r \in Nat /\ k \in Nat
            /\ Rp!Repeated(Rp!Window(text), p) = IF r <= k THEN r ELSE k
<1>. DEFINE w == Rp!Window(text)
            o == Len(text) - Len(w)
            r == Rp!Repeated(text, p)
            rw == Rp!Repeated(w, p)
<1>1. /\ w \in Seq(T) /\ o \in Nat /\ \A i \in 1..Len(w) : w[i] = text[i + o]
      /\ Len(w) \in Nat /\ Len(text) \in Nat /\ Len(text) = Len(w) + o
  BY WindowIs
<1>. HIDE DEF w
<1>2. p \in 0..Len(w) /\ p \in 0..Len(text) /\ p \in Nat \ {0}
  BY <1>1 DEF w
<1>3. /\ r \in 0..(Len(text) - p) /\ EndRepeats(text, Len(text) - r, p)
      /\ \A k \in 0..(Len(text) - p) : EndRepeats(text, Len(text) - k, p) => k <= r
  BY <1>2, RepeatedIsMost
<1>4. /\ rw \in 0..(Len(w) - p) /\ EndRepeats(w, Len(w) - rw, p)
      /\ \A k \in 0..(Len(w) - p) : EndRepeats(w, Len(w) - k, p) => k <= rw
  BY <1>1, <1>2, RepeatedIsMost
<1>. HIDE DEF r, rw
<1>5. ASSUME NEW k \in 0..(Len(w) - p)
      PROVE  EndRepeats(w, Len(w) - k, p) <=> EndRepeats(text, Len(text) - k, p)
  <2>1. ASSUME EndRepeats(w, Len(w) - k, p), NEW i \in (Len(text) - k + 1)..Len(text)
        PROVE  text[i] = text[i - p]
    <3>1. /\ i - o \in (Len(w) - k + 1)..Len(w) /\ i - o \in 1..Len(w) /\ i - o - p \in 1..Len(w)
          /\ i - o + o = i /\ i - o - p + o = i - p
      BY <1>1, <1>2
    <3>2. w[i - o] = w[i - o - p]
      BY <2>1, <3>1 DEF EndRepeats
    <3>3. w[i - o] = text[i - o + o] /\ w[i - o - p] = text[i - o - p + o]
      BY <1>1, <3>1
    <3>. QED  BY <3>1, <3>2, <3>3
  <2>2. ASSUME EndRepeats(text, Len(text) - k, p), NEW i \in (Len(w) - k + 1)..Len(w)
        PROVE  w[i] = w[i - p]
    <3>1. /\ i + o \in (Len(text) - k + 1)..Len(text) /\ i \in 1..Len(w) /\ i - p \in 1..Len(w)
          /\ i + o - p = i - p + o
      BY <1>1, <1>2
    <3>2. text[i + o] = text[i + o - p]
      BY <2>2, <3>1 DEF EndRepeats
    <3>3. w[i] = text[i + o] /\ w[i - p] = text[i - p + o]
      BY <1>1, <3>1
    <3>. QED  BY <3>1, <3>2, <3>3
  <2>. QED  BY <2>1, <2>2 DEF EndRepeats
<1>6. rw <= r
  <2>1. rw \in 0..(Len(text) - p)
    BY <1>1, <1>2, <1>4
  <2>. QED  BY <1>3, <1>4, <1>5, <2>1
<1>7. CASE r <= Len(w) - p
  <2>1. r \in 0..(Len(w) - p)
    BY <1>1, <1>2, <1>3, <1>7
  <2>2. r <= rw
    BY <1>3, <1>4, <1>5, <2>1
  <2>3. rw = r
    BY <1>3, <1>4, <1>6, <2>2
  <2>. QED  BY <1>1, <1>2, <1>3, <1>7, <2>3 DEF w, r, rw
<1>8. CASE ~ (r <= Len(w) - p)
  <2>1. Len(w) - p \in 0..(Len(w) - p) /\ Len(w) - p < r
    BY <1>1, <1>2, <1>3, <1>8
  <2>2. EndRepeats(text, Len(text) - (Len(w) - p), p)
    <3>1. \A i \in (Len(text) - (Len(w) - p) + 1)..Len(text) : i \in (Len(text) - r + 1)..Len(text)
      BY <1>1, <1>2, <1>3, <2>1
    <3>. QED  BY <1>3, <3>1 DEF EndRepeats
  <2>3. Len(w) - p <= rw
    BY <1>4, <1>5, <2>1, <2>2
  <2>4. rw = Len(w) - p
    BY <1>1, <1>2, <1>4, <2>3
  <2>. QED  BY <1>1, <1>2, <1>3, <1>8, <2>4 DEF w, r, rw
<1>. QED  BY <1>7, <1>8

LEMMA PeriodsAre ==
  ASSUME NEW T, NEW text \in Seq(T), NEW p
  PROVE  p \in Rp!Periods(text) <=> p \in 1..MaxPeriod /\ p <= Len(text) - 1
<1>1. Len(text) \in Nat /\ MaxPeriod \in Nat
  BY RepetitionAssumption
<1>. QED  BY <1>1 DEF Rp!Periods

\* What qualifies in the text does in its window, which is long enough for a loop
\* of the longest unit.
LEMMA SameQualifying ==
  ASSUME NEW T, NEW text \in Seq(T)
  PROVE  Qualifying(Rp!Window(text)) = Qualifying(text)
<1>. DEFINE w == Rp!Window(text)
<1>1. /\ w \in Seq(T) /\ Len(text) - Len(w) \in Nat /\ Len(w) \in Nat /\ Len(text) \in Nat
      /\ Len(w) = Len(text) \/ Len(w) = ScanWindow
  BY WindowIs
<1>2. /\ {MaxPeriod, ScanWindow, MinSpan, MinCut} \subseteq Nat
      /\ ScanWindow >= 2 * MaxPeriod /\ ScanWindow >= MinSpan /\ ScanWindow >= MaxPeriod + MinCut
  BY RepetitionAssumption
<1>. HIDE DEF w
<1>3. \A p : p \in Rp!Periods(w) <=> p \in Rp!Periods(text)
  <2>1. \A p \in 1..MaxPeriod : p <= Len(w) - 1 <=> p <= Len(text) - 1
    BY <1>1, <1>2
  <2>. QED  BY <1>1, <2>1, PeriodsAre
<1>4. ASSUME NEW p \in Rp!Periods(text)
      PROVE  Rp!qualifies(w, p) <=> Rp!qualifies(text, p)
  <2>1. p \in 1..MaxPeriod /\ p <= Len(w) - 1 /\ p <= Len(text) - 1 /\ p \in 1..Len(w)
    BY <1>1, <1>2, <1>3, PeriodsAre
  <2>2. /\ Rp!Repeated(text, p) \in Nat
        /\ Rp!Repeated(w, p) = IF Rp!Repeated(text, p) <= Len(w) - p THEN Rp!Repeated(text, p) ELSE Len(w) - p
    BY <2>1, WindowRepeats DEF w
  <2>3. Rp!Repeated(text, p) <= Len(text) - p
    <3>1. p \in 0..Len(text)
      BY <1>1, <2>1
    <3>2. Rp!Repeated(text, p) \in 0..(Len(text) - p)
      BY <3>1, RepeatedIsMost
    <3>. QED  BY <1>1, <2>1, <3>2
  <2>. QED  BY <1>1, <1>2, <2>1, <2>2, <2>3 DEF Rp!qualifies
<1>. QED  BY <1>3, <1>4 DEF Qualifying, w

\* The run that begins earliest in the window does in the text: one that fills the
\* window and would begin earlier overlaps it by both periods, so it repeats as it does.
LEMMA EarliestInText ==
  ASSUME NEW T, NEW text \in Seq(T), NEW p \in Qualifying(text), NEW q \in Qualifying(text),
         Rp!Run(Rp!Window(text), p).unique_prefix <= Rp!Run(Rp!Window(text), q).unique_prefix
  PROVE  Rp!Run(text, p).unique_prefix <= Rp!Run(text, q).unique_prefix
<1>. DEFINE w == Rp!Window(text)
            n == Len(text)
            r(x) == Rp!Repeated(text, x)
<1>1. /\ w \in Seq(T) /\ n - Len(w) \in Nat /\ Len(w) \in Nat /\ n \in Nat
      /\ Len(w) = n \/ Len(w) = ScanWindow
  BY WindowIs
<1>2. MaxPeriod \in Nat /\ ScanWindow \in Nat /\ ScanWindow >= 2 * MaxPeriod
  BY RepetitionAssumption
<1>3. ASSUME NEW x \in Qualifying(text)
      PROVE  /\ x \in 1..MaxPeriod /\ x \in 1..n /\ x \in 1..Len(w)
             /\ r(x) \in 0..(n - x) /\ EndRepeats(text, n - r(x), x)
             /\ \A k \in 0..(n - x) : EndRepeats(text, n - k, x) => k <= r(x)
             /\ Rp!Run(text, x).unique_prefix = n - r(x)
             /\ Rp!Run(w, x).unique_prefix = IF r(x) <= Len(w) - x THEN Len(w) - r(x) ELSE x
  <2>1. x \in Rp!Periods(text) /\ x \in Rp!Periods(w)
    BY SameQualifying DEF Qualifying
  <2>2. /\ x \in 1..n /\ x \in 1..MaxPeriod /\ Rp!Run(text, x).unique_prefix = n - r(x)
        /\ x \in 1..Len(w) /\ Rp!Run(w, x).unique_prefix = Len(w) - Rp!Repeated(w, x)
    BY <1>1, <2>1, RunOf
  <2>3. x \in 0..n
    BY <1>1, <2>2
  <2>4. /\ r(x) \in 0..(n - x) /\ EndRepeats(text, n - r(x), x)
        /\ \A k \in 0..(n - x) : EndRepeats(text, n - k, x) => k <= r(x)
    BY <2>3, RepeatedIsMost
  <2>5. Rp!Repeated(w, x) = IF r(x) <= Len(w) - x THEN r(x) ELSE Len(w) - x
    BY <2>2, WindowRepeats
  <2>6. Len(w) - (Len(w) - x) = x
    BY <1>1, <2>2
  <2>. HIDE DEF w, n, r
  <2>. QED  BY <2>2, <2>4, <2>5, <2>6
<1>4. SUFFICES ASSUME n - r(q) < n - r(p) PROVE FALSE
  <2>. HIDE DEF w, n, r
  <2>1. n - r(p) \in Int /\ n - r(q) \in Int
    BY <1>1, <1>3
  <2>. QED  BY <1>3, <1>4, <2>1
<1>5. /\ p \in 1..MaxPeriod /\ q \in 1..MaxPeriod /\ p \in Nat \ {0} /\ q \in Nat \ {0}
      /\ r(p) \in 0..(n - p) /\ r(q) \in 0..(n - q) /\ r(p) < r(q)
      /\ p \in 1..Len(w) /\ q \in 1..Len(w)
      /\ (IF r(p) <= Len(w) - p THEN Len(w) - r(p) ELSE p) <= (IF r(q) <= Len(w) - q THEN Len(w) - r(q) ELSE q)
  <2>. HIDE DEF n, r
  <2>1. /\ p \in 1..MaxPeriod /\ q \in 1..MaxPeriod /\ r(p) \in 0..(n - p) /\ r(q) \in 0..(n - q)
        /\ p \in 1..Len(w) /\ q \in 1..Len(w)
    BY <1>3
  <2>2. r(p) < r(q)
    BY <1>1, <1>4, <2>1
  <2>3. Rp!Run(w, p).unique_prefix <= Rp!Run(w, q).unique_prefix
    OBVIOUS
  <2>4. (IF r(p) <= Len(w) - p THEN Len(w) - r(p) ELSE p) <= (IF r(q) <= Len(w) - q THEN Len(w) - r(q) ELSE q)
    <3>. HIDE DEF w
    <3>. QED  BY <1>3, <2>3
  <2>. QED  BY <1>2, <2>1, <2>2, <2>4
<1>6. /\ EndRepeats(text, n - r(q), q) /\ EndRepeats(text, n - r(p), p)
      /\ \A k \in 0..(n - p) : EndRepeats(text, n - k, p) => k <= r(p)
  BY <1>3
<1>. HIDE DEF w, n, r
\* The one that begins earlier fills the window.
<1>7. r(q) > Len(w) - q
  BY <1>1, <1>5
<1>8. Len(w) >= p + q
  <2>1. CASE Len(w) = ScanWindow
    BY <1>2, <1>5, <2>1
  <2>2. CASE Len(w) = n
    BY <1>1, <1>5, <1>7, <2>2
  <2>. QED  BY <1>1, <2>1, <2>2
<1>9. p <= q /\ n - r(p) <= n - Len(w) + q
  BY <1>1, <1>5, <1>7
<1>. DEFINE a == n - r(q) - q
            b == n - r(p) - p
<1>10. a \in Nat /\ b \in Nat /\ a + q = n - r(q) /\ b + p = n - r(p)
  <2>1. n \in Nat /\ p \in Nat /\ q \in Nat /\ r(p) \in 0..(n - p) /\ r(q) \in 0..(n - q)
    BY <1>1, <1>5
  <2>. QED  BY <2>1
<1>11. n - b >= p + q
  <2>1. n \in Nat /\ Len(w) \in Nat /\ p \in Nat /\ q \in Nat /\ r(p) \in 0..(n - p) /\ r(q) \in 0..(n - q)
    BY <1>1, <1>5
  <2>2. n - b = r(p) + p
    BY <1>1, <2>1
  <2>3. r(p) >= Len(w) - q
    BY <1>9, <2>1
  <2>4. MaxPeriod \in Nat /\ p <= MaxPeriod /\ q <= MaxPeriod /\ r(q) <= n - q /\ r(q) > Len(w) - q
    BY <1>2, <1>5, <1>7
  <2>5. Len(w) # n
    BY <2>1, <2>4
  <2>6. Len(w) >= 2 * MaxPeriod
    BY <1>1, <1>2, <2>5
  <2>7. r(p) >= q
    BY <2>1, <2>3, <2>4, <2>6
  <2>. QED  BY <2>1, <2>2, <2>7
<1>12. CASE b <= a
  <2>1. /\ n \in Nat /\ p \in Nat /\ q \in Nat /\ r(p) \in 0..(n - p) /\ r(q) \in 0..(n - q)
        /\ p <= q /\ n - r(q) < n - r(p)
    BY <1>1, <1>4, <1>5, <1>9
  <2>2. n - r(p) - p <= n - r(q) - q
    BY <1>12
  <2>. HIDE DEF a, b
  <2>. QED  BY <2>1, <2>2
<1>13. CASE a <= b
  <2>1. EndRepeats(text, a + q, q) /\ EndRepeats(text, b + p, p)
    BY <1>6, <1>10
  <2>2. Len(text) - b >= p + q
    BY <1>11 DEF n
  <2>. HIDE DEF a, b
  <2>3. EndRepeats(text, a + p, p)
    BY <1>5, <1>10, <1>13, <2>1, <2>2, TailsMeet
  <2>4. n - a - p \in 0..(n - p) /\ n - (n - a - p) = a + p
    BY <1>1, <1>5, <1>10, <1>11, <1>13
  <2>5. n - a - p <= r(p)
    BY <1>6, <2>3, <2>4
  <2>. QED  BY <1>1, <1>4, <1>5, <1>9, <1>10, <2>5
<1>. QED  BY <1>10, <1>12, <1>13

\* What is told of the window is told of the text.
LEMMA LoopIsOfText ==
  ASSUME NEW T, NEW text \in Seq(T), NEW p \in Qualifying(text),
         Rp!detect_in_window(Rp!Window(text)) = Rp!Run(Rp!Window(text), p)
  PROVE  Rp!detect_tail_loop(text) = Rp!Run(text, p)
<1>. DEFINE w == Rp!Window(text)
            o == Len(text) - Len(w)
            found == Rp!Run(w, p)
<1>1. w \in Seq(T) /\ o \in Nat /\ Len(w) \in Nat /\ Len(text) \in Nat
  BY WindowIs
<1>2. p \in Rp!Periods(w) /\ p \in Rp!Periods(text)
  BY SameQualifying DEF Qualifying
<1>3. p \in 1..Len(w) /\ p \in 1..Len(text) /\ found # None
  BY <1>1, <1>2, RunOf
<1>4. Rp!detect_tail_loop(text) =
        IF o > 0 /\ found.unique_prefix = found.period THEN Rp!Run(text, found.period)
        ELSE [found EXCEPT !.unique_prefix = @ + o]
  BY <1>3 DEF Rp!detect_tail_loop
<1>5. /\ found = [unique_prefix |-> Len(w) - Rp!Repeated(w, p), period |-> p, repeated |-> Rp!Repeated(w, p)]
      /\ Rp!Run(text, p) = [unique_prefix |-> Len(text) - Rp!Repeated(text, p), period |-> p,
                             repeated |-> Rp!Repeated(text, p)]
  BY DEF Rp!Run
<1>6. /\ Rp!Repeated(text, p) \in Nat
      /\ Rp!Repeated(w, p) = IF Rp!Repeated(text, p) <= Len(w) - p THEN Rp!Repeated(text, p) ELSE Len(w) - p
  BY <1>3, WindowRepeats
<1>7. Rp!Repeated(text, p) <= Len(text) - p
  <2>1. p \in 0..Len(text)
    BY <1>3
  <2>2. Rp!Repeated(text, p) \in 0..(Len(text) - p)
    BY <2>1, RepeatedIsMost
  <2>. QED  BY <1>1, <1>3, <2>2
<1>. HIDE DEF w
<1>8. CASE o > 0 /\ found.unique_prefix = found.period
  BY <1>4, <1>5, <1>8
<1>9. CASE ~ (o > 0 /\ found.unique_prefix = found.period)
  <2>1. Rp!detect_tail_loop(text) = [found EXCEPT !.unique_prefix = @ + o]
    BY <1>4, <1>9
  <2>2. o = 0 \/ Len(w) - Rp!Repeated(w, p) # p
    BY <1>1, <1>5, <1>9
  <2>3. Rp!Repeated(w, p) = Rp!Repeated(text, p)
    BY <1>1, <1>3, <1>6, <1>7, <2>2
  <2>4. Len(w) - Rp!Repeated(w, p) + o = Len(text) - Rp!Repeated(text, p)
    BY <1>1, <1>6, <2>3
  <2>. QED  BY <1>5, <2>1, <2>3, <2>4
<1>. QED  BY <1>8, <1>9

LEMMA LoopIsEarliest ==
  ASSUME NEW T, NEW text \in Seq(T)
  PROVE  Rp!EarliestLoopIsFound(text)
<1>. DEFINE w == Rp!Window(text)
            found == Rp!detect_in_window(w)
<1>1. w \in Seq(T) /\ Qualifying(w) = Qualifying(text)
  BY WindowIs, SameQualifying
<1>2. EarliestOf(w, MaxPeriod, found)
  BY <1>1, SearchIsComplete
<1>3. Qualifying(text) \cap 1..MaxPeriod = Qualifying(text)
  BY RunOf DEF Qualifying
<1>4. Qualifying(text) = {p \in Rp!Periods(text) : Rp!qualifies(text, p)}
  BY DEF Qualifying
<1>. HIDE DEF w
<1>5. CASE found = None
  <2>1. Qualifying(text) = {}
    BY <1>1, <1>2, <1>3, <1>5 DEF EarliestOf
  <2>2. Rp!detect_tail_loop(text) = None
    BY <1>5 DEF Rp!detect_tail_loop, w
  <2>. QED  BY <1>4, <2>1, <2>2 DEF Rp!EarliestLoopIsFound
<1>6. CASE found # None
  <2>1. PICK p \in Qualifying(text) :
               /\ found = Rp!Run(w, p)
               /\ \A q \in Qualifying(text) : Rp!Run(w, p).unique_prefix <= Rp!Run(w, q).unique_prefix
    BY <1>1, <1>2, <1>3, <1>6 DEF EarliestOf
  <2>2. Rp!detect_tail_loop(text) = Rp!Run(text, p)
    BY <2>1, LoopIsOfText DEF w
  <2>3. \A q \in Qualifying(text) : Rp!Run(text, p).unique_prefix <= Rp!Run(text, q).unique_prefix
    BY <2>1, EarliestInText DEF w
  <2>4. Rp!Run(text, p).period = p
    BY RunOf DEF Qualifying
  <2>. QED  BY <1>4, <2>2, <2>3, <2>4 DEF Rp!EarliestLoopIsFound
<1>. QED  BY <1>5, <1>6

-----------------------------------------------------------------------------
(* What is learned of a backend *)

\* What may be known, of these models and profiles.
Known(models, profiles) ==
  [model : models, completed : Nat, profile : profiles, samples : Nat, total : Nat]

IsHistory(runs) ==
  /\ runs \in Seq({runs[i] : i \in DOMAIN runs})
  /\ \A i \in DOMAIN runs : runs[i].work \in Option(Nat)

\* The measured runs of a profile among the first n.
Measured(runs, n, profile) == {i \in 1..n : runs[i].profile = profile /\ runs[i].work # None}

\* No more samples are counted than runs of the profile were measured, and their
\* total is between what the fastest and the slowest of these would add up to.
IsEarned(runs, n, stats) ==
  LET own == Measured(runs, n, stats.profile)
  IN /\ stats.samples <= Cardinality(own)
     /\ stats.samples = 0 => stats.total = 0
     /\ stats.samples > 0 =>
          /\ \E i \in own : runs[i].work * stats.samples <= stats.total
          /\ \E i \in own : stats.total <= runs[i].work * stats.samples

\* What one run makes of what is known, written out.
LEMMA LearnIs ==
  ASSUME NEW models, NEW profiles, None \in models, None \in profiles, NEW stats \in Known(models, profiles),
         NEW run, run.model \in models, run.profile \in profiles, run.work \in Option(Nat)
  PROVE  LET base == IF stats.model \in {None, run.model} THEN stats ELSE Pl!NoStats
             new  == Pl!Learn(stats, run)
         IN /\ new \in Known(models, profiles)
            /\ \/ /\ new.profile = base.profile /\ new.samples = base.samples /\ new.total = base.total
               \/ /\ run.work # None /\ run.work \in Nat /\ new.profile = run.profile
                  /\ \/ /\ base.profile = run.profile
                        /\ new.samples = base.samples + 1 /\ new.total = base.total + run.work
                     \/ new.samples = 1 /\ new.total = run.work
<1>. DEFINE base == IF stats.model \in {None, run.model} THEN stats ELSE Pl!NoStats
            seen == Pl!record(stats, run.model)
            new  == Pl!Learn(stats, run)
<1>1. Pl!NoStats \in Known(models, profiles)
  BY DEF Pl!NoStats, Known
<1>2. base \in Known(models, profiles)
  BY <1>1
<1>3. run.work \in Option(Nat) /\ run.model \in models /\ run.profile \in profiles
  OBVIOUS
<1>4. seen = [base EXCEPT !.model = run.model, !.completed = @ + 1]
  BY DEF Pl!record
<1>. HIDE DEF base
<1>5. /\ seen \in Known(models, profiles)
      /\ seen.profile = base.profile /\ seen.samples = base.samples /\ seen.total = base.total
  <2>. DEFINE mid == [base EXCEPT !.model = run.model]
  <2>1. /\ mid \in Known(models, profiles) /\ mid.completed = base.completed
        /\ mid.profile = base.profile /\ mid.samples = base.samples /\ mid.total = base.total
    BY <1>2, <1>3 DEF Known
  <2>2. seen = [mid EXCEPT !.completed = @ + 1]
    BY <1>4
  <2>. HIDE DEF mid, seen
  <2>3. mid.completed \in Nat
    BY <2>1 DEF Known
  <2>. QED  BY <2>1, <2>2, <2>3 DEF Known
<1>6. new = IF run.profile # None /\ run.work # None THEN Pl!record_profile(seen, run.profile, run.work) ELSE seen
  BY DEF Pl!Learn
<1>. HIDE DEF seen, new
<1>7. CASE ~ (run.profile # None /\ run.work # None)
  BY <1>5, <1>6, <1>7 DEF base, new
<1>8. CASE run.profile # None /\ run.work # None
  <2>1. run.work \in Nat
    BY <1>3, <1>8 DEF Option
  <2>2. new = [seen EXCEPT !.profile = run.profile,
                           !.samples = (IF seen.profile = run.profile THEN @ ELSE 0) + 1,
                           !.total   = (IF seen.profile = run.profile THEN @ ELSE 0) + run.work]
    BY <1>6, <1>8 DEF Pl!record_profile
  <2>3. seen.samples \in Nat /\ seen.total \in Nat
    BY <1>5 DEF Known
  <2>. DEFINE samples == (IF seen.profile = run.profile THEN seen.samples ELSE 0) + 1
              total == (IF seen.profile = run.profile THEN seen.total ELSE 0) + run.work
              one == [seen EXCEPT !.profile = run.profile]
              two == [one EXCEPT !.samples = samples]
  <2>4. samples \in Nat /\ total \in Nat
    BY <2>1, <2>3
  <2>5. new = [two EXCEPT !.total = total]
    BY <1>5, <2>2 DEF Known
  <2>. HIDE DEF samples, total
  <2>6. one \in Known(models, profiles) /\ one.profile = run.profile
    BY <1>3, <1>5 DEF Known
  <2>. HIDE DEF one
  <2>7. two \in Known(models, profiles) /\ two.profile = run.profile /\ two.samples = samples
    BY <2>4, <2>6 DEF Known
  <2>. HIDE DEF two
  <2>8. new \in Known(models, profiles)
    BY <2>4, <2>5, <2>7 DEF Known
  <2>9. new.profile = run.profile /\ new.samples = samples /\ new.total = total
    BY <2>5, <2>7 DEF Known
  <2>10. \/ /\ base.profile = run.profile
            /\ new.samples = base.samples + 1 /\ new.total = base.total + run.work
         \/ new.samples = 1 /\ new.total = run.work
    BY <1>5, <2>1, <2>3, <2>9 DEF samples, total
  <2>. QED  BY <1>8, <2>1, <2>8, <2>9, <2>10 DEF base, new
<1>. QED  BY <1>7, <1>8

\* What is one more of the profile is measured, what is not leaves the others.
LEMMA MeasuredGrows ==
  ASSUME NEW runs, NEW n \in Nat \ {0}, NEW profile
  PROVE  /\ Measured(runs, n - 1, profile) \subseteq Measured(runs, n, profile)
         /\ IsFiniteSet(Measured(runs, n, profile)) /\ Cardinality(Measured(runs, n, profile)) \in Nat
         /\ Cardinality(Measured(runs, n - 1, profile)) \in Nat
         /\ Cardinality(Measured(runs, n - 1, profile)) <= Cardinality(Measured(runs, n, profile))
         /\ runs[n].profile = profile /\ runs[n].work # None =>
              /\ n \in Measured(runs, n, profile)
              /\ Cardinality(Measured(runs, n - 1, profile)) + 1 <= Cardinality(Measured(runs, n, profile))
<1>. DEFINE A == Measured(runs, n - 1, profile)
            B == Measured(runs, n, profile)
<1>1. A \subseteq B
  BY DEF Measured
<1>2. IsFiniteSet(B)
  <2>1. IsFiniteSet(1..n) /\ B \in SUBSET (1..n)
    BY FS_Interval DEF Measured
  <2>. QED  BY <2>1, FS_Subset
<1>3. n \notin A
  BY DEF Measured
<1>4. runs[n].profile = profile /\ runs[n].work # None => n \in B
  BY DEF Measured
<1>. HIDE DEF A, B
<1>5. A \in SUBSET B
  BY <1>1
<1>6. IsFiniteSet(A) /\ Cardinality(A) <= Cardinality(B)
  BY <1>2, <1>5, FS_Subset
<1>7. Cardinality(A) \in Nat /\ Cardinality(B) \in Nat
  BY <1>2, <1>6, FS_CardinalityType
<1>8. n \in B => Cardinality(A) + 1 <= Cardinality(B)
  <2>1. SUFFICES ASSUME n \in B PROVE Cardinality(A) + 1 <= Cardinality(B)
    OBVIOUS
  <2>2. Cardinality(A \cup {n}) = Cardinality(A) + 1
    BY <1>3, <1>6, FS_AddElement
  <2>3. A \cup {n} \in SUBSET B
    BY <1>1, <2>1
  <2>4. Cardinality(A \cup {n}) <= Cardinality(B)
    BY <1>2, <2>3, FS_Subset
  <2>. QED  BY <2>2, <2>4
<1>. QED  BY <1>1, <1>2, <1>4, <1>6, <1>7, <1>8 DEF A, B

LEMMA Products ==
  /\ \A x, y, s \in Nat : x <= y => x * s <= y * s
  /\ \A x, s \in Nat : x * s \in Nat /\ x * (s + 1) = x * s + x /\ x * 1 = x
<1>1. ASSUME NEW x \in Nat, NEW y \in Nat, NEW s \in Nat, x <= y PROVE x * s <= y * s
  <2>1. y - x \in Nat /\ y = x + (y - x)
    BY <1>1
  <2>2. y * s = x * s + (y - x) * s
    BY <2>1
  <2>3. (y - x) * s >= 0
    BY <2>1
  <2>. QED  BY <2>2, <2>3
<1>. QED  BY <1>1

\* A sample among others moves the bounds of their total with it.
LEMMA OneMoreSample ==
  ASSUME NEW i \in Nat, NEW j \in Nat, NEW work \in Nat, NEW samples \in Nat, NEW total \in Nat,
         i * samples <= total, total <= j * samples
  PROVE  /\ i * (samples + 1) <= total + work \/ work * (samples + 1) <= total + work
         /\ total + work <= j * (samples + 1) \/ total + work <= work * (samples + 1)
<1>1. /\ i * (samples + 1) = i * samples + i /\ j * (samples + 1) = j * samples + j
      /\ work * (samples + 1) = work * samples + work
      /\ i * samples \in Nat /\ j * samples \in Nat /\ work * samples \in Nat
  BY Products
<1>2. /\ i <= work => i * (samples + 1) <= total + work
      /\ work <= j => total + work <= j * (samples + 1)
  BY <1>1
<1>3. work <= i => work * samples <= total
  BY <1>1, Products
<1>4. j <= work => total <= work * samples
  BY <1>1, Products
<1>. QED  BY <1>1, <1>2, <1>3, <1>4

LEMMA OneMoreRun ==
  ASSUME NEW runs, IsHistory(runs), NEW models, NEW profiles, None \in models, None \in profiles,
         \A i \in DOMAIN runs : runs[i].model \in models /\ runs[i].profile \in profiles,
         NEW n \in DOMAIN runs, NEW stats \in Known(models, profiles), IsEarned(runs, n - 1, stats)
  PROVE  Pl!Learn(stats, runs[n]) \in Known(models, profiles) /\ IsEarned(runs, n, Pl!Learn(stats, runs[n]))
<1>. DEFINE run  == runs[n]
            base == IF stats.model \in {None, run.model} THEN stats ELSE Pl!NoStats
            new  == Pl!Learn(stats, run)
            own(m) == Measured(runs, m, new.profile)
<1>1. /\ new \in Known(models, profiles)
      /\ \/ /\ new.profile = base.profile /\ new.samples = base.samples /\ new.total = base.total
         \/ /\ run.work # None /\ run.work \in Nat /\ new.profile = run.profile
            /\ \/ /\ base.profile = run.profile
                  /\ new.samples = base.samples + 1 /\ new.total = base.total + run.work
               \/ new.samples = 1 /\ new.total = run.work
  BY LearnIs DEF IsHistory
<1>2. n \in Nat \ {0}
  <2>1. DOMAIN runs = 1..Len(runs) /\ Len(runs) \in Nat
    BY DEF IsHistory
  <2>. QED  BY <2>1
<1>3. /\ base.samples \in Nat /\ base.total \in Nat /\ IsEarned(runs, n - 1, base)
      /\ new.samples \in Nat /\ new.total \in Nat
  <2>1. Cardinality(Measured(runs, n - 1, None)) \in Nat
    BY <1>2, MeasuredGrows
  <2>2. CASE base = stats
    BY <1>1, <2>2 DEF Known
  <2>3. CASE base = Pl!NoStats
    <3>1. base.samples = 0 /\ base.total = 0 /\ base.profile = None
      BY <2>3 DEF Pl!NoStats
    <3>. QED  BY <1>1, <2>1, <3>1 DEF IsEarned, Known
  <2>. QED  BY <2>2, <2>3
<1>. SUFFICES IsEarned(runs, n, new)
  BY <1>1
<1>. HIDE DEF base, new, run
<1>4. /\ own(n - 1) \subseteq own(n) /\ Cardinality(own(n)) \in Nat /\ Cardinality(own(n - 1)) \in Nat
      /\ Cardinality(own(n - 1)) <= Cardinality(own(n))
      /\ run.profile = new.profile /\ run.work # None => n \in own(n) /\ Cardinality(own(n - 1)) + 1 <= Cardinality(own(n))
  BY <1>2, MeasuredGrows DEF run
<1>5. \A i \in own(n) : runs[i].work \in Nat
  <2>1. \A i \in 1..n : i \in DOMAIN runs
    BY <1>2 DEF IsHistory
  <2>. QED  BY <2>1 DEF Measured, IsHistory, Option
<1>6. CASE new.profile = base.profile /\ new.samples = base.samples /\ new.total = base.total
  BY <1>3, <1>4, <1>6 DEF IsEarned
<1>7. CASE /\ run.work # None /\ run.work \in Nat /\ new.profile = run.profile
           /\ base.profile = run.profile /\ new.samples = base.samples + 1 /\ new.total = base.total + run.work
  <2>1. n \in own(n) /\ runs[n].work = run.work
    BY <1>4, <1>7 DEF run
  <2>2. new.samples <= Cardinality(own(n))
    BY <1>3, <1>4, <1>7 DEF IsEarned
  <2>3. CASE base.samples = 0
    <3>1. base.total = 0
      BY <1>3, <2>3 DEF IsEarned
    <3>2. new.samples = 1 /\ new.total = run.work
      BY <1>3, <1>7, <2>3, <3>1
    <3>3. runs[n].work * new.samples = new.total
      BY <1>7, <2>1, <3>2, Products
    <3>4. new.total <= new.total
      BY <1>3
    <3>. QED  BY <2>1, <2>2, <3>2, <3>3, <3>4 DEF IsEarned
  <2>4. CASE base.samples # 0
    <3>1. base.samples > 0
      BY <1>3, <2>4
    <3>2. PICK i \in own(n - 1) : runs[i].work * base.samples <= base.total
      BY <1>3, <1>7, <3>1 DEF IsEarned
    <3>3. PICK j \in own(n - 1) : base.total <= runs[j].work * base.samples
      BY <1>3, <1>7, <3>1 DEF IsEarned
    <3>4. i \in own(n) /\ j \in own(n) /\ runs[i].work \in Nat /\ runs[j].work \in Nat
      BY <1>4, <1>5
    <3>5. /\ \/ runs[i].work * (base.samples + 1) <= base.total + run.work
             \/ run.work * (base.samples + 1) <= base.total + run.work
          /\ \/ base.total + run.work <= runs[j].work * (base.samples + 1)
             \/ base.total + run.work <= run.work * (base.samples + 1)
      BY <1>3, <1>7, <3>2, <3>3, <3>4, OneMoreSample
    <3>6. /\ \E k \in own(n) : runs[k].work * new.samples <= new.total
          /\ \E k \in own(n) : new.total <= runs[k].work * new.samples
      BY <1>7, <2>1, <3>4, <3>5
    <3>7. new.samples # 0
      BY <1>3, <1>7
    <3>. QED  BY <2>2, <3>6, <3>7 DEF IsEarned
  <2>. QED  BY <2>3, <2>4
<1>8. CASE /\ run.work # None /\ run.work \in Nat /\ new.profile = run.profile
           /\ new.samples = 1 /\ new.total = run.work
  <2>1. n \in own(n) /\ runs[n].work = run.work
    BY <1>4, <1>8 DEF run
  <2>2. new.samples <= Cardinality(own(n))
    BY <1>4, <1>8
  <2>3. runs[n].work * new.samples = new.total
    BY <1>8, <2>1, Products
  <2>4. new.total <= new.total
    BY <1>3
  <2>. QED  BY <1>8, <2>1, <2>2, <2>3, <2>4 DEF IsEarned
<1>. QED  BY <1>1, <1>6, <1>7, <1>8

LEMMA LearnedIsEarned ==
  ASSUME NEW runs, IsHistory(runs)
  PROVE  /\ Pl!LearnAll(runs).samples \in Nat /\ Pl!LearnAll(runs).total \in Nat
         /\ IsEarned(runs, Len(runs), Pl!LearnAll(runs))
<1>. DEFINE models == {None} \cup {runs[i].model : i \in DOMAIN runs}
            profiles == {None} \cup {runs[i].profile : i \in DOMAIN runs}
            V == Known(models, profiles)
            n == Len(runs)
            next == [s \in (1..n) \X V |-> Pl!Learn(s[2], runs[s[1]])]
            Is(f) == f = [m \in 0..n |-> IF m = 0 THEN Pl!NoStats ELSE Pl!Learn(f[m - 1], runs[m])]
            after == CHOOSE f : Is(f)
<1>1. n \in Nat /\ DOMAIN runs = 1..n
  BY DEF IsHistory
<1>2. Pl!LearnAll(runs) = after[n]
  BY DEF Pl!LearnAll
<1>3. None \in models /\ None \in profiles
      /\ \A i \in DOMAIN runs : runs[i].model \in models /\ runs[i].profile \in profiles
  OBVIOUS
<1>. HIDE DEF models, profiles
<1>4. Pl!NoStats \in V
  BY <1>3 DEF Pl!NoStats, Known
<1>5. ASSUME NEW m \in 1..n, NEW st \in V PROVE Pl!Learn(st, runs[m]) \in V
  BY <1>1, <1>3, LearnIs DEF IsHistory
<1>. HIDE DEF V
<1>6. next \in [(1..n) \X V -> V]
  BY <1>5
<1>7. \A m \in 1..n : \A x \in V : next[<<m, x>>] = Pl!Learn(x, runs[m])
  OBVIOUS
<1>. HIDE DEF next, n
<1>8. PICK f : Follows(f, n, V, Pl!NoStats, next)
  BY <1>1, <1>4, <1>6, StepByStep
<1>9. ASSUME NEW m \in 1..n PROVE f[m] = Pl!Learn(f[m - 1], runs[m])
  <2>1. m - 1 \in 0..n
    BY <1>1
  <2>. QED  BY <1>7, <1>8, <2>1 DEF Follows
<1>10. \E g : Is(g)
  <2>1. \A m \in 0..n : m # 0 => m \in 1..n
    BY <1>1
  <2>2. \A m \in 0..n : f[m] = IF m = 0 THEN Pl!NoStats ELSE Pl!Learn(f[m - 1], runs[m])
    BY <1>8, <1>9, <2>1 DEF Follows
  <2>3. Is(f)
    BY <1>8, <2>2 DEF Follows
  <2>. QED  BY <2>3
<1>11. Is(after)
  <2>. HIDE DEF Is
  <2>. QED  BY <1>10
<1>. HIDE DEF after
<1>12. after[0] = Pl!NoStats /\ \A m \in 1..n : after[m] = Pl!Learn(after[m - 1], runs[m])
  <2>1. \A m \in 0..n : after[m] = IF m = 0 THEN Pl!NoStats ELSE Pl!Learn(after[m - 1], runs[m])
    BY <1>11
  <2>2. 0 \in 0..n /\ \A m \in 1..n : m \in 0..n /\ m # 0
    BY <1>1
  <2>. QED  BY <2>1, <2>2
<1>. DEFINE S == {m \in 0..n : after[m] \in V /\ IsEarned(runs, m, after[m])}
<1>13. 0 \in S
  <2>1. Pl!NoStats.samples = 0 /\ Pl!NoStats.total = 0 /\ Pl!NoStats.profile = None
    BY DEF Pl!NoStats
  <2>2. Cardinality(Measured(runs, 0, None)) = 0
    <3>1. Measured(runs, 0, None) = {}
      BY DEF Measured
    <3>. QED  BY <3>1, FS_EmptySet
  <2>3. IsEarned(runs, 0, Pl!NoStats)
    BY <2>1, <2>2 DEF IsEarned
  <2>. QED  BY <1>1, <1>4, <1>12, <2>3
<1>14. ASSUME NEW m \in 1..n, m - 1 \in S PROVE m \in S
  <2>1. after[m - 1] \in V /\ IsEarned(runs, m - 1, after[m - 1])
    BY <1>14
  <2>2. Pl!Learn(after[m - 1], runs[m]) \in V /\ IsEarned(runs, m, Pl!Learn(after[m - 1], runs[m]))
    BY <1>1, <1>3, <2>1, OneMoreRun DEF V
  <2>. QED  BY <1>1, <1>12, <2>2
<1>15. n \in S
  <2>. HIDE DEF S
  <2>1. \A m \in 0..n : m \in S
    BY <1>1, <1>13, <1>14, UpTo
  <2>. QED  BY <1>1, <2>1
<1>16. after[n] \in V /\ IsEarned(runs, n, after[n])
  BY <1>15
<1>. QED  BY <1>2, <1>16 DEF V, Known, n

\* An average of enough samples is neither below all of them nor above all.
LEMMA AverageIsBetween ==
  ASSUME NEW runs, IsHistory(runs), NEW profile, NEW average,
         average = Pl!average_for_profile(Pl!LearnAll(runs), profile), average # None
  PROVE  LET own == Measured(runs, Len(runs), profile)
         IN /\ average \in Nat /\ MinSamples <= Cardinality(own)
            /\ \E i \in own : runs[i].work \in Nat /\ runs[i].work <= average
            /\ \E i \in own : runs[i].work \in Nat /\ average <= runs[i].work
<1>. DEFINE st == Pl!LearnAll(runs)
            own == Measured(runs, Len(runs), profile)
<1>1. st.samples \in Nat /\ st.total \in Nat /\ IsEarned(runs, Len(runs), st)
  BY LearnedIsEarned
<1>2. st.profile = profile /\ st.samples >= MinSamples /\ average = st.total \div st.samples
  BY DEF Pl!average_for_profile
<1>. HIDE DEF st
<1>3. MinSamples \in Nat \ {0} /\ st.samples \in Nat \ {0}
  BY <1>1, <1>2, PlacementAssumption
<1>4. /\ average \in Nat /\ average * st.samples <= st.total
      /\ st.total < (average + 1) * st.samples
  <2>1. PICK s \in Nat \ {0}, t \in Nat : s = st.samples /\ t = st.total
    BY <1>1, <1>3
  <2>2. t \div s \in Nat /\ (t \div s) * s <= t /\ t < (t \div s + 1) * s
    BY <2>1
  <2>. QED  BY <1>2, <2>1, <2>2
<1>5. \A i \in own : runs[i].work \in Nat
  <2>1. \A i \in 1..Len(runs) : i \in DOMAIN runs
    BY DEF IsHistory
  <2>. QED  BY <2>1 DEF Measured, IsHistory, Option
<1>6. /\ st.samples <= Cardinality(own)
      /\ \E i \in own : runs[i].work * st.samples <= st.total
      /\ \E i \in own : st.total <= runs[i].work * st.samples
  BY <1>1, <1>2, <1>3 DEF IsEarned
<1>7. MinSamples <= Cardinality(own)
  <2>1. Cardinality(own) \in Nat
    <3>1. Len(runs) \in Nat
      BY DEF IsHistory
    <3>2. IsFiniteSet(1..Len(runs)) /\ own \in SUBSET (1..Len(runs))
      BY <3>1, FS_Interval DEF Measured
    <3>. QED  BY <3>2, FS_Subset, FS_CardinalityType
  <2>. QED  BY <1>2, <1>3, <1>6, <2>1
<1>8. PICK i \in own : runs[i].work * st.samples <= st.total
  BY <1>6
<1>9. runs[i].work <= average
  <2>1. runs[i].work \in Nat
    BY <1>5
  <2>2. SUFFICES ASSUME average + 1 <= runs[i].work PROVE FALSE
    BY <1>4, <2>1
  <2>3. (average + 1) * st.samples <= runs[i].work * st.samples
    BY <1>3, <1>4, <2>1, <2>2, Products, SMTT(40)
  <2>4. (average + 1) * st.samples \in Nat /\ runs[i].work * st.samples \in Nat
    BY <1>3, <1>4, <2>1, Products
  <2>. QED  BY <1>1, <1>4, <1>8, <2>3, <2>4
<1>10. PICK j \in own : st.total <= runs[j].work * st.samples
  BY <1>6
<1>11. average <= runs[j].work
  <2>1. runs[j].work \in Nat
    BY <1>5
  <2>2. SUFFICES ASSUME runs[j].work + 1 <= average PROVE FALSE
    BY <1>4, <2>1
  <2>3. (runs[j].work + 1) * st.samples <= average * st.samples
    BY <1>3, <1>4, <2>1, <2>2, Products, SMTT(40)
  <2>4. (runs[j].work + 1) * st.samples = runs[j].work * st.samples + st.samples
    BY <1>3, <2>1
  <2>5. runs[j].work * st.samples \in Nat /\ average * st.samples \in Nat
    BY <1>3, <1>4, <2>1, Products
  <2>. QED  BY <1>1, <1>3, <1>4, <1>10, <2>3, <2>4, <2>5
<1>. QED  BY <1>4, <1>5, <1>7, <1>9, <1>11

\* A backend is desired of itself because it was faster, or because it is free and
\* the other one is not.
LEMMA DesiredIsEarned ==
  ASSUME NEW s, s.preference = "auto", Pl!desired_placement(s) # None
  PROVE  LET ready == [gpu |-> s.free.gpu >= s.cost.gpu, cpu |-> s.cpu_configured /\ s.free.cpu >= s.cost.cpu]
             b     == Pl!desired_placement(s)[1]
         IN /\ ~ s.pinned /\ s.objective # "quality" /\ b \in Backends
            /\ \/ /\ s.work.gpu # None /\ s.work.cpu # None
                  /\ Pl!meaningfully_faster(s.work[b], s.work[Pl!Other(b)])
               \/ ready[b] /\ ~ ready[Pl!Other(b)]
<1>. DEFINE ready == [gpu |-> s.free.gpu >= s.cost.gpu, cpu |-> s.cpu_configured /\ s.free.cpu >= s.cost.cpu]
            faster == {b \in {"gpu", "cpu"} : s.work.gpu # None /\ s.work.cpu # None
                                              /\ Pl!meaningfully_faster(s.work[b], s.work[Pl!Other(b)])}
            desired == Pl!desired_placement(s)
<1>1. CASE s.pinned \/ s.objective = "quality"
  BY <1>1 DEF Pl!desired_placement
<1>2. CASE ~ (s.pinned \/ s.objective = "quality")
  <2>1. desired = CASE faster # {} -> Pl!Leaning(ready, CHOOSE b \in faster : TRUE, "measured_backend_faster")
                    [] faster = {} /\ ready.gpu # ready.cpu ->
                         <<IF ready.cpu THEN "cpu" ELSE "gpu", "backend_capacity_available">>
                    [] OTHER -> None
    BY <1>2 DEF Pl!desired_placement
  <2>. HIDE DEF desired
  <2>2. CASE faster # {}
    <3>1. PICK b : b = CHOOSE o \in faster : TRUE
      OBVIOUS
    <3>2. b \in faster
      BY <2>2, <3>1
    <3>3. desired = Pl!Leaning(ready, b, "measured_backend_faster")
      BY <2>1, <2>2, <3>1
    <3>4. b \in Backends /\ Pl!Other(b) \in Backends /\ Pl!Other(Pl!Other(b)) = b
      BY <3>2 DEF Backends, Pl!Other
    <3>5. \/ desired[1] = b
          \/ desired[1] = Pl!Other(b) /\ ready[Pl!Other(b)] /\ ~ ready[b]
      <4>. HIDE DEF ready, faster
      <4>. QED  BY <3>3 DEF Pl!Leaning
    <3>. QED  BY <1>2, <3>2, <3>4, <3>5 DEF desired
  <2>3. CASE faster = {}
    <3>1. ready.gpu # ready.cpu /\ desired[1] = IF ready.cpu THEN "cpu" ELSE "gpu"
      <4>. HIDE DEF ready, faster
      <4>. QED  BY <2>1, <2>3 DEF desired
    <3>2. CASE ready.cpu
      <4>1. desired[1] = "cpu" /\ Pl!Other("cpu") = "gpu" /\ ~ ready.gpu
        BY <3>1, <3>2 DEF Pl!Other
      <4>. QED  BY <1>2, <3>2, <4>1 DEF desired, Backends
    <3>3. CASE ~ ready.cpu
      <4>1. ready.gpu \in BOOLEAN /\ ready.cpu \in BOOLEAN
        OBVIOUS
      <4>2. ready.gpu
        <5>. HIDE DEF ready
        <5>. QED  BY <3>1, <3>3, <4>1
      <4>3. desired[1] = "gpu" /\ Pl!Other("gpu") = "cpu"
        BY <3>1, <3>3 DEF Pl!Other
      <4>. QED  BY <1>2, <3>3, <4>2, <4>3 DEF desired, Backends
    <3>. QED  BY <3>2, <3>3
  <2>. QED  BY <2>2, <2>3
<1>. QED  BY <1>1, <1>2

LEMMA FasterOnAverage ==
  ASSUME NEW a \in Nat, NEW b \in Nat, NEW x \in Nat, NEW y \in Nat,
         Pl!meaningfully_faster(a, b), x <= a, b <= y
  PROVE  Pl!meaningfully_faster(x, y)
<1>1. 100 - MinGain \in Nat
  BY PlacementAssumption
<1>2. a * 100 < b * (100 - MinGain)
  BY DEF Pl!meaningfully_faster
<1>3. x * 100 <= a * 100
  OBVIOUS
<1>4. b * (100 - MinGain) <= y * (100 - MinGain)
  BY <1>1, Products
<1>5. b * (100 - MinGain) \in Nat /\ y * (100 - MinGain) \in Nat
  BY <1>1, Products
<1>. QED  BY <1>2, <1>3, <1>4, <1>5 DEF Pl!meaningfully_faster

LEMMA ChoiceIsEarned ==
  ASSUME NEW in, \A b \in Backends : in.candidate[b] = None \/ in.candidate[b].backend = b,
         NEW runs, \A b \in Backends : IsHistory(runs[b]), NEW asks
  PROVE  Pl!PlacementIsEarned(in, runs, asks)
<1>. DEFINE stats == [b \in {"gpu", "cpu"} |-> Pl!LearnAll(runs[b])]
            scores == Pl!matching_route_profile_scores(in, stats, asks)
            s == [pinned |-> in.pinned, objective |-> in.objective, preference |-> in.preference,
                  work |-> scores, free |-> in.free,
                  cost |-> [b \in {"gpu", "cpu"} |-> Pl!Charge(in.cost, in.total[b])],
                  cpu_configured |-> in.cpu_configured]
            desired == Pl!desired_placement(s)
            preferred == IF desired = None \/ in.pinned THEN None ELSE in.candidate[desired[1]]
            d == Pl!select_managed_route(in, stats, asks)
            own(b) == {i \in DOMAIN runs[b] : runs[b][i].profile = Pl!routing_profile(asks[b]) /\ runs[b][i].work # None}
            free(b) == in.free[b] >= Pl!Charge(in.cost, in.total[b]) /\ (b = "cpu" => in.cpu_configured)
            faster(b, o) ==
              /\ Cardinality(own(b)) >= MinSamples /\ Cardinality(own(o)) >= MinSamples
              /\ \E i \in own(b), j \in own(o) : Pl!meaningfully_faster(runs[b][i].work, runs[o][j].work)
<1>1. SUFFICES ASSUME d # None, d.route # in.default, in.preference = "auto"
               PROVE  /\ ~ in.pinned /\ in.objective # "quality"
                      /\ \/ faster(d.route.backend, Pl!Other(d.route.backend))
                         \/ free(d.route.backend) /\ ~ free(Pl!Other(d.route.backend))
  BY DEF Pl!PlacementIsEarned, Pl!Cardinality, Cardinality
<1>2. preferred # None /\ d.route = preferred
  <2>1. d = None \/ d.route = IF preferred # None THEN preferred ELSE in.default
    BY DEF Pl!select_managed_route
  <2>. QED  BY <1>1, <2>1
<1>3. desired # None /\ ~ in.pinned /\ d.route = in.candidate[desired[1]]
  BY <1>2
<1>. DEFINE b == desired[1]
            o == Pl!Other(b)
            ready == [gpu |-> s.free.gpu >= s.cost.gpu, cpu |-> s.cpu_configured /\ s.free.cpu >= s.cost.cpu]
<1>4. /\ in.objective # "quality" /\ b \in Backends
      /\ \/ scores.gpu # None /\ scores.cpu # None /\ Pl!meaningfully_faster(scores[b], scores[o])
         \/ ready[b] /\ ~ ready[o]
  <2>1. s.preference = "auto" /\ s.objective = in.objective /\ s.work = scores
    BY <1>1
  <2>. HIDE DEF s, scores
  <2>. QED  BY <1>3, <2>1, DesiredIsEarned
<1>5. o \in Backends
  BY DEF Backends, Pl!Other
<1>6. \A x \in Backends : ready[x] <=> free(x)
  <2>1. ready["gpu"] <=> free("gpu")
    OBVIOUS
  <2>2. ready["cpu"] <=> free("cpu")
    OBVIOUS
  <2>. QED  BY <2>1, <2>2 DEF Backends
<1>. HIDE DEF d, desired, s, ready
<1>7. d.route.backend = b
  BY <1>2, <1>3, <1>4
<1>8. CASE ready[b] /\ ~ ready[o]
  BY <1>3, <1>4, <1>5, <1>6, <1>7, <1>8
<1>9. CASE scores.gpu # None /\ scores.cpu # None /\ Pl!meaningfully_faster(scores[b], scores[o])
  <2>1. ASSUME NEW x \in Backends
        PROVE  /\ scores[x] # None
               /\ scores[x] = Pl!average_for_profile(Pl!LearnAll(runs[x]), Pl!routing_profile(asks[x]))
    <3>1. scores = [y \in {"gpu", "cpu"} |->
                      LET profile == Pl!routing_profile(asks[y])
                      IN IF profile = None THEN None ELSE Pl!average_for_profile(stats[y], profile)]
      <4>1. \/ scores = [gpu |-> None, cpu |-> None]
            \/ scores = [y \in {"gpu", "cpu"} |->
                      LET profile == Pl!routing_profile(asks[y])
                      IN IF profile = None THEN None ELSE Pl!average_for_profile(stats[y], profile)]
        BY DEF Pl!matching_route_profile_scores
      <4>. HIDE DEF scores
      <4>. QED  BY <1>9, <4>1
    <3>. HIDE DEF scores
    <3>2. scores[x] # None
      BY <1>9 DEF Backends
    <3>. QED  BY <3>1, <3>2 DEF Backends
  <2>2. ASSUME NEW x \in Backends
        PROVE  /\ scores[x] \in Nat /\ Cardinality(own(x)) >= MinSamples
               /\ \E i \in own(x) : runs[x][i].work \in Nat /\ runs[x][i].work <= scores[x]
               /\ \E i \in own(x) : runs[x][i].work \in Nat /\ scores[x] <= runs[x][i].work
    <3>1. IsHistory(runs[x])
      OBVIOUS
    <3>2. own(x) = Measured(runs[x], Len(runs[x]), Pl!routing_profile(asks[x]))
      <4>1. DOMAIN runs[x] = 1..Len(runs[x])
        BY <3>1 DEF IsHistory
      <4>. QED  BY <4>1 DEF Measured
    <3>. HIDE DEF scores, own
    <3>3. /\ scores[x] \in Nat /\ MinSamples <= Cardinality(own(x))
          /\ \E i \in own(x) : runs[x][i].work \in Nat /\ runs[x][i].work <= scores[x]
          /\ \E i \in own(x) : runs[x][i].work \in Nat /\ scores[x] <= runs[x][i].work
      BY <2>1, <3>1, <3>2, AverageIsBetween
    <3>. QED  BY <3>3
  <2>. HIDE DEF scores, own, b, o
  <2>3. PICK i \in own(b) : runs[b][i].work \in Nat /\ runs[b][i].work <= scores[b]
    BY <1>4, <2>2
  <2>4. PICK j \in own(o) : runs[o][j].work \in Nat /\ scores[o] <= runs[o][j].work
    BY <1>5, <2>2
  <2>5. scores[b] \in Nat /\ scores[o] \in Nat
    BY <1>4, <1>5, <2>2
  <2>6. Pl!meaningfully_faster(runs[b][i].work, runs[o][j].work)
    BY <1>9, <2>3, <2>4, <2>5, FasterOnAverage
  <2>7. faster(b, o)
    BY <1>4, <1>5, <2>2, <2>3, <2>4, <2>6
  <2>. QED  BY <1>3, <1>4, <1>7, <2>7 DEF o
<1>. QED  BY <1>4, <1>8, <1>9

-----------------------------------------------------------------------------
(* What a set of runners frees and costs *)

\* As many things as the numbers of f say, for the elements of S.
Pile(S, f) == UNION {{x} \X (1..f[x]) : x \in S}

\* The sum of no numbers, and of one more.
LEMMA PileGrows ==
  ASSUME NEW R, IsFiniteSet(R), NEW f \in [R -> Nat]
  PROVE  /\ Cardinality(Pile({}, f)) = 0
         /\ \A S \in SUBSET R :
              /\ IsFiniteSet(Pile(S, f)) /\ Cardinality(Pile(S, f)) \in Nat
              /\ \A x \in S : Cardinality(Pile(S, f)) = f[x] + Cardinality(Pile(S \ {x}, f))
              /\ \A T \in SUBSET S : Cardinality(Pile(T, f)) <= Cardinality(Pile(S, f))
<1>. DEFINE One(x) == {x} \X (1..f[x])
<1>1. ASSUME NEW x \in R
      PROVE  IsFiniteSet(One(x)) /\ Cardinality(One(x)) = f[x]
  <2>1. f[x] \in Nat /\ 1 \in Int /\ f[x] \in Int
    OBVIOUS
  <2>2. IsFiniteSet(1..f[x]) /\ Cardinality(1..f[x]) = f[x]
    BY <2>1, FS_Interval
  <2>3. IsFiniteSet({x}) /\ Cardinality({x}) = 1
    BY FS_Singleton
  <2>4. IsFiniteSet(One(x)) /\ Cardinality(One(x)) = Cardinality({x}) * Cardinality(1..f[x])
    BY <2>2, <2>3, FS_Product, Zenon
  <2>5. Cardinality({x}) * Cardinality(1..f[x]) = 1 * f[x]
    BY <2>2, <2>3
  <2>. QED  BY <2>1, <2>4, <2>5
<1>2. ASSUME NEW S \in SUBSET R
      PROVE  IsFiniteSet(Pile(S, f)) /\ Cardinality(Pile(S, f)) \in Nat
  <2>. DEFINE T == {One(x) : x \in S}
              h == [x \in S |-> One(x)]
  <2>1. IsFiniteSet(S)
    BY FS_Subset
  <2>2. h \in Surjection(S, T)
    BY DEF Surjection
  <2>3. IsFiniteSet(T)
    BY <2>1, <2>2, FS_Surjection
  <2>4. \A U \in T : IsFiniteSet(U)
    BY <1>1
  <2>5. IsFiniteSet(UNION T)
    <3>. HIDE DEF T
    <3>. QED  BY <2>3, <2>4, FS_UNION
  <2>6. Pile(S, f) = UNION T
    BY DEF Pile
  <2>. QED  BY <2>5, <2>6, FS_CardinalityType
<1>3. ASSUME NEW S \in SUBSET R, NEW x \in S
      PROVE  Cardinality(Pile(S, f)) = f[x] + Cardinality(Pile(S \ {x}, f))
  <2>1. Pile(S, f) = One(x) \cup Pile(S \ {x}, f) /\ One(x) \cap Pile(S \ {x}, f) = {}
    BY DEF Pile
  <2>2. /\ IsFiniteSet(One(x)) /\ Cardinality(One(x)) = f[x] /\ f[x] \in Nat
        /\ IsFiniteSet(Pile(S \ {x}, f)) /\ Cardinality(Pile(S \ {x}, f)) \in Nat
    BY <1>1, <1>2
  <2>3. Cardinality(One(x) \cap Pile(S \ {x}, f)) = 0
    BY <2>1, FS_EmptySet
  <2>4. Cardinality(One(x) \cup Pile(S \ {x}, f))
          = Cardinality(One(x)) + Cardinality(Pile(S \ {x}, f)) - Cardinality(One(x) \cap Pile(S \ {x}, f))
    <3>. HIDE DEF One
    <3>. QED  BY <2>2, FS_Union
  <2>. HIDE DEF One
  <2>. QED  BY <2>1, <2>2, <2>3, <2>4
<1>4. ASSUME NEW S \in SUBSET R, NEW T \in SUBSET S
      PROVE  Cardinality(Pile(T, f)) <= Cardinality(Pile(S, f))
  <2>1. Pile(T, f) \in SUBSET Pile(S, f)
    BY DEF Pile
  <2>. QED  BY <1>2, <2>1, FS_Subset
<1>5. Cardinality(Pile({}, f)) = 0
  <2>1. Pile({}, f) = {}
    BY DEF Pile
  <2>. QED  BY <2>1, FS_EmptySet
<1>. QED  BY <1>2, <1>3, <1>4, <1>5

\* g adds up the numbers of f over the subsets of S, one element after the other.
AddsUp(S, f, g) ==
  g = [s \in SUBSET S |-> IF s = {} THEN 0 ELSE f[CHOOSE x \in s : TRUE] + g[s \ {CHOOSE x \in s : TRUE}]]

\* There is such a function, and it does not depend on the order.
LEMMA AddedUp ==
  ASSUME NEW R, IsFiniteSet(R), NEW f \in [R -> Nat], NEW S \in SUBSET R
  PROVE  /\ \E g : AddsUp(S, f, g)
         /\ \A g : AddsUp(S, f, g) => g[S] = Cardinality(Pile(S, f))
<1>. DEFINE pick(s) == CHOOSE x \in s : TRUE
<1>0. \A s : s # {} => pick(s) \in s
  OBVIOUS
<1>. HIDE DEF pick
<1>1. \E g : AddsUp(S, f, g)
  <2>. DEFINE g == [s \in SUBSET S |-> Cardinality(Pile(s, f))]
  <2>1. ASSUME NEW s \in SUBSET S
        PROVE  g[s] = IF s = {} THEN 0 ELSE f[pick(s)] + g[s \ {pick(s)}]
    <3>1. CASE s = {}
      BY <3>1, PileGrows
    <3>2. CASE s # {}
      <4>1. pick(s) \in s /\ s \in SUBSET R /\ s \ {pick(s)} \in SUBSET S
        BY <1>0, <3>2
      <4>2. Cardinality(Pile(s, f)) = f[pick(s)] + Cardinality(Pile(s \ {pick(s)}, f))
        BY <4>1, PileGrows
      <4>. QED  BY <3>2, <4>1, <4>2
    <3>. QED  BY <3>1, <3>2
  <2>2. g = [s \in SUBSET S |-> g[s]]
    OBVIOUS
  <2>. HIDE DEF g
  <2>3. g = [s \in SUBSET S |-> IF s = {} THEN 0 ELSE f[pick(s)] + g[s \ {pick(s)}]]
    BY <2>1, <2>2
  <2>4. AddsUp(S, f, g)
    BY <2>3 DEF AddsUp, pick
  <2>. QED  BY <2>4
<1>2. ASSUME NEW g, AddsUp(S, f, g)
      PROVE  g[S] = Cardinality(Pile(S, f))
  <2>1. IsFiniteSet(S) /\ Cardinality(S) \in Nat
    BY FS_Subset, FS_CardinalityType
  <2>. DEFINE n == Cardinality(S)
              Good == {k \in 0..n : \A s \in SUBSET S : Cardinality(s) = k => g[s] = Cardinality(Pile(s, f))}
  <2>2. \A s \in SUBSET S : g[s] = IF s = {} THEN 0 ELSE f[pick(s)] + g[s \ {pick(s)}]
    BY <1>2 DEF AddsUp, pick
  <2>3. 0 \in Good
    <3>1. ASSUME NEW s \in SUBSET S, Cardinality(s) = 0 PROVE g[s] = Cardinality(Pile(s, f))
      <4>1. s = {}
        BY <2>1, <3>1, FS_Subset, FS_EmptySet
      <4>. QED  BY <2>2, <4>1, PileGrows
    <3>2. 0 \in 0..n
      BY <2>1
    <3>. QED  BY <3>1, <3>2
  <2>4. ASSUME NEW k \in 1..n, k - 1 \in Good PROVE k \in Good
    <3>1. ASSUME NEW s \in SUBSET S, Cardinality(s) = k PROVE g[s] = Cardinality(Pile(s, f))
      <4>1. IsFiniteSet(s) /\ s # {}
        <5>1. IsFiniteSet(s)
          BY <2>1, FS_Subset
        <5>2. k # 0
          BY <2>4
        <5>. QED  BY <3>1, <5>1, <5>2, FS_EmptySet
      <4>2. pick(s) \in s /\ s \ {pick(s)} \in SUBSET S /\ s \in SUBSET R
        BY <1>0, <4>1
      <4>3. Cardinality(s \ {pick(s)}) = k - 1
        BY <3>1, <4>1, <4>2, FS_RemoveElement
      <4>4. g[s \ {pick(s)}] = Cardinality(Pile(s \ {pick(s)}, f))
        BY <2>4, <4>2, <4>3
      <4>5. Cardinality(Pile(s, f)) = f[pick(s)] + Cardinality(Pile(s \ {pick(s)}, f))
        BY <4>2, PileGrows
      <4>. QED  BY <2>2, <4>1, <4>4, <4>5
    <3>2. k \in 0..n
      BY <2>1
    <3>. QED  BY <3>1, <3>2
  <2>5. n \in Good
    <3>1. n \in Nat /\ n \in 0..n
      BY <2>1
    <3>. HIDE DEF Good, n
    <3>2. \A k \in 0..n : k \in Good
      BY <2>3, <2>4, <3>1, UpTo
    <3>. QED  BY <3>1, <3>2
  <2>. QED  BY <2>5
<1>. QED  BY <1>1, <1>2

\* What a set of runners frees is the sum of what each frees ...
LEMMA BytesAre ==
  ASSUME NEW R, IsFiniteSet(R), NEW freed, \A r \in R : Re!Freed(r, freed) \in Nat, NEW S \in SUBSET R
  PROVE  Re!Bytes(S, freed) = Cardinality(Pile(S, [r \in R |-> Re!Freed(r, freed)]))
<1>. DEFINE f == [r \in R |-> Re!Freed(r, freed)]
            Is(iter) == iter = [s \in SUBSET S |->
                          IF s = {} THEN 0
                          ELSE LET x == CHOOSE x \in s : TRUE IN Re!Freed(x, freed) + iter[s \ {x}]]
<1>1. f \in [R -> Nat]
  OBVIOUS
<1>2. \A s \in SUBSET S : s # {} => (CHOOSE x \in s : TRUE) \in R
  OBVIOUS
<1>3. ASSUME NEW g PROVE Is(g) <=> AddsUp(S, f, g)
  <2>1. \A s \in SUBSET S :
          (IF s = {} THEN 0 ELSE LET x == CHOOSE x \in s : TRUE IN Re!Freed(x, freed) + g[s \ {x}])
            = (IF s = {} THEN 0 ELSE f[CHOOSE x \in s : TRUE] + g[s \ {CHOOSE x \in s : TRUE}])
    BY <1>2
  <2>. HIDE DEF f
  <2>. QED  BY <2>1 DEF AddsUp
<1>4. Re!Bytes(S, freed) = (CHOOSE iter : Is(iter))[S]
  BY DEF Re!Bytes, Re!MapThenSumSet, Re!MapThenFoldSet
<1>. HIDE DEF Is, f
<1>5. \E g : Is(g)
  BY <1>1, <1>3, AddedUp
<1>6. Is(CHOOSE iter : Is(iter))
  BY <1>5
<1>7. (CHOOSE iter : Is(iter))[S] = Cardinality(Pile(S, f))
  BY <1>1, <1>3, <1>6, AddedUp
<1>. QED  BY <1>4, <1>7 DEF f

\* ... and what it costs the sum of what each costs.
LEMMA CostIs ==
  ASSUME NEW R, IsFiniteSet(R), \A r \in R : Re!cost(r) \in Nat, NEW S \in SUBSET R
  PROVE  Re!Cost(S) = Cardinality(Pile(S, [r \in R |-> Re!cost(r)]))
<1>. DEFINE f == [r \in R |-> Re!cost(r)]
            Is(iter) == iter = [s \in SUBSET S |->
                          IF s = {} THEN 0
                          ELSE LET x == CHOOSE x \in s : TRUE IN Re!cost(x) + iter[s \ {x}]]
<1>1. f \in [R -> Nat]
  OBVIOUS
<1>2. \A s \in SUBSET S : s # {} => (CHOOSE x \in s : TRUE) \in R
  OBVIOUS
<1>3. ASSUME NEW g PROVE Is(g) <=> AddsUp(S, f, g)
  <2>1. \A s \in SUBSET S :
          (IF s = {} THEN 0 ELSE LET x == CHOOSE x \in s : TRUE IN Re!cost(x) + g[s \ {x}])
            = (IF s = {} THEN 0 ELSE f[CHOOSE x \in s : TRUE] + g[s \ {CHOOSE x \in s : TRUE}])
    BY <1>2
  <2>. HIDE DEF f
  <2>. QED  BY <2>1 DEF AddsUp
<1>4. Re!Cost(S) = (CHOOSE iter : Is(iter))[S]
  BY DEF Re!Cost, Re!MapThenSumSet, Re!MapThenFoldSet
<1>. HIDE DEF Is, f
<1>5. \E g : Is(g)
  BY <1>1, <1>3, AddedUp
<1>6. Is(CHOOSE iter : Is(iter))
  BY <1>5
<1>7. (CHOOSE iter : Is(iter))[S] = Cardinality(Pile(S, f))
  BY <1>1, <1>3, <1>6, AddedUp
<1>. QED  BY <1>4, <1>7 DEF f

\* What a runner frees and costs are numbers.
LEMMA RunnersHaveSizes ==
  ASSUME NEW ps, IsRunnerSet(ps), NEW r \in ps
  PROVE  /\ \A freed \in {"total", "vram", "spill"} : Re!Freed(r, freed) \in Nat
         /\ Re!cost(r) \in Nat /\ r.name \in Nat
<1>1. r.name \in Nat /\ r.size \in Nat /\ r.vram \in Nat /\ r.weight \in Nat /\ r.uses \in Nat /\ r.load \in Option(Nat)
  BY DEF IsRunnerSet
<1>2. \A freed \in {"total", "vram", "spill"} : Re!Freed(r, freed) \in Nat
  BY <1>1 DEF Re!Freed, Re!Minus
<1>3. Re!AtLeast(Re!reload(r), 1) \in Nat
  BY <1>1 DEF Re!AtLeast, Re!reload, Option
<1>4. \A x, y, z \in Nat : x * y * (1 + z) \in Nat
  OBVIOUS
<1>5. Re!cost(r) \in Nat
  BY <1>1, <1>3, <1>4 DEF Re!cost
<1>. QED  BY <1>1, <1>2, <1>5

\* The sums of runners grow with the set.
LEMMA SumsGrow ==
  ASSUME NEW ps, IsRunnerSet(ps), NEW freed \in {"total", "vram", "spill"}
  PROVE  /\ Re!Bytes({}, freed) = 0
         /\ \A S \in SUBSET ps :
              /\ Re!Bytes(S, freed) \in Nat /\ Re!Cost(S) \in Nat
              /\ \A T \in SUBSET S : Re!Bytes(T, freed) <= Re!Bytes(S, freed) /\ Re!Cost(T) <= Re!Cost(S)
<1>. DEFINE f == [r \in ps |-> Re!Freed(r, freed)]
            c == [r \in ps |-> Re!cost(r)]
<1>1. IsFiniteSet(ps)
  BY DEF IsRunnerSet
<1>2. f \in [ps -> Nat] /\ c \in [ps -> Nat]
  BY RunnersHaveSizes
<1>3. \A S \in SUBSET ps : Re!Bytes(S, freed) = Cardinality(Pile(S, f))
  BY <1>1, RunnersHaveSizes, BytesAre
<1>4. \A S \in SUBSET ps : Re!Cost(S) = Cardinality(Pile(S, c))
  BY <1>1, RunnersHaveSizes, CostIs
<1>. HIDE DEF f, c
<1>5. Re!Bytes({}, freed) = 0
  BY <1>1, <1>2, <1>3, PileGrows
<1>6. ASSUME NEW S \in SUBSET ps
      PROVE  /\ Re!Bytes(S, freed) \in Nat /\ Re!Cost(S) \in Nat
             /\ \A T \in SUBSET S : Re!Bytes(T, freed) <= Re!Bytes(S, freed) /\ Re!Cost(T) <= Re!Cost(S)
  <2>1. Cardinality(Pile(S, f)) \in Nat /\ Cardinality(Pile(S, c)) \in Nat
    BY <1>1, <1>2, PileGrows
  <2>2. ASSUME NEW T \in SUBSET S
        PROVE  Cardinality(Pile(T, f)) <= Cardinality(Pile(S, f)) /\ Cardinality(Pile(T, c)) <= Cardinality(Pile(S, c))
    BY <1>1, <1>2, PileGrows
  <2>3. \A T \in SUBSET S : T \in SUBSET ps
    OBVIOUS
  <2>. QED  BY <1>3, <1>4, <2>1, <2>2, <2>3
<1>. QED  BY <1>5, <1>6

-----------------------------------------------------------------------------
(* The exact search *)

\* While a set is large enough, one of those of least cost, fewest runners and least
\* excess is, and the search returns one.
LEMMA CheapestIsFound ==
  ASSUME NEW ps, IsRunnerSet(ps), NEW C \in SUBSET ps, NEW in,
         in.freed \in {"total", "vram", "spill"}, in.shortfall \in Nat \ {0},
         Re!Bytes(C, in.freed) >= in.shortfall
  PROVE  /\ Re!cheapest_covering_set(C, in) \in Re!Covering(C, in)
         /\ \A T \in Re!Covering(C, in) : ~ Re!Better(T, Re!cheapest_covering_set(C, in), in)
<1>. DEFINE Cov    == Re!Covering(C, in)
            Card(S) == Re!Cardinality(S)
            Costs  == {Re!Cost(S) : S \in Cov}
<1>1. /\ \A S \in Cov : Re!Cost(S) \in Nat /\ Card(S) \in Nat /\ Re!Bytes(S, in.freed) \in Nat
      /\ Cov # {}
  <2>1. C # {}
    BY SumsGrow
  <2>2. C \in Cov
    BY <2>1 DEF Re!Covering
  <2>3. ASSUME NEW S \in Cov PROVE Re!Cost(S) \in Nat /\ Card(S) \in Nat /\ Re!Bytes(S, in.freed) \in Nat
    <3>1. S \in SUBSET ps
      BY DEF Re!Covering
    <3>2. Cardinality(S) \in Nat
      BY <3>1, FS_Subset, FS_CardinalityType DEF IsRunnerSet
    <3>. QED  BY <3>1, <3>2, SumsGrow DEF Re!Cardinality, Cardinality
  <2>. HIDE DEF Cov, Card
  <2>. QED  BY <2>2, <2>3
<1>. HIDE DEF Cov, Card
<1>2. PICK c \in Costs : \A o \in Costs : c <= o
  <2>1. Costs \in SUBSET Nat /\ Costs # {}
    BY <1>1
  <2>. HIDE DEF Costs
  <2>. QED  BY <2>1, LeastOfNumbers
<1>. DEFINE Low    == {S \in Cov : Re!Cost(S) = c}
            Counts == {Card(S) : S \in Low}
<1>3. Low # {}
  BY <1>2
<1>4. PICK n \in Counts : \A o \in Counts : n <= o
  <2>1. Counts \in SUBSET Nat /\ Counts # {}
    BY <1>1, <1>3
  <2>. HIDE DEF Counts
  <2>. QED  BY <2>1, LeastOfNumbers
<1>. DEFINE Few   == {S \in Low : Card(S) = n}
            Sizes == {Re!Bytes(S, in.freed) : S \in Few}
<1>5. Few # {}
  BY <1>4
<1>6. PICK b \in Sizes : \A o \in Sizes : b <= o
  <2>1. Sizes \in SUBSET Nat /\ Sizes # {}
    BY <1>1, <1>5
  <2>. HIDE DEF Sizes
  <2>. QED  BY <2>1, LeastOfNumbers
<1>7. PICK V \in Few : Re!Bytes(V, in.freed) = b
  BY <1>6
<1>8. ASSUME NEW T \in Cov, Re!Better(T, V, in) PROVE FALSE
  <2>1. /\ Re!Cost(T) \in Nat /\ Card(T) \in Nat /\ Re!Bytes(T, in.freed) \in Nat
        /\ Re!Cost(V) \in Nat /\ Card(V) \in Nat /\ Re!Bytes(V, in.freed) \in Nat
        /\ Re!Cost(V) = c /\ Card(V) = n
    BY <1>1
  <2>2. ~ (Re!Cost(T) < c)
    BY <1>2, <2>1
  <2>3. \/ Re!Cost(T) < c
        \/ Re!Cost(T) = c /\ Card(T) < n
        \/ Re!Cost(T) = c /\ Card(T) = n /\ Re!Bytes(T, in.freed) < b
    BY <1>7, <1>8, <2>1 DEF Re!Better, Card
  <2>4. T \in Low
    BY <2>2, <2>3
  <2>5. ~ (Card(T) < n)
    BY <1>4, <2>1, <2>4
  <2>6. T \in Few
    BY <2>2, <2>3, <2>4, <2>5
  <2>7. ~ (Re!Bytes(T, in.freed) < b)
    BY <1>6, <1>7, <2>1, <2>6
  <2>. QED  BY <2>2, <2>3, <2>5, <2>7
<1>9. V \in Cov
  OBVIOUS
<1>. DEFINE Best(S) == \A T \in Cov : ~ Re!Better(T, S, in)
<1>10. \E S \in Cov : Best(S)
  BY <1>8, <1>9
<1>11. Re!cheapest_covering_set(C, in) = CHOOSE S \in Cov : Best(S)
  BY DEF Re!cheapest_covering_set, Cov
<1>. HIDE DEF Best
<1>12. (CHOOSE S \in Cov : Best(S)) \in Cov /\ Best(CHOOSE S \in Cov : Best(S))
  BY <1>10
<1>. QED  BY <1>11, <1>12 DEF Best, Cov

\* What it returns is large enough, and not without any one of its runners.
LEMMA CheapestIsNeeded ==
  ASSUME NEW ps, IsRunnerSet(ps), NEW C \in SUBSET ps, NEW in,
         in.freed \in {"total", "vram", "spill"}, in.shortfall \in Nat \ {0},
         Re!Bytes(C, in.freed) >= in.shortfall
  PROVE  LET V == Re!cheapest_covering_set(C, in)
         IN  /\ Re!Bytes(V, in.freed) >= in.shortfall
             /\ \A r \in V : Re!Bytes(V \ {r}, in.freed) < in.shortfall
<1>. DEFINE V == Re!cheapest_covering_set(C, in)
<1>1. V \in Re!Covering(C, in) /\ \A T \in Re!Covering(C, in) : ~ Re!Better(T, V, in)
  BY CheapestIsFound
<1>. HIDE DEF V
<1>2. V \in SUBSET C /\ Re!Bytes(V, in.freed) >= in.shortfall
  BY <1>1 DEF Re!Covering
<1>3. ASSUME NEW r \in V, ~ (Re!Bytes(V \ {r}, in.freed) < in.shortfall) PROVE FALSE
  <2>. DEFINE T == V \ {r}
  <2>1. V \in SUBSET ps /\ T \in SUBSET ps /\ T \in SUBSET V /\ T \in SUBSET C
    BY <1>2
  <2>2. /\ Re!Cost(T) \in Nat /\ Re!Cost(V) \in Nat /\ Re!Cost(T) <= Re!Cost(V)
        /\ Re!Bytes(T, in.freed) \in Nat /\ Re!Bytes({}, in.freed) = 0
    BY <2>1, SumsGrow
  <2>3. Re!Bytes(T, in.freed) >= in.shortfall
    BY <1>3, <2>2
  <2>4. T \in Re!Covering(C, in)
    <3>1. T # {}
      BY <2>2, <2>3
    <3>. QED  BY <2>1, <2>3, <3>1 DEF Re!Covering
  <2>5. Re!Cardinality(T) < Re!Cardinality(V)
    <3>1. IsFiniteSet(V)
      BY <2>1, FS_Subset DEF IsRunnerSet
    <3>2. Cardinality(V) \in Nat /\ Cardinality(T) = Cardinality(V) - 1
      BY <3>1, FS_RemoveElement, FS_CardinalityType
    <3>3. Re!Cardinality(T) = Cardinality(T) /\ Re!Cardinality(V) = Cardinality(V)
      BY DEF Re!Cardinality, Cardinality
    <3>. QED  BY <3>2, <3>3
  <2>6. Re!Better(T, V, in)
    BY <2>2, <2>5 DEF Re!Better
  <2>. QED  BY <1>1, <2>4, <2>6
<1>. QED  BY <1>2, <1>3 DEF V

-----------------------------------------------------------------------------
(* The greedy search *)

\* Comparing fractions by their cross products is transitive.
LEMMA Fractions ==
  ASSUME NEW x \in Nat, NEW y \in Nat, NEW z \in Nat,
         NEW p \in Nat \ {0}, NEW q \in Nat \ {0}, NEW r \in Nat \ {0},
         x * q <= y * p, y * r <= z * q
  PROVE  /\ x * r <= z * p
         /\ x * q < y * p \/ y * r < z * q => x * r < z * p
<1>1. /\ x * q \in Nat /\ y * p \in Nat /\ y * r \in Nat /\ z * q \in Nat /\ x * r \in Nat /\ z * p \in Nat
  OBVIOUS
<1>2. \A a, b, s \in Nat : s > 0 /\ a < b => a * s < b * s
  <2>. TAKE a, b, s \in Nat
  <2>. HAVE s > 0 /\ a < b
  <2>1. a + 1 \in Nat /\ (a + 1) * s <= b * s
    BY Products
  <2>2. (a + 1) * s = a * s + s
    OBVIOUS
  <2>3. a * s \in Nat /\ b * s \in Nat
    OBVIOUS
  <2>. QED  BY <2>1, <2>2, <2>3
<1>3. (x * q) * r <= (y * p) * r /\ (y * r) * p <= (z * q) * p
  BY <1>1, Products
<1>4. x * q < y * p => (x * q) * r < (y * p) * r
  BY <1>1, <1>2
<1>5. y * r < z * q => (y * r) * p < (z * q) * p
  BY <1>1, <1>2
<1>6. /\ (x * q) * r = (x * r) * q /\ (y * p) * r = (y * r) * p /\ (z * q) * p = (z * p) * q
      /\ (x * r) * q \in Nat /\ (y * r) * p \in Nat /\ (z * p) * q \in Nat
  OBVIOUS
<1>7. z * p < x * r => (z * p) * q < (x * r) * q
  BY <1>1, <1>2
<1>8. x * r = z * p => (x * r) * q = (z * p) * q
  OBVIOUS
<1>. QED  BY <1>1, <1>3, <1>4, <1>5, <1>6, <1>7, <1>8

\* Runners that free something are ordered by cost per byte.
LEMMA CheaperIsOrder ==
  ASSUME NEW ps, IsRunnerSet(ps), NEW in, in.freed \in {"total", "vram", "spill"},
         NEW a \in ps, NEW b \in ps, NEW c \in ps,
         \A r \in {a, b, c} : Re!Freed(r, in.freed) # 0
  PROVE  /\ ~ Re!Cheaper(a, a, in)
         /\ Re!Cheaper(a, b, in) /\ Re!Cheaper(b, c, in) => Re!Cheaper(a, c, in)
<1>. DEFINE x == Re!cost(a)  p == Re!Freed(a, in.freed)
            y == Re!cost(b)  q == Re!Freed(b, in.freed)
            z == Re!cost(c)  r == Re!Freed(c, in.freed)
<1>1. /\ x \in Nat /\ y \in Nat /\ z \in Nat
      /\ p \in Nat \ {0} /\ q \in Nat \ {0} /\ r \in Nat \ {0}
      /\ a.name \in Nat /\ b.name \in Nat /\ c.name \in Nat
  BY RunnersHaveSizes
<1>2. /\ Re!Cheaper(a, a, in) <=> (x * p < x * p \/ (x * p = x * p /\ a.name < a.name))
      /\ Re!Cheaper(a, b, in) <=> (x * q < y * p \/ (x * q = y * p /\ a.name < b.name))
      /\ Re!Cheaper(b, c, in) <=> (y * r < z * q \/ (y * r = z * q /\ b.name < c.name))
      /\ Re!Cheaper(a, c, in) <=> (x * r < z * p \/ (x * r = z * p /\ a.name < c.name))
  BY DEF Re!Cheaper
<1>. HIDE DEF x, y, z, p, q, r
<1>3. /\ x * p \in Nat /\ x * q \in Nat /\ y * p \in Nat /\ y * r \in Nat
      /\ z * q \in Nat /\ x * r \in Nat /\ z * p \in Nat
  BY <1>1, Products
<1>4. ~ Re!Cheaper(a, a, in)
  BY <1>1, <1>2, <1>3
<1>5. ASSUME Re!Cheaper(a, b, in), Re!Cheaper(b, c, in) PROVE Re!Cheaper(a, c, in)
  <2>1. x * q <= y * p /\ y * r <= z * q
    BY <1>2, <1>3, <1>5
  <2>2. x * r <= z * p /\ (x * q < y * p \/ y * r < z * q => x * r < z * p)
    BY <1>1, <2>1, Fractions
  <2>3. CASE x * q < y * p \/ y * r < z * q
    BY <1>2, <2>2, <2>3
  <2>4. CASE ~ (x * q < y * p \/ y * r < z * q)
    BY <1>1, <1>2, <1>3, <1>5, <2>2, <2>4
  <2>. QED  BY <2>3, <2>4
<1>. QED  BY <1>4, <1>5

\* The runners the greedy search takes are large enough: those before the first it does
\* not take are, and it takes all of them.
LEMMA GreedyIsEnough ==
  ASSUME NEW ps, IsRunnerSet(ps), NEW C \in SUBSET ps, NEW in,
         in.freed \in {"total", "vram", "spill"}, in.shortfall \in Nat,
         \A r \in C : Re!Freed(r, in.freed) # 0,
         Re!Bytes(C, in.freed) >= in.shortfall
  PROVE  Re!Bytes(Re!greedy_covering_set(C, in), in.freed) >= in.shortfall
<1>. DEFINE V == Re!greedy_covering_set(C, in)
            Before(r) == {o \in C : Re!Cheaper(o, r, in)}
<1>1. V = {r \in C : Re!Bytes(Before(r), in.freed) < in.shortfall}
  BY DEF Re!greedy_covering_set
<1>2. CASE V = C
  BY <1>2
<1>3. CASE V # C
  <2>. DEFINE Counts == {Cardinality(Before(r)) : r \in C \ V}
  <2>1. \A r \in C : IsFiniteSet(Before(r)) /\ Cardinality(Before(r)) \in Nat
    <3>1. IsFiniteSet(C)
      BY FS_Subset DEF IsRunnerSet
    <3>2. \A r \in C : Before(r) \in SUBSET C
      OBVIOUS
    <3>. HIDE DEF Before
    <3>. QED  BY <3>1, <3>2, FS_Subset, FS_CardinalityType
  <2>2. C \ V # {}
    BY <1>1, <1>3
  <2>3. Counts \in SUBSET Nat /\ Counts # {}
    <3>. HIDE DEF V, Before
    <3>. QED  BY <2>1, <2>2
  <2>4. PICK n \in Counts : \A o \in Counts : n <= o
    <3>. HIDE DEF Counts
    <3>. QED  BY <2>3, LeastOfNumbers
  <2>5. PICK r \in C \ V : Cardinality(Before(r)) = n
    BY <2>4
  <2>6. ASSUME NEW o \in Before(r) PROVE o \in V
    <3>1. o \in C /\ Re!Cheaper(o, r, in)
      OBVIOUS
    <3>2. o \notin Before(o) /\ Before(o) \subseteq Before(r)
      <4>1. ASSUME NEW q \in Before(o) PROVE q \in Before(r)
        <5>1. q \in C /\ q \in ps /\ o \in ps /\ r \in ps /\ r \in C
          BY <3>1
        <5>2. \A u \in {q, o, r} : Re!Freed(u, in.freed) # 0
          BY <3>1, <5>1
        <5>3. Re!Cheaper(q, r, in)
          BY <3>1, <5>1, <5>2, CheaperIsOrder
        <5>. QED  BY <5>1, <5>3
      <4>2. ~ Re!Cheaper(o, o, in)
        BY <3>1, CheaperIsOrder
      <4>. QED  BY <4>1, <4>2
    <3>3. Cardinality(Before(o)) < Cardinality(Before(r))
      <4>. HIDE DEF Before
      <4>1. IsFiniteSet(Before(r)) /\ Cardinality(Before(r)) \in Nat /\ Cardinality(Before(o)) \in Nat
        BY <2>1, <2>5, <3>1
      <4>2. Before(o) \in SUBSET Before(r) /\ Before(o) # Before(r)
        BY <3>2
      <4>3. Cardinality(Before(o)) <= Cardinality(Before(r)) /\ Cardinality(Before(o)) # Cardinality(Before(r))
        BY <4>1, <4>2, FS_Subset
      <4>. QED  BY <4>1, <4>3
    <3>. QED
      <4>. HIDE DEF Before, V
      <4>1. Cardinality(Before(o)) \in Nat /\ Cardinality(Before(r)) \in Nat
        BY <2>1, <2>5, <3>1
      <4>2. o \notin V => Cardinality(Before(o)) \in Counts
        BY <3>1
      <4>. QED  BY <2>4, <2>5, <3>3, <4>1, <4>2
  <2>7. Before(r) \in SUBSET V /\ V \in SUBSET ps
    BY <1>1, <2>6
  <2>8. ~ (Re!Bytes(Before(r), in.freed) < in.shortfall)
    BY <1>1, <2>5
  <2>9. Re!Bytes(V, in.freed) \in Nat /\ Re!Bytes(Before(r), in.freed) \in Nat
        /\ Re!Bytes(Before(r), in.freed) <= Re!Bytes(V, in.freed)
    <3>. HIDE DEF V, Before
    <3>1. Before(r) \in SUBSET ps
      BY <2>7
    <3>. QED  BY <2>7, <3>1, SumsGrow
  <2>. HIDE DEF V, Before
  <2>10. Re!Bytes(V, in.freed) >= in.shortfall
    BY <2>8, <2>9
  <2>. QED  BY <2>10 DEF V
<1>. QED  BY <1>2, <1>3

-----------------------------------------------------------------------------
(* The plan *)

\* A round that can free what it is asked for does, and if it searched exactly, it
\* names no runner it could do without.
LEMMA PlanIsNeeded ==
  ASSUME NEW ps, IsRunnerSet(ps), NEW in,
         in.freed \in {"total", "vram", "spill"}, in.shortfall \in Nat,
         Re!plan(ps, in).covers
  PROVE  LET victims == Re!plan(ps, in).victims
         IN  /\ Re!Bytes(victims, in.freed) >= in.shortfall
             /\ Re!Cardinality(Re!Candidates(ps, in)) <= MaxExactCandidates =>
                  \A r \in victims : Re!Bytes(victims \ {r}, in.freed) < in.shortfall
<1>. DEFINE able == Re!Candidates(ps, in)
            victims == Re!plan(ps, in).victims
            exact == Re!Cardinality(able) <= MaxExactCandidates
<1>1. able \in SUBSET ps /\ \A r \in able : Re!Freed(r, in.freed) # 0
  BY RoomAssumption DEF Re!Candidates, Re!Skipped, Refusals
<1>2. Re!Bytes(able, in.freed) \in Nat /\ Re!Bytes({}, in.freed) = 0
  BY <1>1, SumsGrow
<1>3. Re!Bytes(able, in.freed) >= in.shortfall
  BY DEF Re!plan
<1>. DEFINE Enough(S) == Re!Bytes(S, in.freed) >= in.shortfall
            Needed(S) == \A r \in S : Re!Bytes(S \ {r}, in.freed) < in.shortfall
<1>4. ASSUME in.shortfall = 0 PROVE Enough(victims) /\ Needed(victims)
  <2>1. victims = {}
    BY <1>4 DEF Re!plan
  <2>. HIDE DEF victims
  <2>. QED  BY <1>2, <1>4, <2>1
<1>5. ASSUME in.shortfall > 0, exact
      PROVE  Enough(victims) /\ Needed(victims)
  <2>1. victims = Re!cheapest_covering_set(able, in)
    BY <1>2, <1>3, <1>5 DEF Re!plan
  <2>2. Enough(Re!cheapest_covering_set(able, in)) /\ Needed(Re!cheapest_covering_set(able, in))
    <3>1. in.shortfall \in Nat \ {0}
      BY <1>5
    <3>. HIDE DEF able
    <3>. QED  BY <1>1, <1>3, <3>1, CheapestIsNeeded
  <2>. HIDE DEF able, victims, Enough, Needed
  <2>. QED  BY <2>1, <2>2
<1>6. ASSUME in.shortfall > 0, ~ exact
      PROVE  Enough(victims)
  <2>1. victims = Re!greedy_covering_set(able, in)
    BY <1>2, <1>3, <1>6 DEF Re!plan
  <2>2. Enough(Re!greedy_covering_set(able, in))
    <3>. HIDE DEF able
    <3>. QED  BY <1>1, <1>3, GreedyIsEnough
  <2>. HIDE DEF able, victims, Enough, Needed
  <2>. QED  BY <1>6, <2>1, <2>2
<1>7. in.shortfall = 0 \/ in.shortfall > 0
  OBVIOUS
<1>8. Enough(victims) /\ (exact => Needed(victims))
  <2>. HIDE DEF exact, victims, Enough, Needed
  <2>. QED  BY <1>4, <1>5, <1>6, <1>7
<1>. QED  BY <1>8

\* A plan names runners that are there.
LEMMA VictimsAreThere ==
  ASSUME NEW ps, IsRunnerSet(ps), NEW in,
         in.freed \in {"total", "vram", "spill"}, in.shortfall \in Nat
  PROVE  Re!plan(ps, in).victims \in SUBSET ps
<1>. DEFINE able == Re!Candidates(ps, in)
            total == Re!Bytes(able, in.freed)
<1>1. able \in SUBSET ps
  BY DEF Re!Candidates
<1>2. total \in Nat
  BY <1>1, SumsGrow
<1>3. /\ in.shortfall > 0 /\ total >= in.shortfall => Re!cheapest_covering_set(able, in) \in SUBSET able
      /\ Re!greedy_covering_set(able, in) \in SUBSET able
  <2>. HIDE DEF able
  <2>1. in.shortfall > 0 /\ total >= in.shortfall => Re!cheapest_covering_set(able, in) \in Re!Covering(able, in)
    BY <1>1, CheapestIsFound
  <2>. QED  BY <2>1 DEF Re!Covering, Re!greedy_covering_set
<1>4. \/ Re!plan(ps, in).victims \in {{}, able, Re!greedy_covering_set(able, in)}
      \/ /\ in.shortfall > 0 /\ total >= in.shortfall
         /\ Re!plan(ps, in).victims = Re!cheapest_covering_set(able, in)
  BY <1>2 DEF Re!plan
<1>. HIDE DEF able, total
<1>. QED  BY <1>1, <1>3, <1>4

\* Both rounds ask for a number of bytes, of runners that are there.
LEMMA RoomIsNeeded ==
  ASSUME NEW ps \in RunnerSets, NEW load \in Loads
  PROVE  Re!UnloadsWhatIsNeeded(Re!make_room(ps, load.keep, load.full, load.gpu, load.host))
<1>. DEFINE keep == load.keep
            gpu == load.gpu
            host == load.host
            own == Re!Bytes({r \in ps : r.name = keep}, "vram")
            device == [keep |-> keep, freed |-> "vram", shortfall |-> Re!GpuShortfall(load.full, gpu.free, own, gpu.total)]
            first == Re!plan(ps, device)
            left == ps \ first.victims
            spilled == Re!Bytes(first.victims, "spill")
            free == IF gpu.free = None THEN None ELSE gpu.free + Re!Bytes(first.victims, "vram")
            memory == [keep |-> keep, freed |-> IF gpu.free = None THEN "total" ELSE "spill",
                       shortfall |-> Re!HostShortfall(Re!apply_discrete_gpu_budget(load.full, free),
                                       host.available + spilled, host.reserve, host.verdict)]
            second == Re!plan(left, memory)
            rounds == Re!make_room(ps, load.keep, load.full, load.gpu, load.host)
<1>1. /\ IsRunnerSet(ps)
      /\ load.full \in Nat /\ host.available \in Nat /\ host.reserve \in Nat /\ gpu.free \in Option(Nat)
  BY RoomAssumption
<1>2. own \in Nat
  <2>1. {r \in ps : r.name = keep} \in SUBSET ps
    OBVIOUS
  <2>. QED  BY <1>1, <2>1, SumsGrow
<1>3. device.shortfall \in Nat
  BY <1>1, <1>2 DEF Re!GpuShortfall, Re!Minus, Option
<1>4. rounds = <<[in |-> device, ps |-> ps, plan |-> first], [in |-> memory, ps |-> left, plan |-> second]>>
  BY DEF Re!make_room
<1>5. first.victims \in SUBSET ps
  <2>1. device.freed = "vram"
    OBVIOUS
  <2>. HIDE DEF device
  <2>. QED  BY <1>1, <1>3, <2>1, VictimsAreThere
<1>6. Re!Bytes(first.victims, "vram") \in Nat /\ spilled \in Nat
  <2>. HIDE DEF first
  <2>. QED  BY <1>1, <1>5, SumsGrow
<1>7. memory.shortfall \in Nat
  <2>. HIDE DEF first, spilled
  <2>1. free \in Option(Nat)
    BY <1>1, <1>6 DEF Option
  <2>2. Re!apply_discrete_gpu_budget(load.full, free) \in Nat
    <3>. HIDE DEF free
    <3>. QED  BY <1>1, <2>1 DEF Re!apply_discrete_gpu_budget, Re!Minus, Option
  <2>. HIDE DEF free
  <2>. QED  BY <1>1, <1>6, <2>2 DEF Re!HostShortfall, Re!Minus
<1>8. IsRunnerSet(left)
  <2>. HIDE DEF first
  <2>. QED  BY <1>1, FS_Subset DEF IsRunnerSet
<1>9. device.freed \in {"total", "vram", "spill"} /\ memory.freed \in {"total", "vram", "spill"}
  OBVIOUS
<1>. DEFINE Fine(in, runners, p) ==
       p.covers =>
         /\ Re!Bytes(p.victims, in.freed) >= in.shortfall
         /\ Re!Cardinality(Re!Candidates(runners, in)) <= MaxExactCandidates =>
              \A r \in p.victims : Re!Bytes(p.victims \ {r}, in.freed) < in.shortfall
<1>10. Fine(device, ps, first)
  <2>. HIDE DEF device
  <2>. QED  BY <1>1, <1>3, <1>9, PlanIsNeeded
<1>11. Fine(memory, left, second)
  <2>. HIDE DEF memory, left
  <2>. QED  BY <1>7, <1>8, <1>9, PlanIsNeeded
<1>12. /\ DOMAIN rounds = {1, 2}
       /\ rounds[1].in = device /\ rounds[1].ps = ps /\ rounds[1].plan = first
       /\ rounds[2].in = memory /\ rounds[2].ps = left /\ rounds[2].plan = second
  <2>. HIDE DEF device, first, left, memory, second, rounds
  <2>. QED  BY <1>4
<1>. HIDE DEF device, first, left, memory, second, rounds
<1>13. \A i \in DOMAIN rounds : Fine(rounds[i].in, rounds[i].ps, rounds[i].plan)
  <2>. HIDE DEF Fine
  <2>. QED  BY <1>10, <1>11, <1>12
<1>. QED  BY <1>13 DEF Re!UnloadsWhatIsNeeded, rounds

-----------------------------------------------------------------------------
(* What is kept *)

\* A record of a kind is of the decision that makes that kind.
LEMMA KindIsOfDecision ==
  ASSUME [Next]_case
  PROVE  /\ case' = case \/ Route \/ case'.kind # "route"
         /\ case' = case \/ Request \/ case'.kind # "request"
         /\ case' = case \/ Compare \/ case'.kind # "compare"
         /\ case' = case \/ MakeRoom \/ case'.kind # "room"
         /\ case' = case \/ Place \/ case'.kind # "place"
         /\ case' = case \/ Output \/ case'.kind # "text"
<1>1. MakeRoom => case'.kind = "room"
  BY DEF MakeRoom
<1>2. Place => case'.kind = "place"
  BY DEF Place
<1>3. Output => case'.kind = "text"
  BY DEF Output
<1>4. Route => case'.kind = "route"
  BY DEF Route
<1>5. Request => case'.kind = "request"
  BY DEF Request
<1>6. Compare => case'.kind = "compare"
  BY DEF Compare
<1>. QED  BY <1>1, <1>2, <1>3, <1>4, <1>5, <1>6 DEF Next

\* For every catalogue of uniquely named models, objective and affinity: the
\* model select_route (routing.rs) takes, its options and its grade are the
\* same without any candidate that lost.
THEOREM LosersPlayNoPart == Spec => []LosersDoNotMatter
<1>1. Init => LosersDoNotMatter
  BY DEF Init, LosersDoNotMatter
<1>2. ASSUME LosersDoNotMatter, [Next]_case PROVE LosersDoNotMatter'
  <2>1. CASE case' = case
    BY <1>2, <2>1 DEF LosersDoNotMatter
  <2>2. CASE Route
    <3>1. PICK models \in Catalogues, input \in RouteInputs, assigned \in Assignments :
                 case' = [kind |-> "route", input |-> input, models |-> models, assigned |-> assigned]
      BY <2>2 DEF Route
    <3>2. Ro!LosersDoNotMatter(input, models, assigned)
      BY RejectedPlayNoPart, RoutingAssumption
    <3>. QED  BY <3>1, <3>2 DEF LosersDoNotMatter
  <2>. QED  BY <1>2, <2>1, <2>2, KindIsOfDecision DEF LosersDoNotMatter
<1>. QED  BY <1>1, <1>2, PTL DEF Spec

\* For every catalogue: a model that keeps repeating itself on this kind of
\* task is chosen automatically (general_fallback_fit, routing.rs) only when
\* every model that may serve does.
THEOREM RepeatersAreLastResort == Spec => []RepeatsOnlyAsLastResort
<1>1. Init => RepeatsOnlyAsLastResort
  BY DEF Init, RepeatsOnlyAsLastResort
<1>2. ASSUME RepeatsOnlyAsLastResort, [Next]_case PROVE RepeatsOnlyAsLastResort'
  <2>1. CASE case' = case
    BY <1>2, <2>1 DEF RepeatsOnlyAsLastResort
  <2>2. CASE Route
    <3>1. PICK models \in Catalogues, input \in RouteInputs, assigned \in Assignments :
                 case' = [kind |-> "route", input |-> input, models |-> models, assigned |-> assigned]
      BY <2>2 DEF Route
    <3>2. Ro!RepeatsOnlyAsLastResort(input, models, assigned)
      BY RepeatersComeLast, RoutingAssumption
    <3>. QED  BY <3>1, <3>2 DEF RepeatsOnlyAsLastResort
  <2>. QED  BY <1>2, <2>1, <2>2, KindIsOfDecision DEF RepeatsOnlyAsLastResort
<1>. QED  BY <1>1, <1>2, PTL DEF Spec

\* What a request is prepared from is as the lemmas about sizes take it.
LEMMA RequestStep ==
  ASSUME Request
  PROVE  \E t, m, route, host, resident, loaded :
           /\ IsTask(t) /\ IsModel(m) /\ IsRoute(route, m) /\ IsHost(host) /\ IsRunner(loaded.first, m)
           /\ case' = [kind |-> "request", task |-> t, model |-> m, resident |-> resident, loaded |-> loaded,
                       prepared |-> Rq!run_session_task(t, route, m, host, resident, loaded)]
<1>. DEFINE ModelOf(window) == [digest |-> "d1", window |-> window, modelfile |-> None, size |-> 8, qualified |-> {"vision"}]
            SizesOf(t, window) == {IF t.context = None THEN 8 ELSE t.context} \cup ({window} \ {None})
            RouteOf(t, window) == [num_ctx |-> Rq!Least(SizesOf(t, window)), num_predict |-> 2, think |-> "off"]
            SeenOf(first, gone) == [first |-> first, second |-> IF gone THEN None ELSE first]
<1>1. PICK t \in TaskInputs, window \in Windows, host \in Hosts, resident \in BOOLEAN,
           first \in Runners, gone \in BOOLEAN :
             /\ first # None /\ window # None => first.context <= window
             /\ case' = [kind |-> "request", task |-> t, model |-> ModelOf(window), resident |-> resident,
                         loaded |-> SeenOf(first, gone),
                         prepared |-> Rq!run_session_task(t, RouteOf(t, window), ModelOf(window), host, resident, SeenOf(first, gone))]
  BY DEF Request
<1>2. IsTask(t) /\ IsHost(host) /\ window \in Option(Nat)
  BY RequestAssumption
<1>3. IsModel(ModelOf(window))
  BY <1>2 DEF IsModel, Option
<1>4. IsRoute(RouteOf(t, window), ModelOf(window))
  <2>1. SizesOf(t, window) \in SUBSET Nat /\ SizesOf(t, window) # {} /\ (window # None => window \in SizesOf(t, window))
    BY <1>2 DEF IsTask, Option
  <2>2. /\ Rq!Least(SizesOf(t, window)) \in Nat
        /\ window # None => Rq!Least(SizesOf(t, window)) <= window
    <3>. HIDE DEF SizesOf
    <3>. QED  BY <2>1, LeastOfNumbers DEF Rq!Least
  <2>. HIDE DEF SizesOf
  <2>. QED  BY <2>2 DEF IsRoute, Option, Efforts
<1>5. IsRunner(SeenOf(first, gone).first, ModelOf(window))
  BY <1>1, RequestAssumption DEF IsRunner, Option
<1>. HIDE DEF ModelOf, RouteOf, SeenOf
<1>. QED  BY <1>1, <1>2, <1>3, <1>4, <1>5

\* For every request, window, host and loaded runner: a context that was sized
\* by run_session_task (execution/request.rs, context.rs) holds the prompt, the
\* output budget that is sent and the margin, and the model's window holds it.
THEOREM ContextsCover == Spec => []SentContextCovers
<1>1. Init => SentContextCovers
  BY DEF Init, SentContextCovers
<1>2. ASSUME SentContextCovers, [Next]_case PROVE SentContextCovers'
  <2>1. CASE case' = case
    BY <1>2, <2>1 DEF SentContextCovers
  <2>2. CASE Request
    <3>1. PICK t, m, route, host, resident, loaded :
           /\ IsTask(t) /\ IsModel(m) /\ IsRoute(route, m) /\ IsHost(host) /\ IsRunner(loaded.first, m)
           /\ case' = [kind |-> "request", task |-> t, model |-> m, resident |-> resident, loaded |-> loaded,
                       prepared |-> Rq!run_session_task(t, route, m, host, resident, loaded)]
      BY <2>2, RequestStep
    <3>2. Rq!SentContextCovers(t, m, Rq!run_session_task(t, route, m, host, resident, loaded))
      BY <3>1, PreparedCovers
    <3>. QED  BY <3>1, <3>2 DEF SentContextCovers
  <2>. QED  BY <1>2, <2>1, <2>2, KindIsOfDecision DEF SentContextCovers
<1>. QED  BY <1>1, <1>2, PTL DEF Spec

\* For every request and host: an automatic size (reuse_resident_context and
\* context_left_to_ollama, execution/context.rs) never makes Ollama reload a
\* runner of the right revision whose window covers the request.
THEOREM WarmRunnersStay == Spec => []WarmRunnerKept
<1>1. Init => WarmRunnerKept
  BY DEF Init, WarmRunnerKept
<1>2. ASSUME WarmRunnerKept, [Next]_case PROVE WarmRunnerKept'
  <2>1. CASE case' = case
    BY <1>2, <2>1 DEF WarmRunnerKept
  <2>2. CASE Request
    <3>1. PICK t, m, route, host, resident, loaded :
           /\ IsTask(t) /\ IsModel(m) /\ IsRoute(route, m) /\ IsHost(host) /\ IsRunner(loaded.first, m)
           /\ case' = [kind |-> "request", task |-> t, model |-> m, resident |-> resident, loaded |-> loaded,
                       prepared |-> Rq!run_session_task(t, route, m, host, resident, loaded)]
      BY <2>2, RequestStep
    <3>2. Rq!WarmRunnerKept(m, resident, loaded, Rq!run_session_task(t, route, m, host, resident, loaded))
      BY <3>1, PreparedKeepsWarm
    <3>. QED  BY <3>1, <3>2 DEF WarmRunnerKept
  <2>. QED  BY <1>2, <2>1, <2>2, KindIsOfDecision DEF WarmRunnerKept
<1>. QED  BY <1>1, <1>2, PTL DEF Spec

\* For every request: the profile an undisturbed run is recorded under
\* (profile_from_observations) is the one routing_profile (execution/select.rs)
\* asks about next, and a disturbed run has none.
THEOREM WhatIsLearnedIsFound == Spec => []LearnedIsFound
<1>1. Init => LearnedIsFound
  BY DEF Init, LearnedIsFound
<1>2. ASSUME LearnedIsFound, [Next]_case PROVE LearnedIsFound'
  <2>1. CASE case' = case
    BY <1>2, <2>1 DEF LearnedIsFound
  <2>2. CASE Compare
    <3>1. PICK ask, completion, later :
                 case' = [kind |-> "compare", ask |-> ask, later |-> later, completion |-> completion]
      BY <2>2 DEF Compare
    <3>2. Pl!LearnedIsFound(ask, completion, later)
      BY UndisturbedIsFound
    <3>. QED  BY <3>1, <3>2 DEF LearnedIsFound
  <2>. QED  BY <1>2, <2>1, <2>2, KindIsOfDecision DEF LearnedIsFound
<1>. QED  BY <1>1, <1>2, PTL DEF Spec

\* For every text and every alphabet: the loop that detect_tail_loop (repetition.rs)
\* tells of is the one of the whole text whose first copy ends earliest, although
\* it looks at a window of the end and stops at the first periods.
THEOREM LoopsAreFound == Spec => []EarliestLoopIsFound
<1>1. Init => EarliestLoopIsFound
  BY DEF Init, EarliestLoopIsFound
<1>2. ASSUME EarliestLoopIsFound, [Next]_case PROVE EarliestLoopIsFound'
  <2>1. CASE case' = case
    BY <1>2, <2>1 DEF EarliestLoopIsFound
  <2>2. CASE Output
    <3>1. PICK text \in Texts : case' = [kind |-> "text", text |-> text]
      BY <2>2 DEF Output
    <3>2. text \in Seq({text[i] : i \in DOMAIN text})
      BY RepetitionAssumption
    <3>3. Rp!EarliestLoopIsFound(text)
      BY <3>2, LoopIsEarliest
    <3>. QED  BY <3>1, <3>3 DEF EarliestLoopIsFound
  <2>. QED  BY <1>2, <2>1, <2>2, KindIsOfDecision DEF EarliestLoopIsFound
<1>. QED  BY <1>1, <1>2, PTL DEF Spec

\* For every placement and every history: an automatic choice (select_managed_route,
\* execution/select.rs) leaves the router's own only for a backend that was faster by
\* the margin on enough runs of the request, or is free while the other is not.
THEOREM PlacementsAreEarned == Spec => []PlacementIsEarned
<1>1. Init => PlacementIsEarned
  BY DEF Init, PlacementIsEarned
<1>2. ASSUME PlacementIsEarned, [Next]_case PROVE PlacementIsEarned'
  <2>1. CASE case' = case
    BY <1>2, <2>1 DEF PlacementIsEarned
  <2>2. CASE Place
    <3>1. PICK in \in Placings, g \in Histories["gpu"], c \in Histories["cpu"] :
                 case' = [kind |-> "place", in |-> in, runs |-> [gpu |-> g, cpu |-> c]]
      BY <2>2 DEF Place
    <3>. DEFINE runs == [gpu |-> g, cpu |-> c]
    <3>2. \A b \in Backends : IsHistory(runs[b])
      BY PlacementAssumption DEF Backends, IsHistory
    <3>3. Pl!PlacementIsEarned(in, runs, ReadyAsk)
      <4>. HIDE DEF runs
      <4>. QED  BY <3>2, PlacementAssumption, ChoiceIsEarned
    <3>. QED  BY <3>1, <3>3 DEF PlacementIsEarned
  <2>. QED  BY <1>2, <2>1, <2>2, KindIsOfDecision DEF PlacementIsEarned
<1>. QED  BY <1>1, <1>2, PTL DEF Spec

\* For every set of runners and load: a round of make_room (execution/memory.rs) that can
\* free what it asks for does, and names no runner it could do without as long as the
\* exact search of plan (residency.rs) decides.
THEOREM UnloadsAreNeeded == Spec => []UnloadsWhatIsNeeded
<1>1. Init => UnloadsWhatIsNeeded
  BY DEF Init, UnloadsWhatIsNeeded
<1>2. ASSUME UnloadsWhatIsNeeded, [Next]_case PROVE UnloadsWhatIsNeeded'
  <2>1. CASE case' = case
    BY <1>2, <2>1 DEF UnloadsWhatIsNeeded
  <2>2. CASE MakeRoom
    <3>1. PICK ps \in RunnerSets, load \in Loads :
            case' = [kind |-> "room", rounds |-> Re!make_room(ps, load.keep, load.full, load.gpu, load.host)]
      BY <2>2 DEF MakeRoom
    <3>2. Re!UnloadsWhatIsNeeded(Re!make_room(ps, load.keep, load.full, load.gpu, load.host))
      BY RoomIsNeeded
    <3>3. case'.rounds = Re!make_room(ps, load.keep, load.full, load.gpu, load.host)
      BY <3>1
    <3>. QED  BY <3>2, <3>3 DEF UnloadsWhatIsNeeded
  <2>. QED  BY <1>2, <2>1, <2>2, KindIsOfDecision DEF UnloadsWhatIsNeeded
<1>. QED  BY <1>1, <1>2, PTL DEF Spec
=============================================================================

--------------------------- MODULE ServicesProofs ---------------------------
(***************************************************************************)
(* Proofs about the services that share no state: the circuit breaker, the *)
(* pressure holds, the catalogue, the batches, the limiter and the         *)
(* settings.  Each is proved about the service by itself, for any values   *)
(* of its constants, and holds of the services side by side because these  *)
(* implement every one of them.                                            *)
(***************************************************************************)
EXTENDS Services, SequenceTheorems, FiniteSetTheorems, WellFoundedInduction, TLAPS

-----------------------------------------------------------------------------
(* Side by side *)

LEMMA StepsOfOne ==
  [ServicesNext]_AllVars =>
    /\ [Next]_vars /\ [Ho!Next]_(Ho!vars) /\ [Ad!Next]_(Ad!vars) /\ [Le!Next]_(Le!vars)
    /\ [Ca!Next]_(Ca!vars) /\ [Ba!Next]_(Ba!vars) /\ [Se!Next]_(Se!vars)
<1>. SUFFICES ASSUME [ServicesNext]_AllVars
              PROVE  /\ [Next]_vars /\ [Ho!Next]_(Ho!vars) /\ [Ad!Next]_(Ad!vars) /\ [Le!Next]_(Le!vars)
                     /\ [Ca!Next]_(Ca!vars) /\ [Ba!Next]_(Ba!vars) /\ [Se!Next]_(Se!vars)
  OBVIOUS
<1>. USE DEF vars, hoVars, adVars, leVars, caVars, baVars, seVars,
             Ho!vars, Ad!vars, Le!vars, Le!footprints, Le!feedbacks, Ca!vars, Ba!vars, Se!vars
<1>1. CASE Breakers
  BY <1>1 DEF Breakers
<1>2. CASE Pressures
  BY <1>2 DEF Pressures
<1>3. CASE Limiters
  BY <1>3 DEF Limiters
<1>4. CASE Learnings
  BY <1>4 DEF Learnings
<1>5. CASE Catalogues
  BY <1>5 DEF Catalogues
<1>6. CASE Batching
  BY <1>6 DEF Batching
<1>7. CASE Reloading
  BY <1>7 DEF Reloading
<1>8. CASE UNCHANGED AllVars
  BY <1>8 DEF AllVars
<1>. QED
  BY <1>1, <1>2, <1>3, <1>4, <1>5, <1>6, <1>7, <1>8 DEF ServicesNext

\* A behaviour of the services side by side is one of each service by itself.
THEOREM SideBySide ==
  ServicesSpec => Spec /\ Ho!Spec /\ Ad!Spec /\ Le!Spec /\ Ca!Spec /\ Ba!Spec /\ Se!Spec
<1>1. ServicesInit => Init /\ Ho!Init /\ Ad!Init /\ Le!Init /\ Ca!Init /\ Ba!Init /\ Se!Init
  BY DEF ServicesInit
<1>. QED
  BY <1>1, StepsOfOne, PTL DEF ServicesSpec, Spec, Ho!Spec, Ad!Spec, Le!Spec, Ca!Spec, Ba!Spec, Se!Spec

-----------------------------------------------------------------------------
(* The circuit breaker *)

BreakerInv == TypeOK /\ ProbeOwned /\ ClosedMeansBelow

LEMMA BreakerInit == Init => BreakerInv
<1>. SUFFICES ASSUME Init PROVE BreakerInv
  OBVIOUS
<1>1. TypeOK
  BY DEF Init, TypeOK
<1>2. probe = {} /\ probing = FALSE
  BY DEF Init
<1>3. ProbeOwned
  BY <1>2 DEF ProbeOwned
<1>4. ClosedMeansBelow
  BY ThresholdAssumption DEF Init, ClosedMeansBelow
<1>. QED  BY <1>1, <1>3, <1>4 DEF BreakerInv

LEMMA BreakerStep == BreakerInv /\ [Next]_vars => BreakerInv'
<1>. SUFFICES ASSUME BreakerInv, [Next]_vars PROVE BreakerInv'
  OBVIOUS
<1>. USE ThresholdAssumption DEF BreakerInv, TypeOK, ProbeOwned, ClosedMeansBelow, Goto
<1>1. ASSUME NEW t \in Tasks, Pass(t)
      PROVE  BreakerInv'
  BY <1>1 DEF Pass
<1>2. ASSUME NEW t \in Tasks, Probe(t)
      PROVE  BreakerInv'
  BY <1>2 DEF Probe
<1>3. ASSUME NEW t \in Tasks, Abort(t)
      PROVE  BreakerInv'
  BY <1>3 DEF Abort, DropProbe
<1>4. ASSUME NEW t \in Tasks, Forward(t)
      PROVE  BreakerInv'
  BY <1>4 DEF Forward
<1>5. ASSUME NEW t \in Tasks, Answer(t)
      PROVE  BreakerInv'
  BY <1>5 DEF Answer
<1>6. ASSUME NEW t \in Tasks, EndProbe(t)
      PROVE  BreakerInv'
  BY <1>6 DEF EndProbe, DropProbe
<1>7. ASSUME NEW t \in Tasks, RecordSuccess(t)
      PROVE  BreakerInv'
  BY <1>7 DEF RecordSuccess
<1>8. ASSUME NEW t \in Tasks, RecordFailure(t)
      PROVE  BreakerInv'
  BY <1>8 DEF RecordFailure, Opens
<1>9. CASE Cool
  BY <1>9 DEF Cool
<1>10. CASE UNCHANGED vars
  BY <1>10 DEF vars
<1>. QED
  BY <1>1, <1>2, <1>3, <1>4, <1>5, <1>6, <1>7, <1>8, <1>9, <1>10 DEF Next

\* Every variable has its type.
THEOREM BreakerTypes == Spec => []TypeOK
  BY BreakerInit, BreakerStep, PTL DEF Spec, BreakerInv

\* The probe flag of a backend is set exactly while one task owns the probe.
THEOREM ProbeIsOwned == Spec => []ProbeOwned
  BY BreakerInit, BreakerStep, PTL DEF Spec, BreakerInv

\* A closed circuit has fewer failures in a row than the threshold.
THEOREM ClosedIsBelow == Spec => []ClosedMeansBelow
  BY BreakerInit, BreakerStep, PTL DEF Spec, BreakerInv

-----------------------------------------------------------------------------
(* The pressure holds *)

\* A hold counts no more healthy samples than its signal has been well for.
CountedWhileWell == \A r \in holds : healthy[r] <= well[r]

HoldsInv == Ho!TypeOK /\ CountedWhileWell

LEMMA HoldsInit == Ho!Init => HoldsInv
<1>. SUFFICES ASSUME Ho!Init PROVE HoldsInv
  OBVIOUS
<1>. QED  BY RecoveryAssumption DEF Ho!Init, HoldsInv, Ho!TypeOK, CountedWhileWell

\* A signal that counts as healthy is not in trouble.
LEMMA RecoveringIsWell ==
  ASSUME NEW s, NEW r \in Ho!Recovering(s)
  PROVE  r \in holds /\ ~ Ho!Troubled(r, s)
  BY DEF Ho!Recovering, Ho!Troubled

LEMMA HoldsSample ==
  ASSUME HoldsInv, NEW s \in Samples, Ho!snapshot(s)
  PROVE  HoldsInv' /\ \A r \in holds \ holds' : well'[r] = RecoverySamples
<1>. USE RecoveryAssumption DEF HoldsInv
<1>1. \A r \in Ho!Recovering(s) : r \in holds /\ ~ Ho!Troubled(r, s)
  BY RecoveringIsWell
<1>2. Ho!Over(s) \subseteq Ho!Recovering(s)
  BY DEF Ho!Over
<1>3. Ho!pressure_reasons(s) \subseteq Ho!Reasons /\ Ho!pressure_reasons(s) \cap Ho!Recovering(s) = {}
  BY DEF Ho!pressure_reasons, Ho!Recovering
<1>4. /\ holds' = (holds \cup Ho!pressure_reasons(s)) \ Ho!Over(s)
      /\ healthy' = Ho!Count(s) /\ aged' = aged \ Ho!Over(s) /\ last' = s
  BY DEF Ho!snapshot
<1>5. \A r \in Ho!Reasons : /\ Ho!Troubled(r, s) => well'[r] = 0
                         /\ ~ Ho!Troubled(r, s) =>
                              well'[r] = IF well[r] < RecoverySamples THEN well[r] + 1 ELSE well[r]
  BY DEF Ho!snapshot
<1>6. \A r \in Ho!Reasons : healthy'[r] = IF r \in Ho!Recovering(s) \ Ho!Over(s) THEN healthy[r] + 1 ELSE 0
  BY <1>4 DEF Ho!Count
<1>7. holds' \subseteq Ho!Reasons /\ aged' \subseteq holds' /\ last' \in Samples \cup {Ho!Silence}
  BY <1>3, <1>4 DEF Ho!TypeOK
<1>8. well' \in [Ho!Reasons -> 0 .. RecoverySamples]
  <2>1. well' = [r \in Ho!Reasons |-> IF Ho!Troubled(r, s) THEN 0
                                   ELSE IF well[r] < RecoverySamples THEN well[r] + 1 ELSE well[r]]
    BY DEF Ho!snapshot
  <2>. QED  BY <2>1 DEF Ho!TypeOK
<1>9. \A r \in Ho!Recovering(s) \ Ho!Over(s) : healthy[r] + 1 < RecoverySamples /\ r \in holds'
  <2>1. \A r \in Ho!Recovering(s) \ Ho!Over(s) : r \in Ho!Reasons /\ ~ (healthy[r] + 1 >= RecoverySamples)
    BY <1>1 DEF Ho!Over, Ho!TypeOK
  <2>. QED  BY <1>1, <1>4, <2>1 DEF Ho!TypeOK
<1>10. healthy' \in [Ho!Reasons -> 0 .. RecoverySamples - 1] /\ \A r \in Ho!Reasons \ holds' : healthy'[r] = 0
  <2>1. \A r \in Ho!Reasons : healthy'[r] \in 0 .. RecoverySamples - 1
    BY <1>6, <1>9 DEF Ho!TypeOK
  <2>. QED  BY <1>4, <1>6, <1>9, <2>1 DEF Ho!Count
<1>11. CountedWhileWell'
  <2>1. ASSUME NEW r \in Ho!Recovering(s) \ Ho!Over(s) PROVE healthy'[r] <= well'[r]
    <3>1. r \in Ho!Reasons /\ r \in holds /\ ~ Ho!Troubled(r, s) /\ healthy'[r] = healthy[r] + 1
      BY <1>1, <1>6 DEF Ho!TypeOK
    <3>2. healthy[r] + 1 < RecoverySamples /\ healthy[r] <= well[r]
      BY <1>9, <3>1 DEF CountedWhileWell
    <3>. QED  BY <1>5, <3>1, <3>2 DEF Ho!TypeOK
  <2>2. ASSUME NEW r \in holds', r \notin Ho!Recovering(s) \ Ho!Over(s) PROVE healthy'[r] <= well'[r]
    BY <1>6, <1>7, <1>8, <2>2
  <2>. QED  BY <2>1, <2>2 DEF CountedWhileWell
<1>12. ASSUME NEW r \in holds \ holds' PROVE well'[r] = RecoverySamples
  <2>1. r \in Ho!Over(s) /\ r \in Ho!Reasons
    BY <1>4 DEF Ho!TypeOK
  <2>2. healthy[r] + 1 >= RecoverySamples /\ healthy[r] <= well[r] /\ ~ Ho!Troubled(r, s)
    BY <1>1, <2>1 DEF Ho!Over, CountedWhileWell
  <2>. QED  BY <1>5, <2>1, <2>2 DEF Ho!TypeOK
<1>. QED  BY <1>7, <1>8, <1>10, <1>11, <1>12 DEF Ho!TypeOK

LEMMA HoldsStep == HoldsInv /\ [Ho!Next]_(Ho!vars) => HoldsInv' /\ [\A r \in holds \ holds' : well'[r] = RecoverySamples]_<<holds, well>>
<1>. SUFFICES ASSUME HoldsInv, [Ho!Next]_(Ho!vars)
              PROVE  HoldsInv' /\ [\A r \in holds \ holds' : well'[r] = RecoverySamples]_<<holds, well>>
  OBVIOUS
<1>1. CASE Ho!Sample
  BY <1>1, HoldsSample DEF Ho!Sample
<1>2. ASSUME NEW r \in Ho!Reasons, Ho!Age(r)
      PROVE  HoldsInv' /\ UNCHANGED <<holds, well>>
  BY <1>2 DEF Ho!Age, HoldsInv, Ho!TypeOK, CountedWhileWell
<1>3. CASE UNCHANGED Ho!vars
  BY <1>3 DEF Ho!vars, HoldsInv, Ho!TypeOK, CountedWhileWell
<1>. QED  BY <1>1, <1>2, <1>3 DEF Ho!Next

\* Every variable has its type; a count of healthy samples never reaches its bound.
THEOREM HoldsTypes == Ho!Spec => []Ho!TypeOK
<1>1. HoldsInv /\ [Ho!Next]_(Ho!vars) => HoldsInv'
  BY HoldsStep
<1>. QED  BY HoldsInit, <1>1, PTL DEF Ho!Spec, HoldsInv

\* A hold ends only after its own signal has been out of trouble for
\* RecoverySamples samples in a row, whatever the other signals did in between.
THEOREM HoldsEndWhenWell == Ho!Spec => EndsWhenWell
<1>1. HoldsInv /\ [Ho!Next]_(Ho!vars) => HoldsInv'
  BY HoldsStep
<1>2. HoldsInv /\ [Ho!Next]_(Ho!vars) => [\A r \in holds \ holds' : well'[r] = RecoverySamples]_<<holds, well>>
  BY HoldsStep
<1>. QED  BY HoldsInit, <1>1, <1>2, PTL DEF Ho!Spec, EndsWhenWell

-----------------------------------------------------------------------------
(* The catalogue *)

\* Catalogues name models that their backend is configured for and has, so
\* that their residency is known.
Cataloguing ==
  /\ fresh => DOMAIN cache \subseteq Ca!Offered
  /\ \A r \in Callers : at[r] = "refresh" => DOMAIN models[r] \subseteq Ca!Offered

\* While a request is under way what is loaded now could have been said to it.
BeheldSince ==
  \A r \in Callers : at[r] \notin {"idle", "done"} =>
    \A b \in Ca!Backends : loaded[b] \in beheld[r][b]

\* A request has read what /api/ps said since it began.
ReadSince ==
  \A r \in Callers :
    /\ at[r] \notin {"refresh", "fetch"} => ps[r] = <<>>
    /\ \A b \in DOMAIN ps[r] : b \in Ca!Backends /\ ps[r][b] \in beheld[r][b]

\* Only a request that is over has an answer, which tells of models whose backend is known.
AnsweredSince ==
  \A r \in Callers : answer[r] # None =>
    /\ at[r] = "done"
    /\ \A m \in DOMAIN answer[r] : \E L \in beheld[r][Ca!Placed(m)] : answer[r][m] <=> m \in L

CatalogueShape ==
  /\ loaded = [b \in Ca!Backends |-> loaded[b]]
  /\ at = [r \in Callers |-> at[r]]
  /\ ps = [r \in Callers |-> ps[r]]
  /\ models = [r \in Callers |-> models[r]]
  /\ answer = [r \in Callers |-> answer[r]]
  /\ beheld = [r \in Callers |-> [b \in Ca!Backends |-> beheld[r][b]]]

CatalogueInv == CatalogueShape /\ Cataloguing /\ BeheldSince /\ ReadSince /\ AnsweredSince

LEMMA CatalogueInit == Ca!Init => CatalogueInv
<1>. SUFFICES ASSUME Ca!Init PROVE CatalogueInv
  OBVIOUS
<1>1. CatalogueShape
  BY DEF Ca!Init, CatalogueShape
<1>2. Cataloguing /\ BeheldSince /\ AnsweredSince
  BY DEF Ca!Init, Cataloguing, BeheldSince, AnsweredSince
<1>3. ReadSince
  BY DEF Ca!Init, ReadSince
<1>. QED  BY <1>1, <1>2, <1>3 DEF CatalogueInv

\* A step of one request changes what it works on and perhaps the cache, the
\* others see nothing of it: what matters of the request is right afterwards.
LEMMA CatalogueLocal ==
  ASSUME CatalogueInv, NEW r \in Callers, UNCHANGED <<loaded, beheld>>, CatalogueShape',
         \A o \in Callers \ {r} :
           at'[o] = at[o] /\ ps'[o] = ps[o] /\ models'[o] = models[o] /\ answer'[o] = answer[o],
         fresh' => DOMAIN cache' \subseteq Ca!Offered,
         at'[r] = "refresh" => DOMAIN models'[r] \subseteq Ca!Offered,
         at'[r] \notin {"idle", "done"} => at[r] \notin {"idle", "done"},
         at'[r] \notin {"refresh", "fetch"} => ps'[r] = <<>>,
         \A b \in DOMAIN ps'[r] : b \in Ca!Backends /\ ps'[r][b] \in beheld[r][b],
         answer'[r] # None =>
           /\ at'[r] = "done"
           /\ \A m \in DOMAIN answer'[r] :
                \E L \in beheld[r][Ca!Placed(m)] : answer'[r][m] <=> m \in L
  PROVE  CatalogueInv'
<1>1. Cataloguing'
  BY DEF CatalogueInv, Cataloguing
<1>2. BeheldSince'
  BY DEF CatalogueInv, BeheldSince
<1>3. ReadSince'
  BY DEF CatalogueInv, ReadSince
<1>4. AnsweredSince'
  BY DEF CatalogueInv, AnsweredSince
<1>. QED  BY <1>1, <1>2, <1>3, <1>4 DEF CatalogueInv

\* What a request makes of its readings was so since it began.
LEMMA ResidencyIsRead ==
  ASSUME CatalogueInv, NEW r \in Callers, DOMAIN ps[r] = Ca!Backends,
         NEW m \in Ca!Offered
  PROVE  \E L \in beheld[r][Ca!Placed(m)] : Ca!Resident(r, m) <=> m \in L
<1>1. Ca!Placed(m) \in Ca!Backends
  BY DEF Ca!Offered
<1>2. ps[r][Ca!Placed(m)] \in beheld[r][Ca!Placed(m)]
  BY <1>1 DEF CatalogueInv, ReadSince
<1>. QED  BY <1>1, <1>2 DEF Ca!Resident

LEMMA CatalogueStep == CatalogueInv /\ [Ca!Next]_(Ca!vars) => CatalogueInv'
<1>. SUFFICES ASSUME CatalogueInv, [Ca!Next]_(Ca!vars) PROVE CatalogueInv'
  OBVIOUS
<1>. USE DEF Ca!To, Ca!Drop
<1>1. CASE Ca!Expire
  BY <1>1 DEF Ca!Expire, CatalogueInv, CatalogueShape, Cataloguing, BeheldSince, ReadSince, AnsweredSince
<1>2. ASSUME NEW b \in Ca!Backends, Ca!Change(b)
      PROVE  CatalogueInv'
  <2>1. UNCHANGED <<cache, fresh, at, ps, models, answer>>
    BY <1>2 DEF Ca!Change
  <2>2. CatalogueShape'
    BY <1>2 DEF Ca!Change, CatalogueInv, CatalogueShape
  <2>3. \A c \in Ca!Backends \ {b} : loaded'[c] = loaded[c]
    BY <1>2 DEF Ca!Change, CatalogueInv, CatalogueShape
  <2>4. ASSUME NEW r \in Callers
        PROVE  /\ at[r] \in {"idle", "done"} => beheld'[r] = beheld[r]
               /\ at[r] \notin {"idle", "done"} =>
                    /\ \A c \in Ca!Backends : beheld[r][c] \subseteq beheld'[r][c]
                    /\ loaded'[b] \in beheld'[r][b]
    <3>1. beheld'[r] = IF at[r] \in {"idle", "done"} THEN beheld[r]
                       ELSE [beheld[r] EXCEPT ![b] = @ \cup {loaded'[b]}]
      BY <1>2 DEF Ca!Change
    <3>2. beheld[r] = [c \in Ca!Backends |-> beheld[r][c]]
      BY DEF CatalogueInv, CatalogueShape
    <3>. QED  BY <3>1, <3>2
  <2>5. Cataloguing'
    BY <2>1 DEF CatalogueInv, Cataloguing
  <2>6. BeheldSince'
    BY <2>1, <2>3, <2>4 DEF CatalogueInv, BeheldSince
  <2>7. ReadSince'
    <3>1. ASSUME NEW r \in Callers, NEW c \in DOMAIN ps[r]
          PROVE  c \in Ca!Backends /\ ps[r][c] \in beheld'[r][c]
      <4>1. c \in Ca!Backends /\ ps[r][c] \in beheld[r][c]
        BY <3>1 DEF CatalogueInv, ReadSince
      <4>. QED  BY <2>4, <4>1
    <3>. QED  BY <2>1, <3>1 DEF CatalogueInv, ReadSince
  <2>8. AnsweredSince'
    BY <2>1, <2>4 DEF CatalogueInv, AnsweredSince
  <2>. QED  BY <2>2, <2>5, <2>6, <2>7, <2>8 DEF CatalogueInv
<1>3. ASSUME NEW r \in Callers, Ca!Start(r)
      PROVE  CatalogueInv'
  <2>1. /\ UNCHANGED <<loaded, cache, fresh, ps, models, answer>> /\ CatalogueShape'
        /\ at[r] = "idle" /\ at'[r] = "lookup" /\ beheld'[r] = [b \in Ca!Backends |-> {loaded[b]}]
        /\ \A o \in Callers \ {r} : at'[o] = at[o] /\ beheld'[o] = beheld[o]
    BY <1>3 DEF Ca!Start, CatalogueInv, CatalogueShape
  <2>2. ps[r] = <<>> /\ answer[r] = None
    BY <2>1 DEF CatalogueInv, ReadSince, AnsweredSince
  <2>3. Cataloguing'
    BY <2>1 DEF CatalogueInv, Cataloguing
  <2>4. BeheldSince'
    BY <2>1 DEF CatalogueInv, BeheldSince
  <2>5. ReadSince'
    BY <2>1, <2>2 DEF CatalogueInv, ReadSince
  <2>6. AnsweredSince'
    BY <2>1, <2>2 DEF CatalogueInv, AnsweredSince
  <2>. QED  BY <2>1, <2>3, <2>4, <2>5, <2>6 DEF CatalogueInv
<1>4. ASSUME NEW r \in Callers, Ca!Hit(r) \/ Ca!Miss(r) \/ Ca!Lock(r) \/ Ca!HitAgain(r) \/ Ca!MissAgain(r)
      PROVE  CatalogueInv'
  <2>1. /\ UNCHANGED <<loaded, cache, fresh, ps, answer, beheld>> /\ CatalogueShape'
        /\ at[r] \in {"lookup", "waiting", "again"} /\ at'[r] \in {"waiting", "again", "fetch", "refresh"}
        /\ at'[r] = "refresh" => fresh /\ models'[r] = cache
        /\ \A o \in Callers \ {r} : at'[o] = at[o] /\ models'[o] = models[o]
    BY <1>4 DEF Ca!Hit, Ca!Miss, Ca!Lock, Ca!HitAgain, Ca!MissAgain, CatalogueInv, CatalogueShape
  <2>2. ps[r] = <<>> /\ answer[r] = None
    BY <2>1 DEF CatalogueInv, ReadSince, AnsweredSince
  <2>3. fresh => DOMAIN cache \subseteq Ca!Offered
    BY DEF CatalogueInv, Cataloguing
  <2>. QED  BY <2>1, <2>2, <2>3, CatalogueLocal
<1>5. ASSUME NEW r \in Callers, NEW b \in Ca!Backends, Ca!ReadPs(r, b)
      PROVE  CatalogueInv'
  <2>1. /\ UNCHANGED <<loaded, cache, fresh, at, models, answer, beheld>> /\ CatalogueShape'
        /\ at[r] \in {"refresh", "fetch"}
        /\ ps'[r] = [c \in DOMAIN ps[r] \cup {b} |-> IF c = b THEN loaded[b] ELSE ps[r][c]]
        /\ \A o \in Callers \ {r} : ps'[o] = ps[o]
    BY <1>5 DEF Ca!ReadPs, CatalogueInv, CatalogueShape
  <2>2. answer[r] = None
    BY <2>1 DEF CatalogueInv, AnsweredSince
  <2>3. loaded[b] \in beheld[r][b] /\ \A c \in DOMAIN ps[r] : c \in Ca!Backends /\ ps[r][c] \in beheld[r][c]
    BY <2>1 DEF CatalogueInv, BeheldSince, ReadSince
  <2>4. \A c \in DOMAIN ps'[r] : c \in Ca!Backends /\ ps'[r][c] \in beheld[r][c]
    BY <2>1, <2>3
  <2>5. fresh => DOMAIN cache \subseteq Ca!Offered
    BY DEF CatalogueInv, Cataloguing
  <2>6. at[r] = "refresh" => DOMAIN models[r] \subseteq Ca!Offered
    BY DEF CatalogueInv, Cataloguing
  <2>. QED  BY <2>1, <2>2, <2>4, <2>5, <2>6, CatalogueLocal
<1>6. ASSUME NEW r \in Callers, Ca!Refreshed(r)
      PROVE  CatalogueInv'
  <2>1. /\ UNCHANGED <<loaded, cache, fresh, beheld>> /\ CatalogueShape'
        /\ at[r] = "refresh" /\ DOMAIN ps[r] = Ca!Backends /\ at'[r] = "done" /\ ps'[r] = <<>>
        /\ answer'[r] = [m \in DOMAIN models[r] |-> Ca!Resident(r, m)]
        /\ \A o \in Callers \ {r} :
             at'[o] = at[o] /\ ps'[o] = ps[o] /\ models'[o] = models[o] /\ answer'[o] = answer[o]
    BY <1>6 DEF Ca!Refreshed, CatalogueInv, CatalogueShape
  <2>2. DOMAIN models[r] \subseteq Ca!Offered
    BY <2>1 DEF CatalogueInv, Cataloguing
  <2>3. \A m \in DOMAIN answer'[r] : \E L \in beheld[r][Ca!Placed(m)] : answer'[r][m] <=> m \in L
    BY <2>1, <2>2, ResidencyIsRead
  <2>4. fresh => DOMAIN cache \subseteq Ca!Offered
    BY DEF CatalogueInv, Cataloguing
  <2>. QED  BY <2>1, <2>3, <2>4, CatalogueLocal
<1>7. ASSUME NEW r \in Callers, Ca!Fetched(r)
      PROVE  CatalogueInv'
  <2>1. /\ UNCHANGED <<loaded, beheld>> /\ CatalogueShape'
        /\ at[r] = "fetch" /\ DOMAIN ps[r] = Ca!Backends /\ at'[r] = "done" /\ ps'[r] = <<>>
        /\ \A o \in Callers \ {r} :
             at'[o] = at[o] /\ ps'[o] = ps[o] /\ models'[o] = models[o] /\ answer'[o] = answer[o]
    BY <1>7 DEF Ca!Fetched, CatalogueInv, CatalogueShape
  <2>2. PICK shown \in SUBSET Ca!Offered :
          /\ cache' = [m \in shown |-> Ca!Resident(r, m)]
          /\ answer'[r] = [m \in shown |-> Ca!Resident(r, m)]
    BY <1>7 DEF Ca!Fetched, CatalogueInv, CatalogueShape
  <2>3. \A m \in DOMAIN answer'[r] : \E L \in beheld[r][Ca!Placed(m)] : answer'[r][m] <=> m \in L
    BY <2>1, <2>2, ResidencyIsRead
  <2>4. DOMAIN cache' \subseteq Ca!Offered
    BY <2>2
  <2>. QED  BY <2>1, <2>3, <2>4, CatalogueLocal
<1>8. ASSUME NEW r \in Callers, Ca!Fail(r)
      PROVE  CatalogueInv'
  <2>1. /\ UNCHANGED <<loaded, cache, fresh, answer, beheld>> /\ CatalogueShape'
        /\ at[r] \notin {"idle", "done"} /\ at'[r] = "done" /\ ps'[r] = <<>>
        /\ \A o \in Callers \ {r} : at'[o] = at[o] /\ ps'[o] = ps[o] /\ models'[o] = models[o]
    BY <1>8 DEF Ca!Fail, CatalogueInv, CatalogueShape
  <2>2. answer[r] = None
    BY <2>1 DEF CatalogueInv, AnsweredSince
  <2>3. fresh => DOMAIN cache \subseteq Ca!Offered
    BY DEF CatalogueInv, Cataloguing
  <2>. QED  BY <2>1, <2>2, <2>3, CatalogueLocal
<1>9. CASE UNCHANGED Ca!vars
  BY <1>9 DEF Ca!vars, CatalogueInv, CatalogueShape, Cataloguing, BeheldSince, ReadSince, AnsweredSince
<1>. QED
  BY <1>1, <1>2, <1>3, <1>4, <1>5, <1>6, <1>7, <1>8, <1>9 DEF Ca!Next

\* What a request is told about a runner was so at some moment since the request
\* began, however many requests share the cache and whatever Ollama loads meanwhile.
THEOREM ResidencyIsFresh == Ca!Spec => []FreshResidency
<1>1. CatalogueInv => FreshResidency
  BY DEF CatalogueInv, AnsweredSince, FreshResidency, Ca!FreshResidency
<1>. QED  BY CatalogueInit, CatalogueStep, <1>1, PTL DEF Ca!Spec

-----------------------------------------------------------------------------
(* The batches *)

LEMMA LeastOfNats ==
  ASSUME NEW S, S \subseteq Nat, S # {}
  PROVE  Ba!Least(S) \in S /\ \A y \in S : Ba!Least(S) <= y
<1>1. PICK x \in S : \A y \in S : ~ (<<y, x>> \in OpToRel(<, Nat))
  BY WFMin, NatLessThanWellFounded
<1>2. ASSUME NEW y \in S PROVE x <= y
  <2>1. x \in Nat /\ y \in Nat /\ ~ (y < x)
    BY <1>1 DEF OpToRel
  <2>. QED  BY <2>1
<1>. QED  BY <1>2 DEF Ba!Least

BatchItem == [id : STRING, class : DOMAIN Shares, defer : BOOLEAN, independent : BOOLEAN]

BatchTypes == /\ items \in Seq(BatchItem)
              /\ pending \in Seq(DOMAIN items)
              /\ outcomes = [i \in DOMAIN items |-> outcomes[i]]
              /\ results = [i \in DOMAIN items |-> results[i]]

\* Of an answer the batch is sure that it is there and that it stays.
Joined(i) == results[i] = [item |-> i, how |-> outcomes[i]] /\ outcomes[i] # None

\* While the client is there an item waits, is under way, or has its answer; the
\* batch is over when no item waits or is under way.
Accounted ==
  /\ state # "dropped" =>
       \A i \in DOMAIN items : (\E k \in DOMAIN pending : pending[k] = i) \/ i \in running \/ Joined(i)
  /\ state = "answered" => pending = <<>> /\ running = {}

BatchInv == BatchTypes /\ Accounted

LEMMA BatchInit == Ba!Init => BatchInv
<1>. SUFFICES ASSUME Ba!Init PROVE BatchInv
  OBVIOUS
<1>1. items \in Seq(BatchItem)
  BY BatchesAssumption DEF Ba!Init, BatchItem
<1>2. /\ pending = [i \in 1 .. Len(items) |-> i] /\ DOMAIN items = 1 .. Len(items) /\ Len(items) \in Nat
      /\ outcomes = [i \in DOMAIN items |-> None] /\ results = [i \in DOMAIN items |-> None]
      /\ state = "new"
  BY <1>1 DEF Ba!Init
<1>3. pending \in Seq(DOMAIN items) /\ DOMAIN pending = DOMAIN items /\ \A i \in DOMAIN items : pending[i] = i
  BY <1>2
<1>. QED  BY <1>1, <1>2, <1>3 DEF BatchInv, BatchTypes, Accounted

\* What is chosen is an item that waits, and of the first class with a credit: some
\* class that waits has one, at the latest when a round begins.
LEMMA ChosenWaits ==
  ASSUME BatchTypes, pending # <<>>
  PROVE  /\ Ba!Chosen \in DOMAIN pending
         /\ Ba!ClassOf(pending[Ba!Chosen]) \in Ba!Servable(Ba!Round)
         /\ \A o \in Ba!Servable(Ba!Round) : Ba!ClassOf(pending[Ba!Chosen]) <= o
<1>. DEFINE d == Ba!Least(Ba!Servable(Ba!Round))
<1>1. DOMAIN pending = 1 .. Len(pending) /\ Len(pending) \in Nat /\ Len(pending) > 0
  BY DEF BatchTypes
<1>2. 1 \in DOMAIN pending /\ pending[1] \in DOMAIN items
  BY <1>1 DEF BatchTypes
<1>3. items[pending[1]].class \in DOMAIN Shares
  <2>1. \A j \in DOMAIN items : items[j] \in BatchItem
    BY DEF BatchTypes
  <2>2. \A e \in BatchItem : e.class \in DOMAIN Shares
    BY DEF BatchItem
  <2>. QED  BY <1>2, <2>1, <2>2
<1>4. items[pending[1]].class \in Ba!Servable(Shares)
  BY <1>2, <1>3, SharesAssumption DEF Ba!Servable, Ba!Waiting, Ba!ClassOf, Ba!Classes
<1>5. Ba!Servable(Ba!Round) # {} /\ Ba!Servable(Ba!Round) \subseteq Nat
  BY <1>4, SharesAssumption DEF Ba!Round, Ba!Servable, Ba!Classes
<1>6. d \in Ba!Servable(Ba!Round) /\ \A o \in Ba!Servable(Ba!Round) : d <= o
  BY <1>5, LeastOfNats
<1>. HIDE DEF d
<1>7. Ba!Waiting(d) # {}
  BY <1>6 DEF Ba!Servable
<1>8. Ba!Waiting(d) \subseteq DOMAIN pending
  BY DEF Ba!Waiting
<1>9. Ba!Waiting(d) \subseteq Nat
  BY <1>1, <1>8
<1>10. Ba!Chosen \in Ba!Waiting(d)
  BY <1>7, <1>9, LeastOfNats DEF Ba!Chosen, d
<1>11. Ba!Chosen \in DOMAIN pending /\ Ba!ClassOf(pending[Ba!Chosen]) = d
  BY <1>10 DEF Ba!Waiting
<1>. QED  BY <1>6, <1>11

\* An item that is taken out of a sequence leaves the others in it.
LEMMA RemovedOne ==
  ASSUME NEW T, NEW s \in Seq(T), NEW k \in DOMAIN s
  PROVE  /\ RemoveAt(s, k) \in Seq(T)
         /\ \A l \in DOMAIN s \ {k} : \E m \in DOMAIN RemoveAt(s, k) : RemoveAt(s, k)[m] = s[l]
         /\ \A m \in DOMAIN RemoveAt(s, k) : \E l \in DOMAIN s : RemoveAt(s, k)[m] = s[l]
<1>. DEFINE a == SubSeq(s, 1, k - 1)
            b == SubSeq(s, k + 1, Len(s))
<1>1. Len(s) \in Nat /\ k \in 1 .. Len(s) /\ DOMAIN s = 1 .. Len(s)
  OBVIOUS
<1>2. /\ a \in Seq(T) /\ Len(a) = k - 1 /\ \A l \in 1 .. k - 1 : a[l] = s[l]
  BY <1>1
<1>3. /\ b \in Seq(T) /\ Len(b) = Len(s) - k /\ \A l \in 1 .. Len(s) - k : b[l] = s[l + k]
  BY <1>1
<1>4. RemoveAt(s, k) = a \o b
  BY DEF RemoveAt
<1>. HIDE DEF a, b
<1>5. /\ a \o b \in Seq(T) /\ DOMAIN (a \o b) = 1 .. Len(s) - 1
      /\ \A m \in 1 .. k - 1 : (a \o b)[m] = a[m]
      /\ \A m \in k .. Len(s) - 1 : (a \o b)[m] = b[m - (k - 1)]
  <2>1. /\ a \o b \in Seq(T) /\ Len(a \o b) = Len(a) + Len(b)
        /\ \A m \in 1 .. Len(a) + Len(b) : (a \o b)[m] = IF m <= Len(a) THEN a[m] ELSE b[m - Len(a)]
    BY <1>2, <1>3, ConcatProperties
  <2>2. Len(a \o b) = Len(s) - 1
    BY <1>1, <1>2, <1>3, <2>1
  <2>3. DOMAIN (a \o b) = 1 .. Len(s) - 1
    BY <2>1, <2>2
  <2>4. Len(a) = k - 1 /\ Len(b) = Len(s) - k /\ k \in Nat
    BY <1>1, <1>2, <1>3
  <2>5. ASSUME NEW m \in 1 .. k - 1 PROVE (a \o b)[m] = a[m]
    <3>1. m \in 1 .. Len(a) + Len(b) /\ m <= Len(a)
      BY <1>1, <2>4
    <3>. QED  BY <2>1, <3>1
  <2>6. ASSUME NEW m \in k .. Len(s) - 1 PROVE (a \o b)[m] = b[m - (k - 1)]
    <3>1. m \in 1 .. Len(a) + Len(b) /\ ~ (m <= Len(a)) /\ m - Len(a) = m - (k - 1)
      BY <1>1, <2>4
    <3>. QED  BY <2>1, <3>1
  <2>. QED  BY <2>1, <2>3, <2>5, <2>6
<1>6. ASSUME NEW l \in DOMAIN s \ {k} PROVE \E m \in DOMAIN (a \o b) : (a \o b)[m] = s[l]
  <2>1. CASE l < k
    <3>1. l \in 1 .. k - 1 /\ l \in 1 .. Len(s) - 1
      BY <1>1, <2>1
    <3>2. (a \o b)[l] = s[l]
      BY <1>2, <1>5, <3>1
    <3>. QED  BY <1>5, <3>1, <3>2
  <2>2. CASE l > k
    <3>1. l - k \in 1 .. Len(s) - k /\ l - 1 \in k .. Len(s) - 1 /\ l - 1 - (k - 1) = l - k /\ l - k + k = l
      BY <1>1, <2>2
    <3>2. (a \o b)[l - 1] = b[l - k]
      BY <1>5, <3>1
    <3>3. b[l - k] = s[l]
      BY <1>3, <3>1
    <3>4. l - 1 \in 1 .. Len(s) - 1
      BY <1>1, <3>1
    <3>. QED  BY <1>5, <3>2, <3>3, <3>4
  <2>. QED  BY <1>1, <2>1, <2>2
<1>7. ASSUME NEW m \in DOMAIN (a \o b) PROVE \E l \in DOMAIN s : (a \o b)[m] = s[l]
  <2>1. m \in 1 .. Len(s) - 1
    BY <1>5
  <2>2. CASE m < k
    <3>1. m \in 1 .. k - 1 /\ m \in DOMAIN s
      BY <1>1, <2>1, <2>2
    <3>. QED  BY <1>2, <1>5, <3>1
  <2>3. CASE m >= k
    <3>1. /\ m \in k .. Len(s) - 1 /\ m - (k - 1) \in 1 .. Len(s) - k
          /\ m - (k - 1) + k = m + 1 /\ m + 1 \in DOMAIN s
      BY <1>1, <2>1, <2>3
    <3>2. (a \o b)[m] = b[m - (k - 1)] /\ b[m - (k - 1)] = s[m + 1]
      BY <1>3, <1>5, <3>1
    <3>. QED  BY <3>1, <3>2
  <2>. QED  BY <1>1, <2>1, <2>2, <2>3
<1>. QED  BY <1>4, <1>5, <1>6, <1>7

LEMMA BatchStep == BatchInv /\ [Ba!Next]_(Ba!vars) => BatchInv'
<1>. SUFFICES ASSUME BatchInv, [Ba!Next]_(Ba!vars) PROVE BatchInv'
  OBVIOUS
<1>1. CASE Ba!Validate
  BY <1>1 DEF Ba!Validate, BatchInv, BatchTypes, Accounted, Joined
<1>2. CASE Ba!Start
  <2>1. state = "dispatching" /\ pending # <<>> /\ UNCHANGED <<items, outcomes, results, state>>
    BY <1>2 DEF Ba!Start, Ba!CanStart
  <2>2. pending' = RemoveAt(pending, Ba!Chosen) /\ running' = running \cup {pending[Ba!Chosen]}
    BY <1>2 DEF Ba!Start, Ba!RemoveAt, RemoveAt
  <2>3. Ba!Chosen \in DOMAIN pending
    BY <2>1, ChosenWaits DEF BatchInv
  <2>4. /\ pending' \in Seq(DOMAIN items)
        /\ \A l \in DOMAIN pending \ {Ba!Chosen} : \E m \in DOMAIN pending' : pending'[m] = pending[l]
    BY <2>2, <2>3, RemovedOne DEF BatchInv, BatchTypes
  <2>5. BatchTypes'
    BY <2>1, <2>4 DEF BatchInv, BatchTypes
  <2>6. ASSUME NEW i \in DOMAIN items
        PROVE  (\E k \in DOMAIN pending' : pending'[k] = i) \/ i \in running' \/ Joined(i)
    <3>1. (\E k \in DOMAIN pending : pending[k] = i) \/ i \in running \/ Joined(i)
      BY <2>1 DEF BatchInv, Accounted
    <3>. QED  BY <2>2, <2>4, <3>1
  <2>7. \A i \in DOMAIN items : Joined(i)' <=> Joined(i)
    BY <2>1 DEF Joined
  <2>. QED  BY <2>1, <2>5, <2>6, <2>7 DEF BatchInv, Accounted
<1>3. CASE Ba!Respond
  BY <1>3 DEF Ba!Respond, BatchInv, BatchTypes, Accounted, Joined
<1>4. CASE Ba!Drop
  BY <1>4 DEF Ba!Drop, BatchInv, BatchTypes, Accounted
<1>5. ASSUME NEW i \in DOMAIN items, Ba!End(i)
      PROVE  BatchInv'
  <2>1. /\ UNCHANGED <<items, pending, running, results, state>> /\ BatchTypes' /\ state = "dispatching"
        /\ i \in running /\ outcomes[i] = None
        /\ \A j \in DOMAIN items \ {i} : outcomes'[j] = outcomes[j]
    BY <1>5 DEF Ba!End, BatchInv, BatchTypes
  <2>2. \A j \in DOMAIN items : Joined(j) => Joined(j)'
    BY <2>1 DEF Joined
  <2>. QED  BY <2>1, <2>2 DEF BatchInv, Accounted
<1>6. ASSUME NEW i \in DOMAIN items, Ba!Join(i)
      PROVE  BatchInv'
  <2>1. /\ UNCHANGED <<items, pending, outcomes, state>> /\ BatchTypes' /\ state = "dispatching"
        /\ running' = running \ {i} /\ outcomes[i] # None /\ results'[i] = [item |-> i, how |-> outcomes[i]]
        /\ \A j \in DOMAIN items \ {i} : results'[j] = results[j]
    BY <1>6 DEF Ba!Join, Ba!Answered, BatchInv, BatchTypes
  <2>2. Joined(i)' /\ \A j \in DOMAIN items : Joined(j) => Joined(j)'
    BY <2>1 DEF Joined
  <2>. QED  BY <2>1, <2>2 DEF BatchInv, Accounted
<1>7. CASE UNCHANGED Ba!vars
  BY <1>7 DEF Ba!vars, BatchInv, BatchTypes, Accounted, Joined
<1>. QED
  BY <1>1, <1>2, <1>3, <1>4, <1>5, <1>6, <1>7 DEF Ba!Next

\* A batch that is answered has the answer of every item in its place, as the item
\* went, whatever failed or panicked beside it and in whichever order items ended.
THEOREM EveryItemIsAnswered == Ba!Spec => []EveryItemAnswered
<1>1. BatchInv => EveryItemAnswered
  BY DEF BatchInv, Accounted, Joined, EveryItemAnswered, Ba!EveryItemAnswered
<1>. QED  BY BatchInit, BatchStep, <1>1, PTL DEF Ba!Spec

\* The starts that are owed are finitely many.
LEMMA SlotsOf ==
  ASSUME NEW S \in SUBSET Ba!Classes
  PROVE  /\ IsFiniteSet(Ba!Slots(S))
         /\ \A p : p \in Ba!Slots(S) <=> \E c \in S : \E n \in 1 .. Shares[c] : p = <<c, n>>
<1>. DEFINE T == {{c} \X (1 .. Shares[c]) : c \in S}
            f == [c \in S |-> {c} \X (1 .. Shares[c])]
<1>1. IsFiniteSet(S)
  BY SharesAssumption, FS_Subset DEF Ba!Classes
<1>2. f \in Surjection(S, T)
  BY DEF Surjection
<1>3. IsFiniteSet(T)
  BY <1>1, <1>2, FS_Surjection
<1>4. ASSUME NEW c \in S PROVE IsFiniteSet({c} \X (1 .. Shares[c]))
  <2>1. 1 \in Int /\ Shares[c] \in Int
    BY SharesAssumption DEF Ba!Classes
  <2>2. IsFiniteSet(1 .. Shares[c]) /\ IsFiniteSet({c})
    BY <2>1, FS_Interval, FS_Singleton
  <2>. QED  BY <2>2, FS_Product
<1>5. \A U \in T : IsFiniteSet(U)
  BY <1>4
<1>6. IsFiniteSet(UNION T)
  <2>. HIDE DEF T
  <2>. QED  BY <1>3, <1>5, FS_UNION
<1>7. Ba!Slots(S) = UNION T
  BY DEF Ba!Slots
<1>8. \A p : p \in UNION T <=> \E c \in S : \E n \in 1 .. Shares[c] : p = <<c, n>>
  OBVIOUS
<1>. QED  BY <1>6, <1>7, <1>8

LEMMA OneMore ==
  ASSUME NEW A, NEW B, IsFiniteSet(B), A \subseteq B, NEW p \in B, p \notin A
  PROVE  Cardinality(A) \in Nat /\ Cardinality(B) \in Nat /\ Cardinality(A) + 1 <= Cardinality(B)
<1>1. IsFiniteSet(A) /\ Cardinality(A) \in Nat /\ Cardinality(B) \in Nat
  BY FS_Subset, FS_CardinalityType
<1>2. IsFiniteSet(A \cup {p}) /\ Cardinality(A \cup {p}) = Cardinality(A) + 1
  BY <1>1, FS_AddElement
<1>3. A \cup {p} \in SUBSET B
  OBVIOUS
<1>4. Cardinality(A \cup {p}) <= Cardinality(B)
  BY <1>3, FS_Subset
<1>. QED  BY <1>1, <1>2, <1>4

Beyond(c) == {o \in Ba!Classes : o > c}
Below(c)  == {o \in Ba!Classes : o < c}

\* Of the starts a round owes to S, those it has made when it has the credits cr left.
Used(S, cr) == {p \in Ba!Slots(S) : p[2] <= Shares[p[1]] - cr[p[1]]}

\* The starts of others that may have come since one of c.  With no credit left c was
\* served in this round, and only the classes beyond it come until the next; with all
\* its credits it was served in the last one at best, and those below it come first.
Rivals(c, cr) == IF cr[c] = Shares[c] THEN Ba!Slots(Beyond(c)) \cup Used(Below(c), cr)
                 ELSE Used(Beyond(c), cr)

InTurn(c) ==
  /\ passed[c] <= Cardinality(Rivals(c, credits))
  /\ credits[c] < Shares[c] => \A o \in Below(c) : credits[o] = 0 \/ Ba!Waiting(o) = {}
  /\ credits[c] \in 1 .. Shares[c] - 1 => passed[c] = 0

RoundTypes == /\ credits \in [Ba!Classes -> Nat] /\ \A c \in Ba!Classes : credits[c] <= Shares[c]
              /\ passed \in [Ba!Classes -> Nat]

RoundInv == /\ RoundTypes
            /\ \A c \in Ba!Classes : IF Ba!Waiting(c) = {} THEN passed[c] = 0 ELSE InTurn(c)

LEMMA RivalsAreOthers ==
  ASSUME NEW c \in Ba!Classes, NEW cr
  PROVE  /\ IsFiniteSet(Rivals(c, cr)) /\ Cardinality(Rivals(c, cr)) \in Nat
         /\ Cardinality(Rivals(c, cr)) <= Cardinality(Ba!Slots(Ba!Classes \ {c}))
<1>1. Ba!Classes \subseteq Nat /\ c \in Nat
  BY SharesAssumption DEF Ba!Classes
<1>2. /\ Beyond(c) \in SUBSET Ba!Classes /\ Below(c) \in SUBSET Ba!Classes
      /\ Beyond(c) \subseteq Ba!Classes \ {c} /\ Below(c) \subseteq Ba!Classes \ {c}
  BY <1>1 DEF Beyond, Below
<1>3. Ba!Slots(Beyond(c)) \subseteq Ba!Slots(Ba!Classes \ {c})
  BY <1>2 DEF Ba!Slots
<1>4. Ba!Slots(Below(c)) \subseteq Ba!Slots(Ba!Classes \ {c})
  BY <1>2 DEF Ba!Slots
<1>5. Rivals(c, cr) \in SUBSET Ba!Slots(Ba!Classes \ {c})
  BY <1>3, <1>4 DEF Rivals, Used
<1>6. IsFiniteSet(Ba!Slots(Ba!Classes \ {c}))
  BY SlotsOf
<1>. QED  BY <1>5, <1>6, FS_Subset, FS_CardinalityType

LEMMA RoundBegins == Ba!Init => RoundInv
<1>. SUFFICES ASSUME Ba!Init PROVE RoundInv
  OBVIOUS
<1>1. credits = Shares /\ passed = [c \in Ba!Classes |-> 0]
  BY DEF Ba!Init
<1>2. RoundTypes
  BY <1>1, SharesAssumption DEF RoundTypes, Ba!Classes
<1>3. ASSUME NEW c \in Ba!Classes PROVE passed[c] = 0 /\ InTurn(c)
  <2>1. Cardinality(Rivals(c, credits)) \in Nat
    BY <1>2, RivalsAreOthers
  <2>2. Shares[c] \in Nat
    BY SharesAssumption DEF Ba!Classes
  <2>. QED  BY <1>1, <2>1, <2>2 DEF InTurn
<1>. QED  BY <1>2, <1>3 DEF RoundInv

\* A start of another class is one more that is owed, and none that was made before.
LEMMA RivalStarts ==
  ASSUME NEW c \in Ba!Classes, NEW cr, NEW crn, NEW p, NEW n \in Nat, n <= Cardinality(Rivals(c, cr)),
         Rivals(c, cr) \subseteq Rivals(c, crn), p \in Rivals(c, crn), p \notin Rivals(c, cr)
  PROVE  n + 1 <= Cardinality(Rivals(c, crn))
<1>1. IsFiniteSet(Rivals(c, crn))
  BY RivalsAreOthers
<1>2. /\ Cardinality(Rivals(c, cr)) \in Nat /\ Cardinality(Rivals(c, crn)) \in Nat
      /\ Cardinality(Rivals(c, cr)) + 1 <= Cardinality(Rivals(c, crn))
  BY <1>1, OneMore
<1>. QED  BY <1>2

LEMMA RoundStart == BatchTypes /\ RoundInv /\ Ba!Start => RoundInv'
<1>. SUFFICES ASSUME BatchTypes, RoundInv, Ba!Start PROVE RoundInv'
  OBVIOUS
<1>. DEFINE d == Ba!ClassOf(pending[Ba!Chosen])
            R == Ba!Round
<1>1. pending # <<>> /\ items' = items
  BY DEF Ba!Start, Ba!CanStart
<1>2. /\ pending' = RemoveAt(pending, Ba!Chosen)
      /\ credits' = [R EXCEPT ![d] = @ - 1]
      /\ passed' = [c \in Ba!Classes |-> IF c = d \/ Ba!Waiting(c) = {} THEN 0 ELSE passed[c] + 1]
  BY DEF Ba!Start, Ba!RemoveAt, RemoveAt
<1>3. Ba!Chosen \in DOMAIN pending /\ d \in Ba!Servable(R) /\ \A o \in Ba!Servable(R) : d <= o
  BY <1>1, ChosenWaits
<1>4. /\ pending \in Seq(DOMAIN items)
      /\ \A l \in DOMAIN pending \ {Ba!Chosen} : \E m \in DOMAIN pending' : pending'[m] = pending[l]
      /\ \A m \in DOMAIN pending' : \E l \in DOMAIN pending : pending'[m] = pending[l]
  BY <1>2, <1>3, RemovedOne, SMTT(40) DEF BatchTypes
<1>5. \A c \in Ba!Classes : Ba!Waiting(c) = {} => Ba!Waiting(c)' = {}
  BY <1>1, <1>4 DEF Ba!Waiting, Ba!ClassOf
<1>6. /\ R \in [Ba!Classes -> Nat] /\ \A c \in Ba!Classes : R[c] <= Shares[c]
      /\ Ba!Servable(credits) # {} => R = credits
      /\ Ba!Servable(credits) = {} => R = Shares
  BY SharesAssumption DEF RoundInv, RoundTypes, Ba!Round, Ba!Classes
<1>7. d \in Ba!Classes /\ R[d] > 0 /\ R[d] \in Nat
  BY <1>3, <1>6 DEF Ba!Servable
<1>8. /\ Ba!Classes \subseteq Nat /\ \A c \in Ba!Classes : Shares[c] \in Nat \ {0}
      /\ \A c \in Ba!Classes : passed[c] \in Nat
  BY SharesAssumption DEF Ba!Classes, RoundInv, RoundTypes
<1>. HIDE DEF d, R
<1>9. credits'[d] = R[d] - 1 /\ \A c \in Ba!Classes \ {d} : credits'[c] = R[c]
  BY <1>2, <1>6, <1>7
<1>10. RoundTypes'
  <2>1. credits' \in [Ba!Classes -> Nat]
    BY <1>2, <1>6, <1>7
  <2>2. \A c \in Ba!Classes : credits'[c] <= Shares[c]
    BY <1>6, <1>7, <1>8, <1>9
  <2>3. passed' \in [Ba!Classes -> Nat]
    BY <1>2, <1>8
  <2>. QED  BY <2>1, <2>2, <2>3 DEF RoundTypes
<1>11. ASSUME NEW c \in Ba!Classes, Ba!Waiting(c)' = {} PROVE passed'[c] = 0
  <2>1. CASE c = d
    BY <1>2, <2>1
  <2>2. CASE c # d
    <3>1. Ba!Waiting(c) = {}
      <4>. SUFFICES ASSUME NEW l \in DOMAIN pending, Ba!ClassOf(pending[l]) = c PROVE FALSE
        BY DEF Ba!Waiting
      <4>1. l # Ba!Chosen
        BY <2>2 DEF d
      <4>. QED  BY <1>1, <1>4, <1>11, <4>1 DEF Ba!Waiting, Ba!ClassOf
    <3>. QED  BY <1>2, <3>1
  <2>. QED  BY <2>1, <2>2
<1>12. ASSUME NEW c \in Ba!Classes, Ba!Waiting(c)' # {} PROVE InTurn(c)'
  <2>1. Ba!Waiting(c) # {} /\ InTurn(c)
    BY <1>5, <1>12 DEF RoundInv
  <2>2. CASE c = d
    <3>1. passed'[c] = 0 /\ Cardinality(Rivals(c, credits')) \in Nat
      BY <1>2, <2>2, RivalsAreOthers
    <3>2. ASSUME NEW o \in Below(c) PROVE credits'[o] = 0 \/ Ba!Waiting(o)' = {}
      <4>1. o \in Ba!Classes /\ o < d
        BY <2>2 DEF Below
      <4>2. o \notin Ba!Servable(R) /\ o # d
        BY <1>3, <1>7, <1>8, <4>1 DEF R
      <4>3. ~ (R[o] > 0) \/ Ba!Waiting(o) = {}
        BY <4>1, <4>2 DEF Ba!Servable
      <4>4. R[o] \in Nat /\ credits'[o] = R[o]
        BY <1>6, <1>9, <4>1, <4>2 DEF R
      <4>. QED  BY <1>5, <4>1, <4>3, <4>4
    <3>. QED  BY <3>1, <3>2 DEF InTurn, Below
  <2>3. CASE c # d
    <3>1. passed'[c] = passed[c] + 1 /\ credits'[c] = R[c]
      BY <1>2, <1>9, <2>1, <2>3
    <3>2. PICK p : p = <<d, Shares[d] - R[d] + 1>>
      OBVIOUS
    <3>3. p[1] = d /\ p[2] = Shares[d] - credits'[d] /\ p[2] > Shares[d] - R[d]
      BY <1>6, <1>7, <1>8, <1>9, <3>2
    <3>4. \A S \in SUBSET Ba!Classes : d \in S => p \in Ba!Slots(S)
      <4>1. Shares[d] - R[d] + 1 \in 1 .. Shares[d]
        BY <1>6, <1>7, <1>8
      <4>. QED  BY <3>2, <4>1, SlotsOf
    <3>5. \A S \in SUBSET Ba!Classes : d \in S => p \in Used(S, credits')
      BY <1>7, <1>8, <1>9, <3>3, <3>4 DEF Used
    <3>6. \A S : p \notin Used(S, R)
      <4>1. ~ (p[2] <= Shares[p[1]] - R[p[1]])
        BY <1>6, <1>7, <1>8, <3>2
      <4>. QED  BY <4>1 DEF Used
    <3>7. ASSUME NEW S \in SUBSET Ba!Classes PROVE Used(S, R) \subseteq Used(S, credits')
      <4>1. ASSUME NEW q \in Ba!Slots(S) PROVE q[1] \in Ba!Classes /\ q[2] \in Int
        BY SlotsOf, <1>8
      <4>2. \A o \in Ba!Classes : R[o] \in Nat /\ credits'[o] \in Int /\ credits'[o] <= R[o]
        BY <1>6, <1>7, <1>9
      <4>3. ASSUME NEW q \in Ba!Slots(S), q[2] <= Shares[q[1]] - R[q[1]]
            PROVE  q[2] <= Shares[q[1]] - credits'[q[1]]
        <5>1. q[1] \in Ba!Classes /\ q[2] \in Int
          BY <4>1
        <5>2. Shares[q[1]] \in Nat
          BY <1>8, <5>1
        <5>3. R[q[1]] \in Nat /\ credits'[q[1]] \in Int /\ credits'[q[1]] <= R[q[1]]
          BY <4>2, <5>1
        <5>. QED  BY <4>3, <5>1, <5>2, <5>3
      <4>. QED  BY <4>3 DEF Used
    <3>8. /\ Beyond(c) \in SUBSET Ba!Classes /\ Below(c) \in SUBSET Ba!Classes
          /\ d < c => d \in Below(c) /\ d \notin Beyond(c)
          /\ d > c => d \in Beyond(c)
          /\ d < c \/ d > c
      BY <1>7, <1>8, <2>3 DEF Beyond, Below
    <3>9. d < c => p \notin Ba!Slots(Beyond(c))
      BY <3>2, <3>8, SlotsOf
    <3>10. \A cr : passed[c] <= Cardinality(Rivals(c, cr)) /\ Rivals(c, cr) \subseteq Rivals(c, credits')
                    /\ p \in Rivals(c, credits') /\ p \notin Rivals(c, cr)
                    => passed'[c] <= Cardinality(Rivals(c, credits'))
      BY <1>8, <3>1, RivalStarts
    <3>11. c \in Ba!Servable(R) <=> R[c] > 0
      BY <2>1 DEF Ba!Servable
    <3>12. CASE Ba!Servable(credits) # {}
      <4>1. R = credits
        BY <1>6, <3>12 DEF R
      <4>2. CASE R[c] = Shares[c]
        <5>1. d < c
          <6>1. R[c] > 0
            BY <1>8, <4>2
          <6>2. d <= c
            BY <1>3, <3>11, <6>1
          <6>. QED  BY <1>7, <1>8, <2>3, <6>2
        <5>2. /\ Rivals(c, credits) = Ba!Slots(Beyond(c)) \cup Used(Below(c), R)
              /\ Rivals(c, credits') = Ba!Slots(Beyond(c)) \cup Used(Below(c), credits')
          BY <3>1, <4>1, <4>2 DEF Rivals
        <5>3. passed'[c] <= Cardinality(Rivals(c, credits'))
          BY <2>1, <3>5, <3>6, <3>7, <3>8, <3>9, <3>10, <5>1, <5>2 DEF InTurn
        <5>. QED  BY <1>8, <3>1, <4>2, <5>3 DEF InTurn
      <4>3. CASE R[c] # Shares[c]
        <5>1. R[c] < Shares[c] /\ R[c] \in Nat /\ Shares[c] \in Nat
          BY <1>6, <1>8, <4>3 DEF R
        <5>2. \A o \in Below(c) : credits[o] = 0 \/ Ba!Waiting(o) = {}
          BY <2>1, <4>1, <5>1 DEF InTurn
        <5>3. d > c
          <6>1. d \notin Below(c)
            BY <1>3, <1>7, <4>1, <5>2 DEF Ba!Servable, R
          <6>. QED  BY <3>8, <6>1
        <5>4. R[c] = 0
          BY <1>3, <1>7, <1>8, <3>11, <5>1, <5>3 DEF R
        <5>5. /\ Rivals(c, credits) = Used(Beyond(c), R)
              /\ Rivals(c, credits') = Used(Beyond(c), credits')
          BY <3>1, <4>1, <4>3 DEF Rivals
        <5>6. passed'[c] <= Cardinality(Rivals(c, credits'))
          BY <2>1, <3>5, <3>6, <3>7, <3>8, <3>10, <5>3, <5>5 DEF InTurn
        <5>7. ASSUME NEW o \in Below(c) PROVE credits'[o] = 0 \/ Ba!Waiting(o)' = {}
          <6>1. o \in Ba!Classes /\ o # d
            BY <1>7, <1>8, <5>3 DEF Below
          <6>. QED  BY <1>5, <1>9, <4>1, <5>2, <6>1
        <5>. QED  BY <3>1, <5>1, <5>4, <5>6, <5>7 DEF InTurn, Below
      <4>. QED  BY <4>2, <4>3
    <3>13. CASE Ba!Servable(credits) = {}
      <4>1. R = Shares /\ R[c] = Shares[c]
        BY <1>6, <3>13 DEF R
      <4>2. d < c
        <5>1. R[c] > 0
          BY <1>8, <4>1
        <5>2. d <= c
          BY <1>3, <3>11, <5>1
        <5>. QED  BY <1>7, <1>8, <2>3, <5>2
      <4>3. credits[c] = 0
        BY <2>1, <3>13 DEF Ba!Servable, RoundInv, RoundTypes
      <4>4. /\ Rivals(c, credits) = Used(Beyond(c), credits)
            /\ Rivals(c, credits') = Ba!Slots(Beyond(c)) \cup Used(Below(c), credits')
        BY <1>8, <3>1, <4>1, <4>3 DEF Rivals
      <4>5. Used(Beyond(c), credits) \subseteq Ba!Slots(Beyond(c))
        BY DEF Used
      <4>6. passed'[c] <= Cardinality(Rivals(c, credits'))
        BY <2>1, <3>5, <3>8, <3>9, <3>10, <4>2, <4>4, <4>5 DEF InTurn
      <4>. QED  BY <1>8, <3>1, <4>1, <4>6 DEF InTurn
    <3>. QED  BY <3>12, <3>13
  <2>. QED  BY <2>2, <2>3
<1>. QED  BY <1>10, <1>11, <1>12 DEF RoundInv

LEMMA RoundStep == BatchTypes /\ RoundInv /\ [Ba!Next]_(Ba!vars) => RoundInv'
<1>. SUFFICES ASSUME BatchTypes, RoundInv, [Ba!Next]_(Ba!vars) PROVE RoundInv'
  OBVIOUS
<1>1. CASE Ba!Start
  BY <1>1, RoundStart
<1>2. CASE UNCHANGED <<items, pending, credits, passed>>
  BY <1>2 DEF RoundInv, RoundTypes, InTurn, Ba!Waiting, Ba!ClassOf
<1>. QED
  BY <1>1, <1>2 DEF Ba!Next, Ba!Validate, Ba!Respond, Ba!Drop, Ba!End, Ba!Join, Ba!vars

\* While items of a class wait no more items of the others are started than a round
\* owes to these, whatever the shares, the items and the order in which they end.
THEOREM StartsAreFair == Ba!Spec => []FairStart
<1>1. RoundInv => FairStart
  <2>1. ASSUME RoundInv, NEW c \in Ba!Classes
        PROVE  passed[c] <= Cardinality(Ba!Slots(Ba!Classes \ {c}))
    <3>1. /\ Cardinality(Rivals(c, credits)) \in Nat
          /\ Cardinality(Rivals(c, credits)) <= Cardinality(Ba!Slots(Ba!Classes \ {c}))
      BY RivalsAreOthers
    <3>2. Cardinality(Ba!Slots(Ba!Classes \ {c})) \in Nat
      BY SlotsOf, FS_CardinalityType
    <3>3. passed[c] \in Nat /\ (passed[c] = 0 \/ passed[c] <= Cardinality(Rivals(c, credits)))
      BY <2>1 DEF RoundInv, RoundTypes, InTurn
    <3>. QED  BY <3>1, <3>2, <3>3
  <2>2. RoundInv => \A c \in Ba!Classes : passed[c] <= Cardinality(Ba!Slots(Ba!Classes \ {c}))
    BY <2>1
  <2>. QED  BY <2>2 DEF FairStart, Ba!FairStart, Ba!Cardinality, Cardinality
<1>2. BatchInv => BatchTypes
  BY DEF BatchInv
<1>. QED  BY BatchInit, BatchStep, RoundBegins, RoundStep, <1>1, <1>2, PTL DEF Ba!Spec

-----------------------------------------------------------------------------
(* The adaptive limiter *)

LimiterTypes == /\ limit \in Nat /\ ceiling \in Nat /\ 1 <= limit /\ limit <= ceiling
                /\ streak \in Nat /\ row \in Nat

\* The streak is one of completions that have come one after the other.
StreakIsSeen == streak = 0 \/ (profile = event /\ streak <= row)

\* Nothing comes between a decision and the change of the limit but a new ceiling,
\* which leaves a decrease one.
Decided == target # None =>
             /\ streak = 0
             /\ target.limit \in Nat
             /\ IF target.decrease THEN target.limit <= limit \/ limit = ceiling ELSE row = Streak

LimiterInv == LimiterTypes /\ StreakIsSeen /\ Decided

LEMMA LimiterInit == Ad!Init => LimiterInv
<1>. SUFFICES ASSUME Ad!Init PROVE LimiterInv
  OBVIOUS
<1>1. limit \in Nat /\ 1 <= limit /\ ceiling = limit
  BY CeilingsAssumption DEF Ad!Init
<1>. QED  BY <1>1 DEF Ad!Init, LimiterInv, LimiterTypes, StreakIsSeen, Decided

\* A streak that reaches its length has seen as many completions in a row.
LEMMA RowKeepsUp ==
  ASSUME LimiterInv, NEW p, Ad!InARow(p) >= Streak
  PROVE  (IF event = p THEN Ad!Low(row + 1, Streak) ELSE 1) = Streak
<1>1. Streak \in Nat /\ Streak >= 1 /\ streak \in Nat /\ row \in Nat
  BY StreakAssumption DEF LimiterInv, LimiterTypes
<1>2. CASE profile = p /\ streak # 0
  <2>1. event = p /\ streak <= row
    BY <1>2 DEF LimiterInv, StreakIsSeen
  <2>. QED  BY <1>1, <1>2, <2>1 DEF Ad!InARow, Ad!Low
<1>3. CASE profile # p \/ streak = 0
  <2>1. Streak = 1
    BY <1>1, <1>3 DEF Ad!InARow, Ad!Low
  <2>. QED  BY <1>1, <2>1 DEF Ad!Low
<1>. QED  BY <1>2, <1>3

\* A step that is not the change of the limit leaves it where it is, or moves the ceiling.
LimiterGoal == LimiterInv' /\ (limit' > limit /\ UNCHANGED ceiling => row = Streak)

LEMMA HealthyStep ==
  ASSUME LimiterInv, NEW f, NEW p, NEW tps, Ad!Healthy(f, p, tps)
  PROVE  LimiterGoal
<1>1. UNCHANGED <<limit, ceiling>> /\ target = None /\ profile' = p /\ event' = p
  BY DEF Ad!Healthy, Ad!Unlocked
<1>2. row' = IF event = p THEN Ad!Low(row + 1, Streak) ELSE 1
  BY DEF Ad!Healthy
<1>3. Streak \in Nat /\ Streak >= 1 /\ limit \in Nat /\ streak \in Nat /\ row \in Nat
  BY StreakAssumption DEF LimiterInv, LimiterTypes
<1>4. row' \in Nat /\ Ad!InARow(p) \in Nat
  BY <1>2, <1>3 DEF Ad!Low, Ad!InARow
<1>5. CASE Ad!InARow(p) >= Streak /\ limit < ceiling
  <2>1. streak' = 0 /\ target' = [limit |-> limit + 1, decrease |-> FALSE]
    BY <1>5 DEF Ad!Healthy
  <2>2. row' = Streak
    BY <1>2, <1>5, RowKeepsUp
  <2>3. target'.limit \in Nat /\ target'.decrease = FALSE
    BY <1>3, <2>1
  <2>4. Decided'
    BY <2>1, <2>2, <2>3 DEF Decided
  <2>. QED  BY <1>1, <1>3, <1>4, <2>1, <2>4 DEF LimiterGoal, LimiterInv, LimiterTypes, StreakIsSeen
<1>6. CASE ~ (Ad!InARow(p) >= Streak /\ limit < ceiling)
  <2>1. streak' = Ad!InARow(p) /\ target' = None
    BY <1>1, <1>6 DEF Ad!Healthy
  <2>2. Ad!InARow(p) <= row'
    <3>1. CASE profile = p /\ streak # 0
      <4>1. event = p /\ streak <= row
        BY <3>1 DEF LimiterInv, StreakIsSeen
      <4>. QED  BY <1>2, <1>3, <3>1, <4>1 DEF Ad!InARow, Ad!Low
    <3>2. CASE profile # p \/ streak = 0
      <4>1. Ad!InARow(p) = 1
        BY <1>3, <3>2 DEF Ad!InARow, Ad!Low
      <4>. QED  BY <1>2, <1>3, <4>1 DEF Ad!Low
    <3>. QED  BY <3>1, <3>2
  <2>. QED  BY <1>1, <1>3, <1>4, <2>1, <2>2 DEF LimiterGoal, LimiterInv, LimiterTypes, StreakIsSeen, Decided
<1>. QED  BY <1>5, <1>6

LEMMA LimiterStep == LimiterInv /\ [Ad!Next]_(Ad!vars) => LimiterGoal
<1>. SUFFICES ASSUME LimiterInv, [Ad!Next]_(Ad!vars) PROVE LimiterGoal
  OBVIOUS
<1>. USE DEF LimiterTypes, StreakIsSeen
<1>1. CASE Ad!SetCeiling
  <2>1. PICK c \in Ceilings :
          ceiling' = c /\ limit' = IF limit >= ceiling \/ limit > c THEN c ELSE limit
    BY <1>1 DEF Ad!SetCeiling
  <2>2. c \in Nat /\ c >= 1 /\ c # ceiling
    BY <1>1, <2>1, CeilingsAssumption DEF Ad!SetCeiling
  <2>3. UNCHANGED <<streak, profile, target, event, row>>
    BY <1>1 DEF Ad!SetCeiling
  <2>4. LimiterTypes' /\ StreakIsSeen'
    BY <2>1, <2>2, <2>3 DEF LimiterInv
  <2>5. Decided'
    BY <2>1, <2>2, <2>3 DEF LimiterInv, Decided
  <2>. QED  BY <2>1, <2>2, <2>4, <2>5 DEF LimiterGoal, LimiterInv
<1>2. CASE Ad!Switch \/ Ad!Elapse
  BY <1>2 DEF Ad!Switch, Ad!Elapse, LimiterInv, Decided, LimiterGoal
<1>3. CASE Ad!SetLimit
  <2>1. /\ target # None /\ target' = None /\ UNCHANGED <<ceiling, streak, profile, event>> /\ row' = 0
        /\ limit' = IF target.limit < 1 THEN 1 ELSE Ad!Low(target.limit, ceiling)
    BY <1>3 DEF Ad!SetLimit
  <2>2. streak = 0 /\ target.limit \in Nat
    BY <2>1 DEF LimiterInv, Decided
  <2>3. LimiterInv'
    BY <2>1, <2>2 DEF LimiterInv, Decided, Ad!Low
  <2>4. ASSUME limit' > limit PROVE row = Streak
    <3>1. ~ (target.limit <= limit \/ limit = ceiling)
      BY <2>1, <2>2, <2>4 DEF LimiterInv, Ad!Low
    <3>. QED  BY <2>1, <3>1 DEF LimiterInv, Decided
  <2>. QED  BY <2>3, <2>4 DEF LimiterGoal
<1>4. ASSUME NEW f \in Forwards, Ad!Begin(f) \/ Ad!Abandon(f) \/ Ad!Judge(f) \/ Ad!Ignore(f)
      PROVE  LimiterGoal
  BY <1>4 DEF Ad!Begin, Ad!Abandon, Ad!Judge, Ad!Ignore, Ad!Unlocked, LimiterInv, Decided, LimiterGoal
<1>5. ASSUME NEW f \in Forwards, Ad!Unknown(f)
      PROVE  LimiterGoal
  BY <1>5 DEF Ad!Unknown, Ad!Unlocked, Ad!Broken, LimiterInv, Decided, LimiterGoal
<1>6. ASSUME NEW f \in Forwards, Ad!Bad(f)
      PROVE  LimiterGoal
  <2>1. UNCHANGED <<limit, ceiling, profile>> /\ target = None /\ streak' = 0 /\ row' = 0
    BY <1>6 DEF Ad!Bad, Ad!Unlocked, Ad!Broken
  <2>2. target' = IF recent THEN None ELSE [limit |-> limit \div 2, decrease |-> TRUE]
    BY <1>6 DEF Ad!Bad
  <2>3. limit \div 2 \in Nat /\ limit \div 2 <= limit
    BY DEF LimiterInv
  <2>4. target' # None => target'.limit \in Nat /\ target'.limit <= limit /\ target'.decrease = TRUE
    BY <2>2, <2>3
  <2>5. Decided'
    BY <2>1, <2>4 DEF Decided
  <2>. QED  BY <2>1, <2>5 DEF LimiterInv, LimiterGoal
<1>7. ASSUME NEW f \in Forwards, Ad!Observe(f)
      PROVE  LimiterGoal
  BY <1>5, <1>6, <1>7, HealthyStep DEF Ad!Observe
<1>8. CASE UNCHANGED Ad!vars
  BY <1>8 DEF Ad!vars, LimiterInv, Decided, LimiterGoal
<1>. QED
  BY <1>1, <1>2, <1>3, <1>4, <1>7, <1>8 DEF Ad!Next

\* The limit is raised only after Streak healthy completions of one profile in a
\* row, whichever forwards overlap and whatever the reloads do in between.
THEOREM RaisesAreEarned == Ad!Spec => RaiseIsEarned
<1>1. LimiterInv /\ [Ad!Next]_(Ad!vars) => LimiterInv'
  BY LimiterStep DEF LimiterGoal
<1>2. LimiterInv /\ [Ad!Next]_(Ad!vars) => [limit' > limit /\ UNCHANGED ceiling => row = Streak]_(Ad!vars)
  BY LimiterStep DEF LimiterGoal
<1>. QED  BY LimiterInit, <1>1, <1>2, PTL DEF Ad!Spec, RaiseIsEarned, Ad!RaiseIsEarned


\* The files of e that are valid, with the capacity c.
GoodFiles(e, c) ==
  {i \in DOMAIN e : /\ Se!load(e[i]) # Invalid
                    /\ Se!validate(Se!resolve(Se!load(e[i])).warming.value)
                    /\ Se!resolve(Se!load(e[i])).capacity.value = c}

\* What a valid file resolves to.
Good(e, c) == {Se!resolve(Se!load(e[i])) : i \in GoodFiles(e, c)}

SettingsShape == /\ edits \in Seq(Versions)
         /\ step = [r \in Reloaders |-> step[r]]
         /\ held = [r \in Reloaders |-> held[r]]
         /\ seen = [r \in Reloaders |-> seen[r]]

\* Whoever has read the file holds one that was there; whoever has accepted it, or
\* is pushing, holds tunables that a valid file resolves to.
HeldInv ==
  \A r \in Reloaders :
    /\ step[r] = "read" => \E i \in DOMAIN edits : held[r] = Se!load(edits[i])
    /\ step[r] \in {"write", "managed", "raw"} => held[r] \in Good(edits, current.capacity.value)

InForce ==
  /\ current \in Good(edits, current.capacity.value)
  /\ \E a, b \in Good(edits, current.capacity.value) :
       pools = [managed |-> Se!Pushed(a).managed, raw |-> Se!Pushed(b).raw]

SettingsInv == SettingsShape /\ HeldInv /\ InForce

LEMMA GoodIsKept ==
  ASSUME NEW e \in Seq(Versions), NEW v \in Versions, NEW c
  PROVE  Good(e, c) \subseteq Good(Append(e, v), c)
<1>1. \A i \in DOMAIN e : i \in DOMAIN Append(e, v) /\ Append(e, v)[i] = e[i]
  OBVIOUS
<1>2. GoodFiles(e, c) \subseteq GoodFiles(Append(e, v), c)
  BY <1>1 DEF GoodFiles
<1>3. \A i \in GoodFiles(e, c) : Append(e, v)[i] = e[i]
  BY <1>1 DEF GoodFiles
<1>. QED  BY <1>2, <1>3 DEF Good

LEMMA GoodCapacity ==
  ASSUME NEW e, NEW c, NEW g \in Good(e, c)
  PROVE  g.capacity.value = c
  BY DEF Good, GoodFiles

LEMMA SettingsInit == Se!Init => SettingsInv
<1>. SUFFICES ASSUME Se!Init PROVE SettingsInv
  OBVIOUS
<1>1. PICK v \in Versions : /\ Se!load(v) # Invalid /\ Se!validate(Se!resolve(Se!load(v)).warming.value)
                            /\ edits = <<v>> /\ current = Se!resolve(Se!load(v))
  BY DEF Se!Init
<1>2. edits \in Seq(Versions) /\ DOMAIN edits = {1} /\ edits[1] = v
  BY <1>1
<1>3. 1 \in GoodFiles(edits, current.capacity.value)
  BY <1>1, <1>2 DEF GoodFiles
<1>4. current \in Good(edits, current.capacity.value)
  BY <1>1, <1>2, <1>3 DEF Good
<1>5. pools = [managed |-> Se!Pushed(current).managed, raw |-> Se!Pushed(current).raw]
  BY DEF Se!Init, Se!Pushed
<1>6. InForce
  BY <1>4, <1>5 DEF InForce
<1>7. SettingsShape /\ HeldInv
  BY <1>2 DEF Se!Init, SettingsShape, HeldInv
<1>. QED  BY <1>6, <1>7 DEF SettingsInv

\* A step of a reload that leaves the file and the values in force alone.
LEMMA QuietReload ==
  ASSUME SettingsInv, UNCHANGED <<edits, current, pools>>, SettingsShape',
         \A r \in Reloaders :
           \/ step'[r] = step[r] /\ held'[r] = held[r]
           \/ step'[r] \notin {"read", "write", "managed", "raw"}
           \/ step'[r] = "read" /\ \E i \in DOMAIN edits : held'[r] = Se!load(edits[i])
           \/ step'[r] \in {"write", "managed", "raw"} /\ held'[r] \in Good(edits, current.capacity.value)
  PROVE  SettingsInv'
  BY DEF SettingsInv, HeldInv, InForce

\* The handler and the poll loop accept what a valid file resolves to.
LEMMA AcceptedIsGood ==
  ASSUME SettingsInv, NEW r \in Reloaders, Se!Accept(r)
  PROVE  Se!resolve(held[r]) \in Good(edits, current.capacity.value)
<1>1. PICK i \in DOMAIN edits : held[r] = Se!load(edits[i])
  BY DEF SettingsInv, HeldInv, Se!Accept
<1>2. i \in GoodFiles(edits, current.capacity.value)
  BY <1>1 DEF Se!Accept, Se!Refused, GoodFiles
<1>. QED  BY <1>1, <1>2 DEF Good

LEMMA SettingsStep == SettingsInv /\ [Se!Next]_(Se!vars) => SettingsInv'
<1>. SUFFICES ASSUME SettingsInv, [Se!Next]_(Se!vars) PROVE SettingsInv'
  OBVIOUS
<1>. USE DEF Se!Goto
<1>1. CASE Se!Edit
  <2>1. PICK v \in Versions : edits' = Append(edits, v)
    BY <1>1 DEF Se!Edit
  <2>2. UNCHANGED <<current, pools, step, held>> /\ SettingsShape'
    BY <1>1, <2>1 DEF Se!Edit, SettingsInv, SettingsShape
  <2>3. Good(edits, current.capacity.value) \subseteq Good(edits', current.capacity.value)
    BY <2>1, GoodIsKept DEF SettingsInv, SettingsShape
  <2>4. \A i \in DOMAIN edits : i \in DOMAIN edits' /\ edits'[i] = edits[i]
    BY <2>1 DEF SettingsInv, SettingsShape
  <2>5. HeldInv'
    BY <2>2, <2>3, <2>4 DEF SettingsInv, HeldInv
  <2>6. InForce'
    BY <2>2, <2>3 DEF SettingsInv, InForce
  <2>. QED  BY <2>2, <2>5, <2>6 DEF SettingsInv
<1>2. ASSUME NEW r \in Reloaders, Se!Stat(r) \/ Se!Check(r) \/ Se!Unchanged(r) \/ Se!Refuse(r)
      PROVE  SettingsInv'
  <2>1. UNCHANGED <<edits, current, pools>> /\ SettingsShape'
    BY <1>2 DEF Se!Stat, Se!Check, Se!Unchanged, Se!Refuse, SettingsInv, SettingsShape
  <2>2. step'[r] \notin {"read", "write", "managed", "raw"} /\ \A o \in Reloaders \ {r} : step'[o] = step[o] /\ held'[o] = held[o]
    BY <1>2 DEF Se!Stat, Se!Check, Se!Unchanged, Se!Refuse, SettingsInv, SettingsShape
  <2>. QED  BY <2>1, <2>2, QuietReload
<1>3. ASSUME NEW r \in Reloaders, Se!Read(r)
      PROVE  SettingsInv'
  <2>1. UNCHANGED <<edits, current, pools>> /\ SettingsShape'
    BY <1>3 DEF Se!Read, SettingsInv, SettingsShape
  <2>2. Len(edits) \in DOMAIN edits
    <3>1. edits # <<>>
      BY DEF SettingsInv, InForce, Good, GoodFiles
    <3>. QED  BY <3>1 DEF SettingsInv, SettingsShape
  <2>3. /\ step'[r] = "read" /\ held'[r] = Se!load(edits[Len(edits)])
        /\ \A o \in Reloaders \ {r} : step'[o] = step[o] /\ held'[o] = held[o]
    BY <1>3 DEF Se!Read, SettingsInv, SettingsShape
  <2>. QED  BY <2>1, <2>2, <2>3, QuietReload
<1>4. ASSUME NEW r \in Reloaders, Se!Accept(r)
      PROVE  SettingsInv'
  <2>1. UNCHANGED <<edits, current, pools>> /\ SettingsShape'
    BY <1>4 DEF Se!Accept, SettingsInv, SettingsShape
  <2>2. /\ step'[r] = "write" /\ held'[r] = Se!resolve(held[r])
        /\ \A o \in Reloaders \ {r} : step'[o] = step[o] /\ held'[o] = held[o]
    BY <1>4 DEF Se!Accept, SettingsInv, SettingsShape
  <2>. QED  BY <1>4, <2>1, <2>2, AcceptedIsGood, QuietReload
<1>5. ASSUME NEW r \in Reloaders, Se!Write(r)
      PROVE  SettingsInv'
  <2>1. held[r] \in Good(edits, current.capacity.value) /\ current' = held[r]
    BY <1>5 DEF Se!Write, SettingsInv, HeldInv
  <2>2. current'.capacity.value = current.capacity.value
    BY <2>1, GoodCapacity
  <2>3. UNCHANGED <<edits, pools>> /\ SettingsShape'
    BY <1>5 DEF Se!Write, SettingsInv, SettingsShape
  <2>4. step'[r] \in {"idle", "apply"} /\ \A o \in Reloaders \ {r} : step'[o] = step[o] /\ held'[o] = held[o]
    BY <1>5 DEF Se!Write, SettingsInv, SettingsShape
  <2>5. HeldInv'
    BY <2>2, <2>3, <2>4 DEF SettingsInv, HeldInv
  <2>6. InForce'
    BY <2>1, <2>2, <2>3 DEF SettingsInv, InForce
  <2>. QED  BY <2>3, <2>5, <2>6 DEF SettingsInv
<1>6. ASSUME NEW r \in Reloaders, Se!Copy(r)
      PROVE  SettingsInv'
  <2>1. UNCHANGED <<edits, current, pools>> /\ SettingsShape'
    BY <1>6 DEF Se!Copy, SettingsInv, SettingsShape
  <2>2. /\ step'[r] = "managed" /\ held'[r] = current
        /\ \A o \in Reloaders \ {r} : step'[o] = step[o] /\ held'[o] = held[o]
    BY <1>6 DEF Se!Copy, SettingsInv, SettingsShape
  <2>3. current \in Good(edits, current.capacity.value)
    BY DEF SettingsInv, InForce
  <2>. QED  BY <2>1, <2>2, <2>3, QuietReload
<1>7. ASSUME NEW r \in Reloaders, Se!PushManaged(r) \/ Se!PushRaw(r)
      PROVE  SettingsInv'
  <2>1. held[r] \in Good(edits, current.capacity.value)
    BY <1>7 DEF Se!PushManaged, Se!PushRaw, SettingsInv, HeldInv
  <2>2. UNCHANGED <<edits, current>> /\ SettingsShape'
    BY <1>7 DEF Se!PushManaged, Se!PushRaw, SettingsInv, SettingsShape
  <2>3. HeldInv'
    BY <1>7, <2>1, <2>2 DEF Se!PushManaged, Se!PushRaw, SettingsInv, HeldInv, SettingsShape
  <2>4. PICK a, b \in Good(edits, current.capacity.value) :
          pools = [managed |-> Se!Pushed(a).managed, raw |-> Se!Pushed(b).raw]
    BY DEF SettingsInv, InForce
  <2>5. \/ pools' = [managed |-> Se!Pushed(held[r]).managed, raw |-> Se!Pushed(b).raw]
        \/ pools' = [managed |-> Se!Pushed(a).managed, raw |-> Se!Pushed(held[r]).raw]
    BY <1>7, <2>4 DEF Se!PushManaged, Se!PushRaw
  <2>6. InForce'
    BY <2>1, <2>2, <2>5 DEF SettingsInv, InForce
  <2>. QED  BY <2>2, <2>3, <2>6 DEF SettingsInv
<1>8. CASE UNCHANGED Se!vars
  BY <1>8 DEF Se!vars, SettingsInv, SettingsShape, HeldInv, InForce
<1>. QED  BY <1>1, <1>2, <1>3, <1>4, <1>5, <1>6, <1>7, <1>8 DEF Se!Next

LEMMA InvIsSafe == SettingsInv => Se!LastGoodKept
<1>. SUFFICES ASSUME SettingsInv PROVE Se!LastGoodKept
  OBVIOUS
<1>. DEFINE Of(i) == Se!resolve(Se!load(edits[i]))
            good == GoodFiles(edits, current.capacity.value)
<1>1. \E i \in good : current = Of(i)
  BY DEF SettingsInv, InForce, Good
<1>2. PICK a, b \in Good(edits, current.capacity.value) :
        pools = [managed |-> Se!Pushed(a).managed, raw |-> Se!Pushed(b).raw]
  BY DEF SettingsInv, InForce
<1>3. PICK i \in good, j \in good : a = Of(i) /\ b = Of(j)
  BY <1>2 DEF Good
<1>4. \E k, l \in good : pools = [managed |-> Se!Pushed(Of(k)).managed, raw |-> Se!Pushed(Of(l)).raw]
  BY <1>2, <1>3
<1>. QED  BY <1>1, <1>4 DEF Se!LastGoodKept, GoodFiles

\* The services and the settings by themselves read the file in the same way.
LEMMA SameFile == Se!LastGoodKept <=> LastGoodKept
  BY DEF Se!LastGoodKept, LastGoodKept, Se!load, load, Se!resolve, resolve, Se!validate, validate,
         Se!Pushed, Pushed, Se!pick, pick, Se!override, override, Se!FromEnv, FromEnv, Se!FromFile, FromFile,
         Se!Keys, Keys, Se!Defaults, Defaults, Se!Positive, Positive

\* The values in force are those of one valid file, whatever was saved in between
\* and however the reloads overlap, and no pool is given a value that was not.
THEOREM LastGoodIsKept == Se!Spec => []LastGoodKept
  BY SettingsInit, SettingsStep, InvIsSafe, SameFile, PTL DEF Se!Spec

\* The file, and what reloading it comes to now.
LastFile == Se!load(edits[Len(edits)])
LastRefused == Se!Refused(LastFile)
LastTunables == Se!resolve(LastFile)

\* A time that a reload may have read.
Past(t) == t \in 1 .. Len(edits) \/ (t = None /\ edits[Len(edits)] = Missing)
Clocked == Past(modified) /\ \A r \in Reloaders : step[r] # "idle" => Past(seen[r])

\* A file whose time has been saved is in force, or was refused; while a reload that has
\* accepted it goes on it cannot have been refused.
Judged   == modified = Se!mtime => IF LastRefused THEN failed ELSE ~ failed /\ current = LastTunables
UpToDate == modified = Se!mtime => ~ LastRefused /\ ~ failed /\ current = LastTunables
Resting  == Judged /\ pools = Se!Pushed(current)

\* What holds of a reload that no other has met.
Phase(r) ==
  /\ step[r] \in {"stat", "check", "read"} => Resting
  /\ step[r] = "read" => (seen[r] = Se!mtime => held[r] = LastFile)
  /\ step[r] = "write" =>
       /\ pools = Se!Pushed(current)
       /\ modified = Se!mtime => ~ LastRefused /\ ~ failed /\ held[r] = LastTunables
  /\ step[r] \in {"apply", "managed", "raw"} => UpToDate
  /\ step[r] \in {"managed", "raw"} => held[r] = current
  /\ step[r] = "raw" => pools.managed = Se!Pushed(current).managed

Orderly ==
  /\ \A r, o \in Reloaders : step[r] # "idle" /\ step[o] # "idle" => r = o
  /\ (\A r \in Reloaders : step[r] = "idle") => Resting
  /\ \A r \in Reloaders : step[r] # "idle" => Phase(r)

Steps == \A r \in Reloaders :
           step[r] \in {"idle", "stat", "check", "read", "write", "apply", "managed", "raw"}

AppliedInv == Steps /\ Clocked /\ (clashed \/ Orderly)


\* An edit gives the file a time that no reload has read yet.
LEMMA EditIsNews ==
  ASSUME SettingsInv, Se!Edit
  PROVE  \A t : Past(t) => Past(t)' /\ t # Se!mtime'
<1>1. PICK v \in Versions : edits' = Append(edits, v)
  BY DEF Se!Edit
<1>2. edits[Len(edits)] # Missing /\ edits \in Seq(Versions)
  BY DEF Se!Edit, SettingsInv, SettingsShape
<1>3. Len(edits) \in Nat /\ Len(edits') = Len(edits) + 1
  BY <1>1, <1>2
<1>4. Se!mtime' \in {None, Len(edits) + 1}
  BY <1>3 DEF Se!mtime
<1>5. ASSUME NEW t, Past(t) PROVE Past(t)' /\ t # Se!mtime'
  <2>1. t \in 1 .. Len(edits)
    BY <1>2, <1>5 DEF Past
  <2>2. t \in 1 .. Len(edits') /\ t # Len(edits) + 1 /\ t \in Nat
    BY <1>3, <2>1
  <2>. QED  BY <1>4, <2>2, NoneAssumption DEF Past
<1>. QED  BY <1>5

\* The time of the file is one that a reload may read.
LEMMA TimeIsPast == SettingsInv => Past(Se!mtime)
<1>. SUFFICES ASSUME SettingsInv PROVE Past(Se!mtime)
  OBVIOUS
<1>1. edits # <<>>
  BY DEF SettingsInv, InForce, Good, GoodFiles
<1>2. Len(edits) \in 1 .. Len(edits)
  BY <1>1 DEF SettingsInv, SettingsShape
<1>. QED  BY <1>2 DEF Past, Se!mtime

\* A step of a reload that has met no other leaves the others idle.
LEMMA AloneAgain ==
  ASSUME NEW r \in Reloaders, \A o \in Reloaders \ {r} : step'[o] = "idle",
         step'[r] = "idle" => Resting', step'[r] # "idle" => Phase(r)'
  PROVE  Orderly'
<1>1. \A o \in Reloaders : step'[o] # "idle" => o = r
  OBVIOUS
<1>. QED  BY <1>1 DEF Orderly

\* The capacity is never changed, so that a file stays refused or valid.
LEMMA CapacityIsFixed ==
  ASSUME SettingsInv, [Se!Next]_(Se!vars)
  PROVE  current'.capacity.value = current.capacity.value
<1>1. ASSUME NEW r \in Reloaders, Se!Write(r)
      PROVE  current'.capacity.value = current.capacity.value
  <2>1. held[r] \in Good(edits, current.capacity.value) /\ current' = held[r]
    BY <1>1 DEF Se!Write, SettingsInv, HeldInv
  <2>. QED  BY <2>1, GoodCapacity
<1>2. ASSUME ~ (\E r \in Reloaders : Se!Write(r)) PROVE current' = current
  BY <1>2 DEF Se!Next, Se!vars, Se!Edit, Se!Stat, Se!Check, Se!Unchanged, Se!Read, Se!Accept, Se!Refuse,
              Se!Copy, Se!PushManaged, Se!PushRaw
<1>. QED  BY <1>1, <1>2

LEMMA FileIsKept ==
  ASSUME SettingsInv, [Se!Next]_(Se!vars), UNCHANGED edits
  PROVE  /\ Se!mtime' = Se!mtime /\ LastFile' = LastFile /\ LastTunables' = LastTunables
         /\ LastRefused' <=> LastRefused
         /\ \A t : Past(t)' <=> Past(t)
<1>1. current'.capacity.value = current.capacity.value
  BY CapacityIsFixed
<1>2. LastFile' = LastFile
  BY DEF LastFile
<1>3. LastRefused' <=> LastRefused
  BY <1>1, <1>2 DEF LastRefused, Se!Refused
<1>. QED  BY <1>2, <1>3 DEF Se!mtime, LastTunables, Past

LEMMA AppliedInit == Se!Init => AppliedInv
<1>. SUFFICES ASSUME Se!Init PROVE AppliedInv
  OBVIOUS
<1>1. SettingsInv
  BY SettingsInit
<1>2. \A r \in Reloaders : step[r] = "idle"
  BY DEF Se!Init
<1>3. modified = Se!mtime /\ ~ failed /\ pools = Se!Pushed(current)
  BY DEF Se!Init
<1>4. current = LastTunables /\ ~ LastRefused
  <2>1. PICK v \in Versions : /\ Se!load(v) # Invalid /\ Se!validate(Se!resolve(Se!load(v)).warming.value)
                              /\ edits = <<v>> /\ current = Se!resolve(Se!load(v))
    BY DEF Se!Init
  <2>2. edits[Len(edits)] = v
    BY <2>1
  <2>. QED  BY <2>1, <2>2 DEF LastTunables, LastRefused, LastFile, Se!Refused
<1>5. Resting
  BY <1>3, <1>4 DEF Resting, Judged
<1>. QED  BY <1>1, <1>2, <1>3, <1>5, TimeIsPast DEF AppliedInv, Steps, Clocked, Orderly

LEMMA StepsStep ==
  ASSUME SettingsInv, Steps, [Se!Next]_(Se!vars)
  PROVE  Steps'
<1>. USE DEF Steps, SettingsInv, SettingsShape, Se!Goto
<1>1. CASE Se!Edit
  BY <1>1 DEF Se!Edit
<1>2. ASSUME NEW r \in Reloaders,
             \/ Se!Stat(r) \/ Se!Check(r) \/ Se!Unchanged(r) \/ Se!Read(r) \/ Se!Accept(r) \/ Se!Refuse(r)
             \/ Se!Write(r) \/ Se!Copy(r) \/ Se!PushManaged(r) \/ Se!PushRaw(r)
      PROVE  Steps'
  <2>1. /\ step'[r] \in {"idle", "stat", "check", "read", "write", "apply", "managed", "raw"}
        /\ \A o \in Reloaders \ {r} : step'[o] = step[o]
    BY <1>2 DEF Se!Stat, Se!Check, Se!Unchanged, Se!Read, Se!Accept, Se!Refuse, Se!Write, Se!Copy,
                Se!PushManaged, Se!PushRaw
  <2>. QED  BY <2>1
<1>3. CASE UNCHANGED Se!vars
  BY <1>3 DEF Se!vars
<1>. QED  BY <1>1, <1>2, <1>3 DEF Se!Next

LEMMA ClockedStep ==
  ASSUME SettingsInv, Clocked, [Se!Next]_(Se!vars)
  PROVE  Clocked'
<1>. USE DEF SettingsInv, SettingsShape, Se!Goto
<1>1. CASE Se!Edit
  BY <1>1, EditIsNews DEF Clocked, Se!Edit
<1>2. ASSUME NEW r \in Reloaders, Se!Stat(r)
      PROVE  Clocked'
  <2>1. \A t : Past(t)' <=> Past(t)
    BY <1>2, FileIsKept DEF Se!Stat
  <2>2. seen'[r] = Se!mtime /\ \A o \in Reloaders \ {r} : seen'[o] = seen[o] /\ step'[o] = step[o]
    BY <1>2 DEF Se!Stat
  <2>. QED  BY <1>2, <2>1, <2>2, TimeIsPast DEF Clocked, Se!Stat
<1>3. ASSUME NEW r \in Reloaders,
             \/ Se!Check(r) \/ Se!Unchanged(r) \/ Se!Read(r) \/ Se!Accept(r) \/ Se!Refuse(r)
             \/ Se!Write(r) \/ Se!Copy(r) \/ Se!PushManaged(r) \/ Se!PushRaw(r)
      PROVE  Clocked'
  <2>1. /\ UNCHANGED <<edits, seen>> /\ step[r] # "idle" /\ modified' \in {modified, seen[r]}
        /\ \A o \in Reloaders \ {r} : step'[o] = step[o]
    BY <1>3 DEF Se!Check, Se!Unchanged, Se!Read, Se!Accept, Se!Refuse, Se!Write, Se!Copy,
                Se!PushManaged, Se!PushRaw
  <2>2. \A t : Past(t)' <=> Past(t)
    BY <2>1, FileIsKept
  <2>. QED  BY <2>1, <2>2 DEF Clocked
<1>4. CASE UNCHANGED Se!vars
  BY <1>4 DEF Se!vars, Clocked, Past
<1>. QED  BY <1>1, <1>2, <1>3, <1>4 DEF Se!Next


\* A reload that is under way has met no other.
LEMMA OthersAreIdle ==
  ASSUME Orderly, NEW r \in Reloaders, step[r] # "idle"
  PROVE  \A o \in Reloaders \ {r} : step[o] = "idle"
  BY DEF Orderly

LEMMA OrderlyStep ==
  ASSUME SettingsInv, Steps, Clocked, Orderly, [Se!Next]_(Se!vars), ~ clashed'
  PROVE  Orderly'
<1>. USE DEF SettingsInv, SettingsShape, Se!Goto
<1>1. CASE Se!Edit
  <2>1. UNCHANGED <<current, modified, failed, pools, step, seen, held>>
    BY <1>1 DEF Se!Edit
  <2>2. modified # Se!mtime' /\ \A r \in Reloaders : step[r] # "idle" => seen[r] # Se!mtime'
    BY <1>1, EditIsNews DEF Clocked
  <2>3. pools = Se!Pushed(current) => Resting'
    BY <2>1, <2>2 DEF Resting, Judged, Se!Pushed
  <2>4. ASSUME NEW r \in Reloaders, step[r] # "idle" PROVE Phase(r)'
    <3>1. Phase(r)
      BY <2>4 DEF Orderly
    <3>2. UpToDate'
      BY <2>1, <2>2 DEF UpToDate
    <3>. QED  BY <2>1, <2>2, <2>3, <2>4, <3>1, <3>2 DEF Phase, Resting, Se!Pushed
  <2>. QED  BY <2>1, <2>3, <2>4 DEF Orderly, Resting
<1>2. ASSUME NEW r \in Reloaders, Se!Stat(r)
      PROVE  Orderly'
  <2>1. /\ UNCHANGED <<edits, current, modified, failed, pools, held>> /\ step'[r] = "stat"
        /\ \A o \in Reloaders \ {r} : step'[o] = step[o]
    BY <1>2 DEF Se!Stat
  <2>2. \A o \in Reloaders : step[o] = "idle"
    BY <1>2 DEF Se!Stat
  <2>3. Resting
    BY <2>2 DEF Orderly
  <2>4. Se!mtime' = Se!mtime /\ LastTunables' = LastTunables /\ (LastRefused' <=> LastRefused)
    BY <2>1, FileIsKept
  <2>5. Resting'
    BY <2>1, <2>3, <2>4 DEF Resting, Judged, Se!Pushed
  <2>6. Phase(r)'
    BY <2>1, <2>5 DEF Phase
  <2>. QED  BY <2>1, <2>2, <2>6, AloneAgain
<1>3. ASSUME NEW r \in Reloaders, Se!Check(r) \/ Se!Unchanged(r)
      PROVE  Orderly'
  <2>1. /\ UNCHANGED <<edits, current, modified, failed, pools, held>> /\ step'[r] \in {"check", "idle"}
        /\ step[r] = "stat" /\ \A o \in Reloaders \ {r} : step'[o] = step[o]
    BY <1>3 DEF Se!Check, Se!Unchanged
  <2>2. \A o \in Reloaders \ {r} : step'[o] = "idle"
    BY <2>1, OthersAreIdle
  <2>3. Resting
    BY <2>1 DEF Orderly, Phase
  <2>4. Se!mtime' = Se!mtime /\ LastTunables' = LastTunables /\ (LastRefused' <=> LastRefused)
    BY <2>1, FileIsKept
  <2>5. Resting'
    BY <2>1, <2>3, <2>4 DEF Resting, Judged, Se!Pushed
  <2>6. step'[r] # "idle" => Phase(r)'
    BY <2>1, <2>5 DEF Phase
  <2>. QED  BY <2>2, <2>5, <2>6, AloneAgain
<1>4. ASSUME NEW r \in Reloaders, Se!Read(r)
      PROVE  Orderly'
  <2>1. /\ UNCHANGED <<edits, current, modified, failed, pools, seen>> /\ step'[r] = "read"
        /\ step[r] = "check" /\ held'[r] = LastFile
        /\ \A o \in Reloaders \ {r} : step'[o] = step[o]
    BY <1>4 DEF Se!Read, LastFile
  <2>2. \A o \in Reloaders \ {r} : step'[o] = "idle"
    BY <2>1, OthersAreIdle
  <2>3. Resting
    BY <2>1 DEF Orderly, Phase
  <2>4. /\ Se!mtime' = Se!mtime /\ LastTunables' = LastTunables /\ (LastRefused' <=> LastRefused)
        /\ LastFile' = LastFile
    BY <2>1, FileIsKept
  <2>5. Resting'
    BY <2>1, <2>3, <2>4 DEF Resting, Judged, Se!Pushed
  <2>6. Phase(r)'
    BY <2>1, <2>4, <2>5 DEF Phase
  <2>. QED  BY <2>1, <2>2, <2>6, AloneAgain
<1>5. ASSUME NEW r \in Reloaders, Se!Accept(r)
      PROVE  Orderly'
  <2>1. /\ UNCHANGED <<edits, current, pools, seen>> /\ step'[r] = "write" /\ ~ failed'
        /\ step[r] = "read" /\ held'[r] = Se!resolve(held[r]) /\ modified' = seen[r]
        /\ ~ Se!Refused(held[r])
        /\ \A o \in Reloaders \ {r} : step'[o] = step[o]
    BY <1>5 DEF Se!Accept
  <2>2. \A o \in Reloaders \ {r} : step'[o] = "idle"
    BY <2>1, OthersAreIdle
  <2>3. Phase(r)
    BY <2>1 DEF Orderly
  <2>4. Se!mtime' = Se!mtime /\ LastTunables' = LastTunables /\ (LastRefused' <=> LastRefused)
    BY <2>1, FileIsKept
  <2>5. seen[r] = Se!mtime => ~ LastRefused /\ held'[r] = LastTunables
    BY <2>1, <2>3 DEF Phase, LastRefused, LastTunables
  <2>6. pools' = Se!Pushed(current)'
    BY <2>1, <2>3 DEF Phase, Resting, Se!Pushed
  <2>7. Phase(r)'
    BY <2>1, <2>4, <2>5, <2>6 DEF Phase
  <2>. QED  BY <2>1, <2>2, <2>7, AloneAgain
<1>6. ASSUME NEW r \in Reloaders, Se!Refuse(r)
      PROVE  Orderly'
  <2>1. /\ UNCHANGED <<edits, current, pools, seen>> /\ step'[r] = "idle" /\ failed' = TRUE
        /\ step[r] = "read" /\ modified' = seen[r] /\ Se!Refused(held[r])
        /\ \A o \in Reloaders \ {r} : step'[o] = step[o]
    BY <1>6 DEF Se!Refuse
  <2>2. \A o \in Reloaders \ {r} : step'[o] = "idle"
    BY <2>1, OthersAreIdle
  <2>3. Phase(r)
    BY <2>1 DEF Orderly
  <2>4. Se!mtime' = Se!mtime /\ (LastRefused' <=> LastRefused)
    BY <2>1, FileIsKept
  <2>5. seen[r] = Se!mtime => LastRefused
    BY <2>1, <2>3 DEF Phase, LastRefused
  <2>6. Resting'
    BY <2>1, <2>3, <2>4, <2>5 DEF Phase, Resting, Judged, Se!Pushed
  <2>. QED  BY <2>1, <2>2, <2>6, AloneAgain
<1>7. ASSUME NEW r \in Reloaders, Se!Write(r)
      PROVE  Orderly'
  <2>1. /\ UNCHANGED <<edits, modified, failed, pools>> /\ current' = held[r] /\ step[r] = "write"
        /\ step'[r] = (IF r = "poller" /\ current = held[r] THEN "idle" ELSE "apply")
        /\ \A o \in Reloaders \ {r} : step'[o] = step[o]
    BY <1>7 DEF Se!Write
  <2>2. \A o \in Reloaders \ {r} : step'[o] = "idle"
    BY <2>1, OthersAreIdle
  <2>3. /\ pools = Se!Pushed(current)
        /\ modified = Se!mtime => ~ LastRefused /\ ~ failed /\ held[r] = LastTunables
    BY <2>1 DEF Orderly, Phase
  <2>4. Se!mtime' = Se!mtime /\ LastTunables' = LastTunables /\ (LastRefused' <=> LastRefused)
    BY <2>1, FileIsKept
  <2>5. UpToDate'
    BY <2>1, <2>3, <2>4 DEF UpToDate
  <2>6. CASE step'[r] = "idle"
    <3>1. current' = current
      BY <2>1, <2>6
    <3>2. pools' = Se!Pushed(current)'
      BY <2>1, <2>3, <3>1 DEF Se!Pushed
    <3>3. Resting'
      BY <2>5, <3>2 DEF UpToDate, Judged, Resting
    <3>. QED  BY <2>2, <2>6, <3>3, AloneAgain
  <2>7. CASE step'[r] = "apply"
    <3>1. Phase(r)'
      BY <2>5, <2>7 DEF Phase
    <3>. QED  BY <2>2, <2>7, <3>1, AloneAgain
  <2>. QED  BY <2>1, <2>6, <2>7
<1>8. ASSUME NEW r \in Reloaders, Se!Copy(r)
      PROVE  Orderly'
  <2>1. /\ UNCHANGED <<edits, current, modified, failed, pools>> /\ held'[r] = current
        /\ step[r] = "apply" /\ step'[r] = "managed" /\ \A o \in Reloaders \ {r} : step'[o] = step[o]
    BY <1>8 DEF Se!Copy
  <2>2. \A o \in Reloaders \ {r} : step'[o] = "idle"
    BY <2>1, OthersAreIdle
  <2>3. UpToDate
    BY <2>1 DEF Orderly, Phase
  <2>4. Se!mtime' = Se!mtime /\ LastTunables' = LastTunables /\ (LastRefused' <=> LastRefused)
    BY <2>1, FileIsKept
  <2>5. UpToDate'
    BY <2>1, <2>3, <2>4 DEF UpToDate
  <2>6. Phase(r)'
    BY <2>1, <2>5 DEF Phase
  <2>. QED  BY <2>1, <2>2, <2>6, AloneAgain
<1>9. ASSUME NEW r \in Reloaders, Se!PushManaged(r)
      PROVE  Orderly'
  <2>1. /\ UNCHANGED <<edits, current, modified, failed, held>> /\ step[r] = "managed" /\ step'[r] = "raw"
        /\ pools' = [pools EXCEPT !.managed = Se!Pushed(held[r]).managed]
        /\ \A o \in Reloaders \ {r} : step'[o] = step[o]
    BY <1>9 DEF Se!PushManaged
  <2>2. \A o \in Reloaders \ {r} : step'[o] = "idle"
    BY <2>1, OthersAreIdle
  <2>3. UpToDate /\ held[r] = current
    BY <2>1 DEF Orderly, Phase
  <2>4. Se!mtime' = Se!mtime /\ LastTunables' = LastTunables /\ (LastRefused' <=> LastRefused)
    BY <2>1, FileIsKept
  <2>5. UpToDate'
    BY <2>1, <2>3, <2>4 DEF UpToDate
  <2>6. pools'.managed = Se!Pushed(current)'.managed
    <3>1. PICK a, b : pools = [managed |-> Se!Pushed(a).managed, raw |-> Se!Pushed(b).raw]
      BY DEF InForce
    <3>. QED  BY <2>1, <2>3, <3>1 DEF Se!Pushed
  <2>7. Phase(r)'
    BY <2>1, <2>3, <2>5, <2>6 DEF Phase
  <2>. QED  BY <2>1, <2>2, <2>7, AloneAgain
<1>10. ASSUME NEW r \in Reloaders, Se!PushRaw(r)
       PROVE  Orderly'
  <2>1. /\ UNCHANGED <<edits, current, modified, failed>> /\ step[r] = "raw" /\ step'[r] = "idle"
        /\ pools' = [pools EXCEPT !.raw = Se!Pushed(held[r]).raw]
        /\ \A o \in Reloaders \ {r} : step'[o] = step[o]
    BY <1>10 DEF Se!PushRaw
  <2>2. \A o \in Reloaders \ {r} : step'[o] = "idle"
    BY <2>1, OthersAreIdle
  <2>3. UpToDate /\ held[r] = current /\ pools.managed = Se!Pushed(current).managed
    BY <2>1 DEF Orderly, Phase
  <2>4. Se!mtime' = Se!mtime /\ LastTunables' = LastTunables /\ (LastRefused' <=> LastRefused)
    BY <2>1, FileIsKept
  <2>5. UpToDate'
    BY <2>1, <2>3, <2>4 DEF UpToDate
  <2>6. pools' = Se!Pushed(current)'
    <3>1. PICK a, b : pools = [managed |-> Se!Pushed(a).managed, raw |-> Se!Pushed(b).raw]
      BY DEF InForce
    <3>. QED  BY <2>1, <2>3, <3>1 DEF Se!Pushed
  <2>7. Resting'
    BY <2>5, <2>6 DEF UpToDate, Judged, Resting
  <2>. QED  BY <2>1, <2>2, <2>7, AloneAgain
<1>11. CASE UNCHANGED Se!vars
  <2>1. UNCHANGED <<edits, current, modified, failed, pools, step, seen, held>>
    BY <1>11 DEF Se!vars
  <2>2. /\ Se!mtime' = Se!mtime /\ LastTunables' = LastTunables /\ (LastRefused' <=> LastRefused)
        /\ LastFile' = LastFile /\ Se!Pushed(current)' = Se!Pushed(current)
    BY <2>1, FileIsKept DEF Se!Pushed
  <2>. QED  BY <2>1, <2>2 DEF Orderly, Phase, Resting, Judged, UpToDate
<1>. QED
  BY <1>1, <1>2, <1>3, <1>4, <1>5, <1>6, <1>7, <1>8, <1>9, <1>10, <1>11 DEF Se!Next

LEMMA AppliedStep == SettingsInv /\ AppliedInv /\ [Se!Next]_(Se!vars) => AppliedInv'
<1>. SUFFICES ASSUME SettingsInv, AppliedInv, [Se!Next]_(Se!vars) PROVE AppliedInv'
  OBVIOUS
<1>1. clashed => clashed'
  BY DEF Se!Next, Se!vars, Se!Edit, Se!Stat, Se!Check, Se!Unchanged, Se!Read, Se!Accept, Se!Refuse,
         Se!Write, Se!Copy, Se!PushManaged, Se!PushRaw
<1>. QED  BY <1>1, StepsStep, ClockedStep, OrderlyStep DEF AppliedInv

LEMMA AppliedIsSettled == AppliedInv => SettledMeansApplied
  BY DEF AppliedInv, Orderly, Resting, Judged, LastRefused, LastTunables, LastFile,
         SettledMeansApplied, Se!SettledMeansApplied, Se!Settled

\* Once the last edit has been seen and nobody reloads, the tunables and both pools
\* are those of the file, or it was refused, unless two reloads have overlapped.
THEOREM SettledIsApplied == Se!Spec => []SettledMeansApplied
  BY SettingsInit, SettingsStep, AppliedInit, AppliedStep, AppliedIsSettled, PTL DEF Se!Spec

-----------------------------------------------------------------------------
(* The files *)

\* The proofs about the files by themselves, read with the variables they have here.
Lp == INSTANCE LearningProofs WITH Tasks <- Completions, pc <- writing

\* Both readings are of the same steps.
LEMMA SameLearning ==
  /\ Le!Init <=> Lp!Init
  /\ [Le!Next]_Le!vars <=> [Lp!Next]_Lp!vars
<1>. USE DEF Le!Writers, Lp!Writers, Le!Goto, Lp!Goto, Le!AfterSave, Lp!AfterSave,
             Le!footprints, Lp!footprints, Le!feedbacks, Lp!feedbacks
<1>1. Le!Init <=> Lp!Init
  BY DEF Le!Init, Lp!Init
<1>2. ASSUME NEW w \in Le!Writers PROVE (Le!Save(w) <=> Lp!Save(w)) /\ (Le!SaveFails(w) <=> Lp!SaveFails(w))
  BY DEF Le!Save, Lp!Save, Le!SaveFails, Lp!SaveFails
<1>3. ASSUME NEW w \in Le!Writers, NEW known PROVE Le!Observe(w, known) <=> Lp!Observe(w, known)
  BY DEF Le!Observe, Lp!Observe
<1>4. Le!Hints = Lp!Hints /\ \A c, b : Le!Runner(c, b) = Lp!Runner(c, b)
  BY DEF Le!Hints, Lp!Hints, Le!from_lookup, Lp!from_lookup, Le!Runner, Lp!Runner
<1>. USE DEF Le!record, Lp!record, Le!Grows, Lp!Grows, Le!Verified, Lp!Verified,
             Le!Same, Lp!Same, Le!taken_under, Lp!taken_under, Le!Measures, Lp!Measures
<1>5. ASSUME NEW known, NEW digest, NEW runner
      PROVE  Le!observe(known, "gpu", digest, Le!Hints, runner) = Lp!observe(known, "gpu", digest, Lp!Hints, runner)
  BY <1>4 DEF Le!observe, Lp!observe
<1>6. ASSUME NEW known, NEW runners
      PROVE  Le!observe_resident(known, "gpu", Le!Hints, runners) = Lp!observe_resident(known, "gpu", Lp!Hints, runners)
  BY <1>4 DEF Le!observe_resident, Lp!observe_resident, Le!FoldLeft, Lp!FoldLeft,
              Le!MapThenFoldSet, Lp!MapThenFoldSet, Le!Max, Lp!Max
<1>7. ASSUME NEW t \in Completions PROVE Le!Completed(t) <=> Lp!Completed(t)
  BY <1>3, <1>4, <1>5 DEF Le!Completed, Lp!Completed
<1>8. ASSUME NEW v \in Viewers PROVE Le!Viewed(v) <=> Lp!Viewed(v)
  BY <1>3, <1>4, <1>6 DEF Le!Viewed, Lp!Viewed
<1>9. ASSUME NEW t \in Completions
      PROVE  /\ Le!Record(t) <=> Lp!Record(t)
             /\ Le!Reject(t) <=> Lp!Reject(t)
             /\ Le!Persist(t) <=> Lp!Persist(t)
             /\ Le!Report(t) <=> Lp!Report(t)
  BY DEF Le!Record, Lp!Record, Le!Reject, Lp!Reject, Le!Persist, Lp!Persist, Le!Report, Lp!Report
<1>10. Le!Restart <=> Lp!Restart
  BY DEF Le!Restart, Lp!Restart, Le!with_file, Lp!with_file, Le!load_feedback, Lp!load_feedback
<1>11. Le!vars = Lp!vars
  BY DEF Le!vars, Lp!vars
<1>12. (UNCHANGED Le!vars) <=> (UNCHANGED Lp!vars)
  BY DEF Le!vars, Lp!vars
<1>13. Le!Next <=> Lp!Next
  BY <1>2, <1>7, <1>8, <1>9, <1>10 DEF Le!Next, Lp!Next
<1>. QED  BY <1>1, <1>12, <1>13

\* "A slow write of an older snapshot never replaces a newer file" (footprint.rs:29):
\* the sizes on disk never become older while the services run side by side.
THEOREM FileNeverOlder == Le!Spec => FileNeverGoesBack
<1>1. Lp!FileNeverGoesBack <=> FileNeverGoesBack
  BY DEF Lp!FileNeverGoesBack, FileNeverGoesBack
<1>. QED  BY SameLearning, Lp!FileIsMonotonic, <1>1, PTL DEF Le!Spec, Lp!Spec

-----------------------------------------------------------------------------
(* All of them *)

\* Whatever the other services do, each keeps what it promises.
THEOREM TogetherTheyKeep ==
  ServicesSpec => /\ []ProbeOwned /\ EndsWhenWell /\ []FreshResidency /\ []FairStart /\ []EveryItemAnswered
                  /\ RaiseIsEarned /\ FileNeverGoesBack /\ []LastGoodKept /\ []SettledMeansApplied
  BY SideBySide, ProbeIsOwned, HoldsEndWhenWell, ResidencyIsFresh, StartsAreFair, EveryItemIsAnswered,
     RaisesAreEarned, FileNeverOlder, LastGoodIsKept, SettledIsApplied, PTL
=============================================================================

----------------------------- MODULE Catalogue ------------------------------
(***************************************************************************)
(* The catalogue of installed models (platform/catalog.rs): a cache of 30  *)
(* seconds, filled by one request at a time, and the residency of the      *)
(* runners, which every request reads anew.  Each HTTP call is a step of   *)
(* its own; Ollama loads and unloads runners at any time.                  *)
(***************************************************************************)
EXTENDS FiniteSets

CONSTANTS Callers,    \* requests that need the catalogue
          Installed,  \* Installed[b]: models of backend b; "cpu" is there when it is configured
          CpuModels,  \* models placed on the CPU backend
          None        \* an absent Option

VARIABLES
  loaded,  \* loaded[b]: models with a runner, as /api/ps says
  cache,   \* the saved catalogue: each model with whether it is resident
  fresh,   \* the cache is younger than 30 seconds
  filler,  \* the request that holds catalog_refresh
  at,      \* where each request is
  ps,      \* ps[r]: what r has read of each backend
  models,  \* models[r]: the catalogue r works on
  answer,  \* answer[r]: what r was given
  beheld   \* history: beheld[r][b]: what /api/ps could have said since r began

vars == <<loaded, cache, fresh, filler, at, ps, models, answer, beheld>>

Backends == DOMAIN Installed
Placed(m) == IF m \in CpuModels THEN "cpu" ELSE "gpu"

\* Models of an answer: the backend they are placed on must be configured and have them.
Offered == {m \in UNION {Installed[b] : b \in Backends} :
              Placed(m) \in Backends /\ m \in Installed[Placed(m)]}

Init == /\ loaded \in [Backends -> {{}}]
        /\ cache = None /\ fresh = FALSE /\ filler = None
        /\ at = [r \in Callers |-> "idle"]
        /\ ps = [r \in Callers |-> <<>>]
        /\ models = [r \in Callers |-> None]
        /\ answer = [r \in Callers |-> None]
        /\ beheld = [r \in Callers |-> [b \in Backends |-> {}]]

To(r, place) == at' = [at EXCEPT ![r] = place]
Unlock(r) == filler' = IF filler = r THEN None ELSE filler
\* What a request has read is dropped with it.
Drop(r) == ps' = [ps EXCEPT ![r] = <<>>] /\ models' = [models EXCEPT ![r] = None]

\* Ollama loads a runner, or lets go of one.
Change(b) == /\ \E m \in Installed[b] :
                  loaded' = [loaded EXCEPT ![b] = IF m \in @ THEN @ \ {m} ELSE @ \cup {m}]
             /\ beheld' = [r \in Callers |-> IF at[r] \in {"idle", "done"} THEN beheld[r]
                                             ELSE [beheld[r] EXCEPT ![b] = @ \cup {loaded'[b]}]]
             /\ UNCHANGED <<cache, fresh, filler, at, ps, models, answer>>

Expire == /\ fresh
          /\ fresh' = FALSE
          /\ UNCHANGED <<loaded, cache, filler, at, ps, models, answer, beheld>>

Start(r) == /\ at[r] = "idle"
            /\ beheld' = [beheld EXCEPT ![r] = [b \in Backends |-> {loaded[b]}]]
            /\ To(r, "lookup")
            /\ UNCHANGED <<loaded, cache, fresh, filler, ps, models, answer>>

\* discover_models: a cached catalogue is copied and its residency refreshed.
Hit(r) == /\ at[r] = "lookup" /\ fresh
          /\ models' = [models EXCEPT ![r] = cache]
          /\ To(r, "refresh")
          /\ UNCHANGED <<loaded, cache, fresh, filler, ps, answer, beheld>>
Miss(r) == /\ at[r] = "lookup" /\ ~ fresh
           /\ To(r, "waiting")
           /\ UNCHANGED <<loaded, cache, fresh, filler, ps, models, answer, beheld>>

\* fill_catalog: one at a time.
Lock(r) == /\ at[r] = "waiting" /\ filler = None
           /\ filler' = r
           /\ To(r, "again")
           /\ UNCHANGED <<loaded, cache, fresh, ps, models, answer, beheld>>

\* Mutant: what the other has fetched is new enough.
HitAgain_AsItIs(r) == /\ at[r] = "again" /\ fresh
                      /\ answer' = [answer EXCEPT ![r] = cache]
                      /\ Unlock(r)
                      /\ To(r, "done")
                      /\ UNCHANGED <<loaded, cache, fresh, ps, models, beheld>>

\* Another request has filled the cache while this one waited.
HitAgain(r) == /\ at[r] = "again" /\ fresh
               /\ models' = [models EXCEPT ![r] = cache]
               /\ Unlock(r)
               /\ To(r, "refresh")
               /\ UNCHANGED <<loaded, cache, fresh, ps, answer, beheld>>
MissAgain(r) == /\ at[r] = "again" /\ ~ fresh
                /\ To(r, "fetch")
                /\ UNCHANGED <<loaded, cache, fresh, filler, ps, models, answer, beheld>>

\* /api/ps of each backend, in any order; with it the tags when it is a fetch.
ReadPs(r, b) == /\ at[r] \in {"refresh", "fetch"}
                /\ b \notin DOMAIN ps[r]
                /\ ps' = [ps EXCEPT ![r] = [c \in DOMAIN ps[r] \cup {b} |->
                                              IF c = b THEN loaded[b] ELSE ps[r][c]]]
                /\ UNCHANGED <<loaded, cache, fresh, filler, at, models, answer, beheld>>

Resident(r, m) == Placed(m) \in Backends /\ m \in ps[r][Placed(m)]

\* refresh_residency: the residency of every model is replaced.
Refreshed(r) == /\ at[r] = "refresh" /\ DOMAIN ps[r] = Backends
                /\ answer' = [answer EXCEPT ![r] = [m \in DOMAIN models[r] |-> Resident(r, m)]]
                /\ Drop(r)
                /\ To(r, "done")
                /\ UNCHANGED <<loaded, cache, fresh, filler, beheld>>

\* show_models: a model whose /api/show fails is skipped; the rest, merged of
\* both backends, is saved and given to the request.
Fetched(r) == /\ at[r] = "fetch" /\ DOMAIN ps[r] = Backends
              /\ \E shown \in SUBSET Offered :
                   /\ cache' = [m \in shown |-> Resident(r, m)]
                   /\ answer' = [answer EXCEPT ![r] = [m \in shown |-> Resident(r, m)]]
              /\ fresh' = TRUE
              /\ Unlock(r)
              /\ Drop(r)
              /\ To(r, "done")
              /\ UNCHANGED <<loaded, beheld>>

\* Tags or ps cannot be read, a show is not JSON, or the client goes away.
Fail(r) == /\ at[r] \notin {"idle", "done"}
           /\ Unlock(r)
           /\ Drop(r)
           /\ To(r, "done")
           /\ UNCHANGED <<loaded, cache, fresh, answer, beheld>>

Next == \/ Expire
        \/ \E b \in Backends : Change(b)
        \/ \E r \in Callers : \/ Start(r) \/ Hit(r) \/ Miss(r) \/ Lock(r) \/ HitAgain(r) \/ MissAgain(r)
                              \/ Refreshed(r) \/ Fetched(r) \/ Fail(r)
                              \/ \E b \in Backends : ReadPs(r, b)

Spec == Init /\ [][Next]_vars

-----------------------------------------------------------------------------
(* Properties *)

\* What a request is told about a runner was so at some moment since the request
\* began, however old the rest of the catalogue is and whoever fetched it:
\* placement and eviction count on it ("live like residency", catalog.rs:346).
FreshResidency ==
  \A r \in Callers : answer[r] # None =>
    \A m \in DOMAIN answer[r] :
      \E L \in beheld[r][Placed(m)] : answer[r][m] <=> m \in L
=============================================================================

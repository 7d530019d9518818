--------------------------- MODULE PriceCheckpoint ---------------------------
(***************************************************************************)
(* Prices of models, and the checkpoint of the user's custom pricing       *)
(* (collector.py, orchestrator.py, persistence.py).                        *)
(*                                                                         *)
(* A model is priced once a day.  When custom-pricing.json appears or goes *)
(* away, the prices it affects are observed again; state.json, beside the  *)
(* cache of the profile, holds which presence the prices stored so far     *)
(* answer to, which models have had a custom price, and which are still to *)
(* be observed.  The prices go to the warehouse and the checkpoint to a    *)
(* file: no transaction covers both.                                       *)
(*                                                                         *)
(* Runs are numbered in the order of their start (started_at, which is the *)
(* collected_at of prices and the observed_at of the checkpoint).          *)
(***************************************************************************)
EXTENDS Naturals, FiniteSets, FiniteSetsExt

CONSTANTS Models,
          Pricers,      \* processes that collect for one source and destination
          PricingRuns,  \* bound: the runs
          PricingDays,  \* bound: the days
          MaxEdits,     \* bound: how often custom-pricing.json changes
          MaxSlips,     \* bound: how often something goes wrong
          InTurn        \* do runs exclude one another, as the lock of DuckDB makes them?

ASSUME PricingAssumption ==
  /\ PricingRuns \in Nat /\ PricingDays \in Nat \ {0}
  /\ MaxEdits \in Nat /\ MaxSlips \in Nat /\ InTurn \in BOOLEAN

VARIABLES
  priceDay,    \* the day
  custom,      \* custom-pricing.json: is it there, and which models does it price?
  prices,      \* price_versions: per day and model, where the current row comes from
  seen,        \* the models of stored usage
  checkpoint,  \* state.json: the entry of the destination
  pricer,      \* the runs in progress
  priced,      \* the number of runs started
  edits, slips,
  unsettled    \* for the properties: models published at a custom price since the checkpoint
               \* last came to say that the prices answer to custom pricing

shop == <<priceDay, custom, edits>>
pvars == <<shop, prices, seen, checkpoint, pricer, priced, slips, unsettled>>

Source == {"none", "automatic", "Custom"}
Price == [source: Source, run: 0 .. PricingRuns]
Unpriced == [m \in Models |-> [source |-> "none", run |-> 0]]
Custom == [present: BOOLEAN, covers: SUBSET Models]
Presence == {"unknown", "no", "yes"}
Checkpoint == [present: Presence, models: SUBSET Models, pending: SUBSET Models, at: 0 .. PricingRuns]
NoCheckpoint == [present |-> "unknown", models |-> {}, pending |-> {}, at |-> 0]

Stage == {"idle", "started", "loaded", "profiled", "prepared", "filtered", "published"}
Pricer ==
  [stage: Stage, run: 0 .. PricingRuns, persisted: [1 .. PricingDays -> SUBSET Models],
   seen: SUBSET Models, custom: Custom, state: Checkpoint, day: 1 .. PricingDays,
   active: SUBSET Models, needed: SUBSET Models, refresh: SUBSET Models, got: [Models -> Source]]
NoPricer ==
  [stage |-> "idle", run |-> 0, persisted |-> [d \in 1 .. PricingDays |-> {}],
   seen |-> {}, custom |-> [present |-> FALSE, covers |-> {}], state |-> NoCheckpoint,
   day |-> 1, active |-> {}, needed |-> {}, refresh |-> {}, got |-> [m \in Models |-> "none"]]

PricesInit ==
  /\ priceDay = 1 /\ custom \in [present: {FALSE}, covers: {{}}]
  /\ prices = [d \in 1 .. PricingDays |-> Unpriced]
  /\ seen = {} /\ checkpoint = NoCheckpoint
  /\ pricer = [p \in Pricers |-> NoPricer] /\ priced = 0
  /\ edits = 0 /\ slips = 0 /\ unsettled = {}

-----------------------------------------------------------------------------
(* The world. *)

\* The user writes, changes or removes custom-pricing.json.
Edit ==
  /\ edits < MaxEdits /\ edits' = edits + 1
  /\ custom' \in [present: {TRUE}, covers: SUBSET Models] \cup [present: {FALSE}, covers: {{}}]
  /\ custom' # custom
  /\ UNCHANGED <<priceDay, prices, seen, checkpoint, pricer, priced, slips, unsettled>>

NextDay ==
  /\ priceDay < PricingDays /\ priceDay' = priceDay + 1
  /\ UNCHANGED <<custom, edits, prices, seen, checkpoint, pricer, priced, slips, unsettled>>

Slip == slips < MaxSlips /\ slips' = slips + 1

\* state.json is lost, or cannot be decoded, which reads as no entry.
LoseCheckpoint ==
  /\ Slip /\ checkpoint # NoCheckpoint
  /\ checkpoint' = NoCheckpoint
  /\ UNCHANGED <<shop, prices, seen, pricer, priced, unsettled>>

-----------------------------------------------------------------------------
(* One run. *)

PricerAt(p, stage) == pricer[p].stage = stage

\* _write_pricing_state(): the newer observation wins.
Write(state) == checkpoint' = IF checkpoint.at > state.at THEN checkpoint ELSE state

StartPricing(p) ==
  /\ PricerAt(p, "idle") /\ priced < PricingRuns
  /\ InTurn => \A q \in Pricers : PricerAt(q, "idle")
  /\ priced' = priced + 1
  /\ pricer' = [pricer EXCEPT ![p] = [NoPricer EXCEPT !.stage = "started", !.run = priced + 1]]
  /\ UNCHANGED <<shop, prices, seen, checkpoint, slips, unsettled>>

\* load_ingest_status(): which models are priced on which days, and have usage.
Load(p) ==
  /\ PricerAt(p, "started")
  /\ pricer' = [pricer EXCEPT ![p].stage = "loaded", ![p].seen = seen,
       ![p].persisted = [d \in 1 .. PricingDays |-> {m \in Models : prices[d][m].source # "none"}]]
  /\ UNCHANGED <<shop, prices, seen, checkpoint, priced, slips, unsettled>>

\* tokscale_profile(): the copy of custom-pricing.json, and the checkpoint.
OpenProfile(p) ==
  /\ PricerAt(p, "loaded")
  /\ pricer' = [pricer EXCEPT ![p].stage = "profiled", ![p].custom = custom,
                              ![p].state = [checkpoint EXCEPT !.at = pricer[p].run]]
  /\ UNCHANGED <<shop, prices, seen, checkpoint, priced, slips, unsettled>>

\* MUTANT: a checkpoint that was lost is not recovered from the warehouse.
RecoveredWhilePending(p) ==
  IF pricer[p].state.pending # {}
    THEN {m \in Models : \E d \in 1 .. PricingDays : prices[d][m].source = "Custom"}
    ELSE {}

\* load_custom_pricing_models(): asked for when the checkpoint may have missed a model.
Recovered(p) ==
  LET state == pricer[p].state IN
  IF /\ UNION {pricer[p].persisted[d] : d \in 1 .. PricingDays} # {}
     /\ state.present = "unknown" \/ state.pending # {}
    THEN {m \in Models : \E d \in 1 .. PricingDays : prices[d][m].source = "Custom"}
    ELSE {}

Agrees(presence, present) == presence = IF present THEN "yes" ELSE "no"

\* TokscaleProfile.prepare_prices(): what is going to be observed again is on disk before
\* any of it is published.
Prepare(p) ==
  LET run == pricer[p]
      known == UNION {run.persisted[d] : d \in 1 .. PricingDays}
      models == run.state.models \cup Recovered(p) IN
  /\ PricerAt(p, "profiled")
  /\ \E active \in SUBSET Models :
       LET needed == active \cup (run.seen \ known)
           refresh == run.state.pending \cup
                        (IF Agrees(run.state.present, run.custom.present) THEN {}
                         ELSE IF run.custom.present THEN known \cup needed ELSE models)
           state == [run.state EXCEPT !.models = models, !.pending = @ \cup refresh] IN
       /\ Write(state)
       /\ pricer' = [pricer EXCEPT ![p].stage = "prepared", ![p].day = priceDay,
                       ![p].active = active, ![p].needed = needed, ![p].refresh = refresh,
                       ![p].state = state]
  /\ UNCHANGED <<shop, prices, seen, priced, slips, unsettled>>

\* _fetch_pricing(): the models to be priced today, some of which fail.
ToFetch(p) ==
  LET run == pricer[p] IN
  ((run.needed \ run.persisted[run.day]) \cup run.refresh)
    \ (run.persisted[priceDay] \ run.refresh)

\* TokscaleProfile.filter_prices(): an automatic price that custom pricing does not touch is
\* left as it was observed.
Ignored(p, fetched) ==
  LET run == pricer[p] IN
  {m \in (fetched \cap run.refresh \cap run.persisted[priceDay]) \ run.state.models :
     /\ run.custom.present /\ m \notin run.custom.covers
     /\ m \notin run.needed \ run.persisted[run.day]}

FetchPrices(p) ==
  LET run == pricer[p] IN
  /\ PricerAt(p, "prepared")
  /\ \E fetched \in SUBSET ToFetch(p) :
       LET kept == fetched \ Ignored(p, fetched)
           state == [run.state EXCEPT !.pending = @ \ Ignored(p, fetched)] IN
       /\ fetched # ToFetch(p) => slips < MaxSlips
       /\ slips' = IF fetched = ToFetch(p) THEN slips ELSE slips + 1
       /\ Write(state)
       /\ pricer' = [pricer EXCEPT ![p].stage = "filtered", ![p].day = priceDay, ![p].state = state,
            ![p].got = [m \in Models |->
                          IF m \notin kept THEN "none"
                          ELSE IF m \in run.custom.covers THEN "Custom" ELSE "automatic"]]
  /\ UNCHANGED <<shop, prices, seen, priced, unsettled>>

Observed(p) == {m \in Models : pricer[p].got[m] # "none"}
ObservedCustom(p) == {m \in Models : pricer[p].got[m] = "Custom"}

\* persist_batch(), as far as prices go: the row of a day and model is the newest.
PublishPrices(p) ==
  LET run == pricer[p] IN
  /\ PricerAt(p, "filtered")
  /\ prices' = [prices EXCEPT ![run.day] = [m \in Models |->
                  IF m \in Observed(p) /\ run.run > @[m].run
                    THEN [source |-> run.got[m], run |-> run.run] ELSE @[m]]]
  /\ seen' = seen \cup run.active
  /\ unsettled' = unsettled \cup ObservedCustom(p)
  /\ pricer' = [pricer EXCEPT ![p].stage = "published"]
  /\ UNCHANGED <<shop, checkpoint, priced, slips>>

\* MUTANT: the presence is advanced although prices of the transition are missing.
AcknowledgedAnyhow(p) ==
  LET run == pricer[p] IN
  [run.state EXCEPT !.present = IF run.custom.present THEN "yes" ELSE "no",
                    !.models = IF run.custom.present THEN @ \cup ObservedCustom(p) ELSE {},
                    !.pending = {}]

\* TokscaleProfile.acknowledge_prices()
Acknowledged(p) ==
  LET run == pricer[p]
      pending == run.state.pending \ Observed(p)
      models == run.state.models \cup ObservedCustom(p) IN
  IF pending # {} THEN [run.state EXCEPT !.pending = pending, !.models = models]
  ELSE [run.state EXCEPT !.pending = {},
          !.present = IF run.custom.present THEN "yes" ELSE "no",
          !.models = IF run.custom.present THEN models ELSE {}]

Acknowledge(p) ==
  /\ PricerAt(p, "published")
  /\ Write(Acknowledged(p))
  /\ unsettled' = IF Acknowledged(p).present = "yes" THEN unsettled \ Acknowledged(p).models
                                                     ELSE unsettled
  /\ pricer' = [pricer EXCEPT ![p] = NoPricer]
  /\ UNCHANGED <<shop, prices, seen, priced, slips>>

\* The process ends, or a step fails for good, the acknowledgement included.
GiveUp(p) ==
  /\ Slip /\ ~PricerAt(p, "idle")
  /\ pricer' = [pricer EXCEPT ![p] = NoPricer]
  /\ UNCHANGED <<shop, prices, seen, checkpoint, priced, unsettled>>

PricesNext ==
  \/ Edit \/ NextDay \/ LoseCheckpoint
  \/ \E p \in Pricers :
       \/ StartPricing(p) \/ Load(p) \/ OpenProfile(p) \/ Prepare(p) \/ FetchPrices(p)
       \/ PublishPrices(p) \/ Acknowledge(p) \/ GiveUp(p)

PricesSpec == PricesInit /\ [][PricesNext]_pvars

-----------------------------------------------------------------------------
\* The price a model goes by: that of its latest day.
GoesBy(m) ==
  LET days == {d \in 1 .. PricingDays : prices[d][m].source # "none"} IN
  IF days = {} THEN "none" ELSE prices[Max(days)][m].source

Settled(presence) == checkpoint.present = presence /\ checkpoint.pending = {}

\* Once the checkpoint says that the prices answer to no custom pricing, no model goes by a
\* custom price, whatever failed, was lost or was edited between runs, but for models priced
\* since it last said that they answer to custom pricing.
RemovalSettles ==
  Settled("no") => \A m \in Models \ unsettled : GoesBy(m) # "Custom"

\* A run that finds the prices to answer to another presence, and records that they answer to
\* that of custom pricing, has given every model the warehouse knows of the price it says.
AppearanceSettles ==
  [][\A p \in Pricers :
       /\ pricer[p].stage = "published" /\ pricer'[p].stage = "idle"
       /\ pricer[p].state.present # "yes" /\ checkpoint'.present = "yes"
     => \A m \in seen \cap pricer[p].custom.covers : GoesBy(m) = "Custom"]_pvars

\* Prices follow custom-pricing.json, when it goes away and when it appears.
PricesFollow == []RemovalSettles /\ AppearanceSettles
=============================================================================

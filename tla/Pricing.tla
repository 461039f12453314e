------------------------------ MODULE Pricing -------------------------------
(***************************************************************************)
(* The price of one model.  Prices of the configuration override those     *)
(* that a background task fetches: each cycle lists the providers once and *)
(* asks the enabled ones in turn for their models, while administrators    *)
(* enable and disable providers and the providers change their catalogs.   *)
(* Models do not affect each other, so one stands for all; a price, of     *)
(* input and output, is a value.                                           *)
(***************************************************************************)
EXTENDS Integers

CONSTANTS
  Vendors,      \* the providers, numbered in the order of their identifiers
  Prices,
  NoPrice

ASSUME VendorsAreNumbered == Vendors \subseteq Nat
ASSUME NoPriceIsNone == NoPrice \notin Prices

VARIABLES
  configured,   \* the price of the configuration
  priced,       \* the entry of the model in the table
  enabled,      \* the providers that are enabled
  catalog,      \* what the answer of each provider says of the model
  toAsk,        \* those the running cycle has yet to ask, in their order
  undisturbed   \* since the cycle began, no change and no failed fetch

priceVars == <<configured, priced, enabled, catalog, toAsk, undisturbed>>

\* How an entry of /v1/models writes its two prices.
Forms == {"strings", "numbers", "mixed", "absent"}
Entries == [form : Forms, price : Prices]

Unpriced == [price |-> NoPrice, source |-> "none"]
Override(price) == [price |-> price, source |-> "override"]
Fetched(price) == [price |-> price, source |-> "fetched"]

\* Both prices as strings, or both as numbers; otherwise the model is skipped.
ParseModels(entry) ==
  IF entry.form \in {"strings", "numbers"} THEN entry.price ELSE NoPrice

\* What a request for the model costs per token: nothing if it is unknown.
ComputeCost == IF priced.source = "none" THEN NoPrice ELSE priced.price

PricingInit ==
  /\ configured \in {NoPrice} \cup Prices
  /\ priced = IF configured = NoPrice THEN Unpriced ELSE Override(configured)
  /\ enabled \in SUBSET Vendors
  /\ catalog \in [Vendors -> Entries]
  /\ toAsk = {}
  /\ undisturbed = FALSE

\* The list may fail: then the cycle is over.
RefreshProviderPricesOnce ==
  /\ toAsk = {}
  /\ \/ /\ toAsk' = enabled
        /\ undisturbed' = TRUE
     \/ /\ undisturbed' = FALSE
        /\ UNCHANGED toAsk
  /\ UNCHANGED <<configured, priced, enabled, catalog>>

\* Deliberately wrong: a price that was fetched once is kept.
MergedOnce(price) ==
  IF price = NoPrice \/ priced.source # "none" THEN priced ELSE Fetched(price)

Merged(price) ==
  IF price = NoPrice \/ priced.source = "override" THEN priced ELSE Fetched(price)

FetchFromBackend(v) ==
  /\ v \in toAsk /\ \A w \in toAsk : v <= w
  /\ \/ priced' = Merged(ParseModels(catalog[v])) /\ UNCHANGED undisturbed
     \/ undisturbed' = FALSE /\ UNCHANGED priced
  /\ toAsk' = toAsk \ {v}
  /\ UNCHANGED <<configured, enabled, catalog>>

SwitchProvider(v) ==
  /\ enabled' = IF v \in enabled THEN enabled \ {v} ELSE enabled \cup {v}
  /\ undisturbed' = FALSE
  /\ UNCHANGED <<configured, priced, catalog, toAsk>>

ChangeCatalog(v) ==
  /\ \E entry \in Entries : catalog' = [catalog EXCEPT ![v] = entry]
  /\ undisturbed' = FALSE
  /\ UNCHANGED <<configured, priced, enabled, toAsk>>

PricingNext ==
  \/ RefreshProviderPricesOnce
  \/ \E v \in Vendors : FetchFromBackend(v) \/ SwitchProvider(v) \/ ChangeCatalog(v)

PricingSpec == PricingInit /\ [][PricingNext]_priceVars

-----------------------------------------------------------------------------
Listing == {v \in enabled : ParseModels(catalog[v]) # NoPrice}

(* A price of the configuration is never replaced.  After a cycle in which *)
(* every fetch succeeded and nothing changed, any other model costs what   *)
(* the last of the enabled providers that list it asks: an earlier price,  *)
(* or that of a provider since disabled, does not stay.                    *)
PricesAsListed ==
  /\ configured # NoPrice => ComputeCost = configured
  /\ (toAsk = {} /\ undisturbed /\ configured = NoPrice /\ Listing # {}) =>
       \E last \in Listing :
         /\ \A v \in Listing : v <= last
         /\ ComputeCost = ParseModels(catalog[last])
=============================================================================

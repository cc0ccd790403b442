------------------------------ MODULE FeedAdapters ------------------------------
(***************************************************************************)
(* The feeds of the data pipeline: how the values of each count in a       *)
(* snapshot, how long they stay fresh, and what a refresh of it can come   *)
(* to.  No adapter calls another one.                                      *)
(***************************************************************************)
EXTENDS Integers

\* "valid": every value passes its checks; "invalid": some value fails one; "failed": fetch or
\* normalise raises
Outcomes == {"valid", "invalid", "failed"}

SourceModes == {"LIVE", "LATEST_AVAILABLE", "SAMPLE", "SYNTHETIC", "ERROR"}

\* freshness in seconds
Feed(mode, sla, outcomes) ==
  [mode |-> mode, sla |-> sla, outcomes |-> outcomes, include |-> TRUE,
   forSnapshot |-> FALSE, forOptimiser |-> FALSE]

Optional(feed)        == [feed EXCEPT !.include = FALSE]
ForOptimiser(feed)    == [feed EXCEPT !.forOptimiser = TRUE]
Required(feed)        == [feed EXCEPT !.forSnapshot = TRUE, !.forOptimiser = TRUE]

\* the public feeds: HTTP errors and empty or malformed answers raise; a frequency outside 45..55 Hz
\* and an empty catalogue fail their check
ElexonSystem == Feed("LIVE", 180, Outcomes)
NesoSystem   == Feed("LIVE", 1800, Outcomes)

\* the samples are computed here, within their own checks
SampleForecast    == Required(Feed("SAMPLE", 1800, {"valid"}))
SamplePosition    == Required(Feed("SAMPLE", 900, {"valid"}))
SampleBattery     == Required(Feed("SAMPLE", 90, {"valid"}))
SampleLimits      == Required(Feed("SAMPLE", 7200, {"valid"}))
SampleServices    == Feed("SAMPLE", 3600, {"valid"})
SampleOptionality == Feed("SAMPLE", 3600, {"valid"})
SampleOrderBook   == Feed("SAMPLE", 90, {"valid"})

\* no provider is configured
UnconfiguredMarket == Optional(ForOptimiser(Feed("ERROR", 15, {"failed"})))

\* generated on request only
ExplicitSynthetic == Optional(Feed("SYNTHETIC", 3600, {"valid"}))

Adapter ==
  [elexon_system                  |-> ElexonSystem,
   neso_system                    |-> NesoSystem,
   forecast_sample                |-> SampleForecast,
   portfolio_position_sample      |-> SamplePosition,
   battery_telemetry_sample       |-> SampleBattery,
   battery_config_sample          |-> SampleLimits,
   market_intraday                |-> UnconfiguredMarket,
   market_order_book_sample       |-> SampleOrderBook,
   service_commitments_sample     |-> SampleServices,
   optionality_assumptions_sample |-> SampleOptionality,
   synthetic_demo                 |-> ExplicitSynthetic]

\* what bootstrap() refreshes, in this order
BootstrapFeeds ==
  <<"forecast_sample", "portfolio_position_sample", "battery_telemetry_sample",
    "battery_config_sample", "service_commitments_sample", "optionality_assumptions_sample",
    "market_intraday", "market_order_book_sample">>
================================================================================

-------------------------- MODULE MCDraftCommands --------------------------
(* Small instances of the snapshot-writing commands: one resource with its *)
(* forecast, one single-metric producer.                                   *)
EXTENDS DraftCommands, TLC

CONSTANTS roads, forecast_roads, combined, census

MCPart       == {roads, forecast_roads, census}
MCResource   == {roads}
MCForecastOf == roads :> forecast_roads
MCResourceJobs == <<roads>>
MCMetricJobs == <<census>>

\* With the combined pass, whose failure ends `all compute`, before the census.
MCAllParts   == {roads, forecast_roads, combined, census}
MCAllMetrics == <<combined, census>>

\* Rows as the commands write them, for the store's own type invariant.
MCRow == {ResultRow, CohortRow, HexRow, MetricRow}
           \cup {ForecastRow(a, b) : a, b \in 0..MaxRuns}

Symmetry == Permutations(Proc)
=============================================================================

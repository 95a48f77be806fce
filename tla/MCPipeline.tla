----------------------------- MODULE MCPipeline -----------------------------
(* The way from the configuration to the pages: what a city's configuration *)
(* is, how a command fans out over the cities, what compute makes of the    *)
(* stored features for pavement and for services, the commands that save    *)
(* it, the forecasts on it and the game.  Each behaviour is one part's; the *)
(* others stay as they began, on one of their inputs.                       *)
EXTENDS MCConf, MCFan, MCPavement, MCCover, MCDraftCommands, MCFore, MCGame

VARIABLE part

vars == <<part, configVars, fanVars, coverageVars, coverVars, commandVars, forecastVars,
          gameVars>>

Init ==
  /\ part \in {"config", "fan out", "pavement", "services", "commands", "forecast", "game"}
  /\ part # "config" => tree = FirstTree
  /\ part # "fan out" => inv = FirstInvocation
  /\ part # "pavement" => town = FirstTown
  /\ part # "services" => place = FirstPlace
  /\ part # "forecast" => network = FirstNetwork /\ scenario = DoNothing
  /\ part # "game" => board = FirstBoard
  /\ ConfigInit /\ FanInit /\ CoverageInit /\ CoverInit /\ CommandsInit
  /\ ForecastInit /\ GameInit

\* The variables of every part but one.
ButConfig == <<fanVars, coverageVars, coverVars, commandVars, forecastVars, gameVars>>
ButFan == <<configVars, coverageVars, coverVars, commandVars, forecastVars, gameVars>>
ButPavement == <<configVars, fanVars, coverVars, commandVars, forecastVars, gameVars>>
ButServices == <<configVars, fanVars, coverageVars, commandVars, forecastVars, gameVars>>
ButCommands == <<configVars, fanVars, coverageVars, coverVars, forecastVars, gameVars>>
ButForecast == <<configVars, fanVars, coverageVars, coverVars, commandVars, gameVars>>
ButGame == <<configVars, fanVars, coverageVars, coverVars, commandVars, forecastVars>>

Next ==
  /\ UNCHANGED part
  /\ \/ part = "config" /\ ConfigNext /\ UNCHANGED ButConfig
     \/ part = "fan out" /\ FanNext /\ UNCHANGED ButFan
     \/ part = "pavement" /\ CoverageNext /\ UNCHANGED ButPavement
     \/ part = "services" /\ CoverNext /\ UNCHANGED ButServices
     \/ part = "commands" /\ CommandsNext /\ UNCHANGED ButCommands
     \/ part = "forecast" /\ ForecastNext /\ UNCHANGED ButForecast
     \/ part = "game" /\ GameNext /\ UNCHANGED ButGame

Spec == Init /\ [][Next]_vars
=============================================================================

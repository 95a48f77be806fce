----------------------------- MODULE MCEndings ------------------------------
(* What must come to an end: a command whatever fails in it, the requests   *)
(* of the server, which wait for each other's builds, and a fetch from an   *)
(* upstream service.  Each behaviour is one of them, the others stay as     *)
(* they began.                                                              *)
EXTENDS MCDraftCommands, MCServe, MCUp

VARIABLE part

vars == <<part, commandVars, serveVars, upstreamVars>>

Init ==
  /\ part \in {"commands", "serve", "fetch"}
  /\ CommandsInit
  /\ ServeInit
  /\ UpstreamInit /\ (part = "fetch" \/ world = CHOOSE w \in Worlds : TRUE)

Next ==
  \/ part = "commands" /\ CommandsNext /\ UNCHANGED <<part, serveVars, upstreamVars>>
  \/ part = "serve" /\ ServeNext /\ UNCHANGED <<part, commandVars, upstreamVars>>
  \/ part = "fetch" /\ FetchStep /\ UNCHANGED <<part, commandVars, serveVars>>

\* The fairness of FairCommandsSpec, ServeSpec and UpstreamSpec, of each for
\* the behaviours that are its own: in the others nothing is owed, as no
\* command was started and no request has come.
Spec ==
  /\ Init /\ [][Next]_vars
  /\ \A p \in Proc : WF_commandVars(part = "commands" /\ Proceed(p))
  /\ \A r \in Visit : WF_serveVars(part = "serve" /\ Serve(r))
  /\ WF_upstreamVars(part = "fetch" /\ FetchStep)
=============================================================================

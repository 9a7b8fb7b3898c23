--------------------------- MODULE MCPmProcesses ---------------------------
(* PmProcesses on small instances: an application and a menu that need the  *)
(* same module, which needs nothing.                                        *)
EXTENDS PmProcesses

CONSTANTS n1, n2, n3, n4, n5, game, menu, module, pxi

MCFreeOrder3 == <<n1, n2, n3>>
MCFreeOrder5 == <<n1, n2, n3, n4, n5>>

NoDeps == [t \in Titles |-> <<>>]
MCKips == <<pxi>>
MCDeps == [t \in Titles |-> IF t \in {game, menu} THEN <<module>> ELSE <<>>]

\* What a free node holds matters only to who still refers to it.
Referenced == Range(list) \cup {g_manager.runningApplicationData, g_manager.debugData}
                \cup UNION {{th[t].process, th[t].dep} \cup Range(th[t].depProcs) : t \in DOMAIN th}
LiveView ==
  <<list, free, [n \in Nodes |-> IF n \in Referenced THEN proc[n] ELSE NoProcess],
    managerVars, lock, posted, th, mon, kernelVars>>

Cmd(call, title, flags, timeout) ==
  [call |-> call, title |-> title, flags |-> flags, timeout |-> timeout]

MCPatientCommands ==
  {Cmd("LaunchApp", game, {"notify"}, 0),
   Cmd("LaunchTitle", menu, {"loadDeps", "notify"}, 0),
   Cmd("LaunchTitle", module, {}, 0),
   Cmd("LaunchTitleUpdate", game, {"app", "loadDeps"}, 0),
   Cmd("LaunchTitleDebug", game, {"app"}, 0),
   Cmd("LaunchTitleDebug", game, {"app", "queue"}, 0),
   Cmd("RunQueuedProcess", game, {}, 0),
   Cmd("DebugNextApplicationByForce", game, {"debug"}, 0),
   Cmd("UnregisterProcess", menu, {}, 0),
   Cmd("UnregisterProcess", game, {}, 0),
   Cmd("TerminateApplication", game, {}, 1),
   Cmd("TerminateTitle", menu, {}, 0),
   Cmd("TerminateTitle", menu, {}, -1),
   Cmd("PrepareForReboot", menu, {}, 1),
   Cmd("PrepareForReboot", module, {}, 1)}

MCRacingKips == <<>>
MCRacingCommands ==
  {Cmd("LaunchApp", game, {"notify"}, 0),
   Cmd("LaunchTitleDebug", menu, {"loadDeps"}, 0),
   Cmd("UnregisterProcess", game, {}, 0),
   Cmd("TerminateApplication", game, {}, 0),
   Cmd("ChainloadHomebrewDirty", Null, {}, 1),
   Cmd("LaunchFirm", menu, {}, 1)}
MCDebugCommands ==
  {Cmd("LaunchApp", game, {"notify"}, 0),
   Cmd("LaunchTitleDebug", game, {"app"}, 0)}
MCChainloadCommands ==
  {Cmd("LaunchApp", game, {}, 0),
   Cmd("ChainloadHomebrewDirty", Null, {}, 1),
   Cmd("TerminateApplication", game, {}, 0)}
MCRacingFailures ==
  {<<"register", game>>, <<"load", module>>, <<"setUp", menu>>, <<"run", module>>}
MCFailures == {}
=============================================================================

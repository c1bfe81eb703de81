----------------------------- MODULE MCConsole -----------------------------
(* The console of an institution, with the sign-in before it, for TLC.    *)
(* The parts share no state but the session, so a behaviour is one of theirs; *)
(* the others rest in an initial state.                                       *)
EXTENDS SignIn, Settings, Dashboard, Figures

VARIABLE part

consoleVars == <<part, signInVars, settingsVars, dashVars, history>>

OfSignIn(A) ==
  part = "signin" /\ A /\ UNCHANGED <<part, settingsVars, dashVars, history>>
OfSettings(A) ==
  part = "settings" /\ A /\ UNCHANGED <<part, signInVars, dashVars, history>>
OfDashboard(A) ==
  part = "dashboard" /\ A /\ UNCHANGED <<part, signInVars, settingsVars, history>>
OfFigures(A) ==
  part = "figures" /\ A /\ UNCHANGED <<part, signInVars, settingsVars, dashVars>>

ConsoleInit ==
  /\ part \in {"signin", "settings", "dashboard", "figures"}
  /\ SignInInit /\ (part # "signin" => ~blocked)
  /\ SettingsInit /\ DashInit /\ FiguresInit

ConsoleNext ==
  \/ OfSignIn(SignInNext)
  \/ OfSettings(SettingsNext)
  \/ OfDashboard(DashNext)
  \/ OfFigures(FiguresNext)

\* The fairness of the parts' own specifications.
ConsoleFairness ==
  /\ \A t \in Tab : WF_consoleVars(OfSignIn(SignInStep(t)))
  /\ WF_consoleVars(OfSettings(Progress))
  /\ WF_consoleVars(OfDashboard(Returns))

ConsoleSpec == ConsoleInit /\ [][ConsoleNext]_consoleVars /\ ConsoleFairness
-----------------------------------------------------------------------------
\* The types of the four parts.
ConsoleTypeOK == SignInTypeOK /\ SettingsTypeOK /\ DashTypeOK /\ FiguresTypeOK

\* Whatever the console disables while it waits (the sign-in button, the cards, the
\* cycle button and the dialog) is enabled again, whatever fails.
ConsoleEnds == EverySignInEnds /\ RequestsEnd /\ DashboardIsFreed
=============================================================================

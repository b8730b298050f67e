---------------------------- MODULE RunControls -----------------------------
(***************************************************************************)
(* The language of a run: the selector, the Run button and the shortcut of *)
(* App.tsx, on top of ExecutionRequests.  The effect that listens for the  *)
(* shortcut keeps the closure of the render that set it up, and it is set  *)
(* up again when socket, ytext, isRunning or connected has changed in a    *)
(* commit; socket and ytext are there before the page can connect.         *)
(***************************************************************************)
EXTENDS ExecutionRequests

CONSTANTS
  Language,   \* the languages of the selector
  First       \* the one of them that a new page has selected

VARIABLES
  language,   \* language[c]: the React state, which the page shows
  listener,   \* listener[c]: language in the closure of the keydown listener
  emitted,    \* emitted[c]: language in the execute-code of the last run
  shown       \* history: the language that the page showed at that moment

languageVars == <<language, listener, emitted, shown>>

RunInit ==
  /\ Init
  /\ language = [c \in Client |-> First]
  /\ listener = [c \in Client |-> First]
  /\ emitted = [c \in Client |-> First]
  /\ shown = [c \in Client |-> First]

\* setLanguage: the commit changes no dependency of the effect.
SelectLanguage(c, l) ==
  /\ l # language[c]
  /\ language' = [language EXCEPT ![c] = l]
  /\ UNCHANGED <<vars, listener, emitted, shown>>

\* The button calls handleRunCode of the last render, the shortcut the one of
\* the closure.
RunsIn(c) == {language[c], listener[c]}

\* Every other step; one that commits a new view sets up the listener again.
Step ==
  /\ Next
  /\ listener' = [c \in Client |-> IF view'[c] # view[c] THEN language[c] ELSE listener[c]]
  /\ \E l \in [Client -> Language] :
       /\ \A c \in Client : l[c] \in IF runs'[c] # runs[c] THEN RunsIn(c) ELSE {emitted[c]}
       /\ emitted' = l
  /\ shown' = [c \in Client |-> IF runs'[c] # runs[c] THEN language[c] ELSE shown[c]]
  /\ UNCHANGED language

RunNext == Step \/ \E c \in Client, l \in Language : SelectLanguage(c, l)

RunSpec == RunInit /\ [][RunNext]_<<vars, languageVars>>

-----------------------------------------------------------------------------
(* Properties.                                                             *)

\* App.tsx, title of the Run button: "Run code (${getExecutionShortcutText()})".
\* The shortcut runs what the button runs, the code in the language that the
\* page shows.  The code does not provide this: language is missing from the
\* dependencies of the effect.
RunsShownLanguage == emitted = shown
=============================================================================

------------------------- MODULE MCBrowserSimCommands -------------------------
(***************************************************************************)
(* Instances of BrowserSimCommands.                                        *)
(***************************************************************************)
EXTENDS BrowserSimCommands
=============================================================================

--------------------------- MODULE MCBrowserLaunch ---------------------------
(* The instance of BrowserLaunch under its dialog for TLC. *)
EXTENDS LaunchModal
=============================================================================

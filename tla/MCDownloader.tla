---------------------------- MODULE MCDownloader ----------------------------
(* Small instances of Downloader.                                          *)
EXTENDS Downloader

CONSTANTS n1, n2

TwoRoutes == <<n1, n2>>
OneRoute == <<n1>>

\* The plain use of the screen: it is not left, no test is stopped, and the next one
\* starts when the last one is over.
Undisturbed ==
  /\ ~crashed /\ screen \in {"closed", "shown"} /\ main.at # "cancel" /\ early = {}
  /\ Len(cmds) <= Len(Routes)
  /\ Len(cmds) = Len(Routes) => \A k \in DOMAIN tasks : tasks[k].at = "over"

=============================================================================

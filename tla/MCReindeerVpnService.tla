------------------------ MODULE MCReindeerVpnService ------------------------
(* Small instances of ReindeerVpnService.                                  *)
EXTENDS ReindeerVpnService

=============================================================================

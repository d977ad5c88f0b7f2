--------------------------- MODULE MCNodeTelemetry ---------------------------
(* The instance of NodeTelemetry for TLC.                                    *)
EXTENDS NodeTelemetry

\* Without Vault neither of the two can be asked, so it is both at once.
MCFailing == {"kubernetes", "proxmox"}
==============================================================================

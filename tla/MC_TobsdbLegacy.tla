-------------------------- MODULE MC_TobsdbLegacy --------------------------
(* Model-checking instance of TobsdbLegacy, the legacy client.            *)
EXTENDS TobsdbLegacy

\* Every fault: failed handshakes, server closes, broken links and callers
\* with a timeout wrapper.
MC_LegacyFaults == {"handshake", "close", "link", "timeout"}

=============================================================================

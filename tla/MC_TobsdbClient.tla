-------------------------- MODULE MC_TobsdbClient --------------------------
(* Model-checking instance of TobsdbClient for the generic client.        *)
EXTENDS TobsdbRefinement

\* Handshake failures, server closes and broken links; callers that wait.
MC_FaultsNoTimeout == {"handshake", "close", "link"}

\* Every fault, callers with a timeout wrapper included.
MC_FaultsAll == FaultKinds

\* Failed handshakes and server closes on links that never break.
MC_FaultsNoLink == {"handshake", "close"}

\* Failed handshakes and broken links; servers never close, callers wait.
MC_FaultsNoClose == {"handshake", "link"}

\* Every fault but a broken link.
MC_FaultsNoBreak == {"handshake", "close", "timeout"}

MC_FaultsTimeout == {"timeout"}

MC_FaultsClose == {"close"}

MC_FaultsLink == {"link"}

=============================================================================

-------------------------- MODULE MCProxyConnection --------------------------
(* Rules that are balanced, with the breaker and without, and one for each  *)
(* reason to pass a request through: an address for a host, no proxying,    *)
(* no configuration of the service, no load balancing.  The peek sees two   *)
(* of three chunks, so the header may be read after the connection is       *)
(* handed over.                                                             *)
EXTENDS ProxyConnection

Rule(s, e, c, l, b) ==
    [service |-> s, enabled |-> e, configured |-> c, loadBalance |-> l, useBreaker |-> b]

MCRules ==
    {Rule(TRUE, TRUE, TRUE, TRUE, b) : b \in BOOLEAN}
    \cup {Rule(FALSE, TRUE, TRUE, TRUE, TRUE), Rule(TRUE, FALSE, TRUE, TRUE, TRUE),
          Rule(TRUE, TRUE, FALSE, TRUE, TRUE), Rule(TRUE, TRUE, TRUE, FALSE, TRUE)}
=============================================================================

--------------------------- MODULE MCSidecarClient ---------------------------
(* One service: services share no state but the locks of the two maps.  Four*)
(* requests are a subscription, its end, and two that race with either.     *)
EXTENDS SidecarClient
=============================================================================

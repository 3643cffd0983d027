--------------------------- MODULE EndpointSlices ---------------------------
(***************************************************************************)
(* internal/resources/endpointslice_cache.go: what the control plane knows *)
(* of the EndpointSlices, a map from service to the slices of the service. *)
(* Only the informer's goroutine uses it, so an operation of the cache is  *)
(* a function from the cache to the cache after it.                        *)
(***************************************************************************)
EXTENDS Naturals, Functions

NoSlices == [n \in {} |-> {}]

Of(c, svc) == IF svc \in DOMAIN c THEN c[svc] ELSE NoSlices

(* c with the slices of svc replaced. *)
Put(c, svc, slices) == [s \in DOMAIN c \cup {svc} |-> IF s = svc THEN slices ELSE c[s]]

(* D_EndpointSlice.OnAdded, and its map made for the first slice. *)
SliceAdded(c, name, es) ==
    Put(c, es.svc, [n \in DOMAIN Of(c, es.svc) \cup {name} |->
                      IF n = name THEN es.eps ELSE Of(c, es.svc)[n]])

(* The slice is filed under its old label; a slice whose label changes is  *)
(* left as it was.                                                         *)
SliceUpdated(c, name, old, new) ==
    IF old.svc = new.svc THEN SliceAdded(c, name, new)
    ELSE Put(c, old.svc, Of(c, old.svc))

SliceDeleted(c, name, old) ==
    LET left == Restrict(Of(c, old.svc), DOMAIN Of(c, old.svc) \ {name})
    IN  IF left = NoSlices THEN Restrict(c, DOMAIN c \ {old.svc}) ELSE Put(c, old.svc, left)

(* OnDelete looks at c[svcName] again after it deleted the entry of a      *)
(* service without slices: a nil pointer is read.                          *)
ReadsNil(c, name, old) ==
    old.svc \in DOMAIN c /\ old.svc \notin DOMAIN SliceDeleted(c, name, old)

(* GetMerged: the endpoints of all slices; newClientSubscriptionEvent puts *)
(* them in a map, so an endpoint in two slices counts once.                *)
GetMerged(c, svc) == UNION Range(Of(c, svc))
=============================================================================

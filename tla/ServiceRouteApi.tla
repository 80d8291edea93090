--------------------------- MODULE ServiceRouteApi ---------------------------
(***************************************************************************)
(* The calls of the typed client for ServiceRoutes (pkg/generated/         *)
(* clientset) that the controller makes, each with the API server's answer.*)
(* A store maps names to objects with a resource version rv; an answer is  *)
(* an error, an object and the store as the call leaves it.                *)
(***************************************************************************)
CONSTANT None

Answer(err, obj, store) == [err |-> err, obj |-> obj, store |-> store]

Stored(store, name, obj, version) ==
    LET new == [obj EXCEPT !.rv = version]
    IN  Answer("", new, [store EXCEPT ![name] = new])

Get(store, name) ==
    IF store[name] = None THEN Answer("NotFound", None, store)
    ELSE Answer("", store[name], store)

Create(store, name, obj, version) ==
    IF store[name] # None THEN Answer("AlreadyExists", None, store)
    ELSE Stored(store, name, obj, version)

\* Mutant: the body goes out without the resource version it was read with.
BlindUpdate(store, name, obj, version) ==
    IF store[name] = None THEN Answer("NotFound", None, store)
    ELSE Stored(store, name, obj, version)

\* The whole object is sent, status included (the CRD has no status
\* subresource), with the resource version of the copy.  A write that changes
\* nothing keeps the version.
Update(store, name, obj, version) ==
    CASE store[name] = None -> Answer("NotFound", None, store)
      [] store[name] # None /\ obj.rv # store[name].rv -> Answer("Conflict", None, store)
      [] obj = store[name] -> Answer("", obj, store)
      [] OTHER -> Stored(store, name, obj, version)

Delete(store, name) ==
    IF store[name] = None THEN Answer("NotFound", None, store)
    ELSE Answer("", None, [store EXCEPT ![name] = None])

List(store) == {name \in DOMAIN store : store[name] # None}

=============================================================================

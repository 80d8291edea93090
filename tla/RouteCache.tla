------------------------------ MODULE RouteCache ------------------------------
(***************************************************************************)
(* The ServiceRoutes of an application cluster as the controller sees      *)
(* them: API server, list and watch of the informer, its cache, the event  *)
(* handlers, and the status that a sync writes back from a copy of the     *)
(* cached object.  Objects carry the resource versions that RouteSync      *)
(* replaces by flags.                                                      *)
(***************************************************************************)
EXTENDS Naturals, Sequences

CONSTANTS
    Keys,           \* namespace/name of ServiceRoutes
    Workers,        \* goroutines running runWorker
    Routes,         \* values of spec.routeName
    Taken,          \* the status "already taken. please change routeName."
    None,
    MaxVersion,     \* bound on the resource versions handed out
    MaxBreaks       \* bound on the watches that cannot be resumed

Api == INSTANCE ServiceRouteApi

Statuses == Routes \cup {Taken, None}
Objects == [rv : 1 .. MaxVersion, route : Routes, status : Statuses]

ASSUME RouteCacheAssumption ==
    /\ None \notin Keys \cup Routes \cup {Taken}
    /\ None \notin Objects \cup [route : Routes, status : Statuses]
    /\ MaxVersion \in Nat /\ MaxBreaks \in Nat

VARIABLES
    server,     \* key |-> the ServiceRoute, or None
    version,    \* the last resource version handed out
    watching,   \* the watch is open
    events,     \* key |-> what the reflector has not yet stored, in order
    cache,      \* key |-> the indexer's object, or None
    notes,      \* key |-> kinds of events on their way to the handlers
    pending,    \* the keys that ask for a sync
    hand, seen, \* worker |-> its key, and the object its lister returned
    breaks,     \* watches broken so far
    past,       \* every object the server ever had, with its key
    looked      \* key |-> the object the last sync of it saw

serverVars == <<server, version, past>>
cacheVars == <<watching, events, cache, notes, breaks>>
workVars == <<pending, hand, seen, looked>>
vars == <<serverVars, cacheVars, workVars>>

Kinds == {"put", "delete", "tombstone"}
Contents == Objects \cup {None}

TypeOK ==
    /\ server \in [Keys -> Contents] /\ cache \in [Keys -> Contents]
    /\ version \in 0 .. MaxVersion
    /\ watching \in BOOLEAN
    /\ events \in [Keys -> Seq([kind : Kinds, obj : Contents])]
    /\ notes \in [Keys -> SUBSET Kinds]
    /\ pending \subseteq Keys
    /\ hand \in [Workers -> Keys \cup {None}]
    /\ seen \in [Workers -> Contents] /\ looked \in [Keys -> Contents]
    /\ breaks \in 0 .. MaxBreaks
    /\ past \subseteq Keys \X Objects

Nothing == [k \in Keys |-> None]

Init ==
    /\ server = Nothing /\ cache = Nothing /\ looked = Nothing
    /\ version = 0 /\ breaks = 0
    /\ watching = TRUE
    /\ events = [k \in Keys |-> <<>>]
    /\ notes = [k \in Keys |-> {}]
    /\ pending = {} /\ past = {}
    /\ hand = [w \in Workers |-> None] /\ seen = [w \in Workers |-> None]

-----------------------------------------------------------------------------
(* The API server and its users.                                           *)

Event(obj) == [kind |-> IF obj = None THEN "delete" ELSE "put", obj |-> obj]

\* The answer to a call about k takes effect, and a change goes to the watch.
Apply(k, answer) ==
    LET changed == answer.store # server
        new == answer.store[k]
    IN  /\ changed => version < MaxVersion
        /\ server' = answer.store
        /\ version' = IF changed THEN version + 1 ELSE version
        /\ past' = IF changed /\ new # None THEN past \cup {<<k, new>>} ELSE past
        /\ events' = IF changed /\ watching THEN [events EXCEPT ![k] = Append(@, Event(new))]
                     ELSE events
        /\ UNCHANGED <<watching, cache, notes, breaks>>

UserCreates(k, r) ==
    /\ server[k] = None
    /\ Apply(k, Api!Create(server, k, [rv |-> 0, route |-> r, status |-> None], version + 1))
    /\ UNCHANGED workVars

UserEdits(k, r) ==
    /\ server[k] # None
    /\ Apply(k, Api!Update(server, k, [server[k] EXCEPT !.route = r], version + 1))
    /\ UNCHANGED workVars

UserDeletes(k) ==
    /\ server[k] # None
    /\ Apply(k, Api!Delete(server, k))
    /\ UNCHANGED workVars

-----------------------------------------------------------------------------
(* The informer.                                                           *)

\* The watch ends, and is too old to be resumed: what it carried is lost.
WatchBreaks ==
    /\ watching /\ breaks < MaxBreaks
    /\ watching' = FALSE
    /\ breaks' = breaks + 1
    /\ events' = [k \in Keys |-> <<>>]
    /\ UNCHANGED <<serverVars, cache, notes, workVars>>

\* Mutant: the list is taken for a list of changes.
ListWithoutDeletions ==
    /\ ~ watching
    /\ watching' = TRUE
    /\ events' = [k \in Keys |-> IF k \in Api!List(server) THEN <<Event(server[k])>> ELSE <<>>]
    /\ UNCHANGED <<serverVars, cache, notes, breaks, workVars>>

\* ListFunc, then WatchFunc from the list's version.  What is cached and not
\* listed has been deleted, and is replaced by a tombstone.
ListAndWatch ==
    /\ ~ watching
    /\ watching' = TRUE
    /\ events' = [k \in Keys |->
                     CASE k \in Api!List(server) -> <<Event(server[k])>>
                       [] server[k] = None /\ cache[k] # None ->
                             <<[kind |-> "tombstone", obj |-> None]>>
                       [] OTHER -> <<>>]
    /\ UNCHANGED <<serverVars, cache, notes, breaks, workVars>>

\* The next event is stored, and passed on to the handlers.
Store(k) ==
    /\ events[k] # <<>>
    /\ cache' = [cache EXCEPT ![k] = Head(events[k]).obj]
    /\ notes' = [notes EXCEPT ![k] = @ \cup {Head(events[k]).kind}]
    /\ events' = [events EXCEPT ![k] = Tail(@)]
    /\ UNCHANGED <<serverVars, watching, breaks, workVars>>

\* Every 30 seconds the cached objects are passed to UpdateFunc again.
Resync(k) ==
    /\ cache[k] # None
    /\ notes' = [notes EXCEPT ![k] = @ \cup {"put"}]
    /\ UNCHANGED <<serverVars, watching, events, cache, breaks, workVars>>

\* AddFunc, UpdateFunc and DeleteFunc are enqueueServiceRoute, which cannot
\* make a key of the tombstone that a list puts in the place of a deletion.
Handle(k, kind) ==
    /\ kind \in notes[k]
    /\ notes' = [notes EXCEPT ![k] = @ \ {kind}]
    /\ pending' = IF kind = "tombstone" THEN pending ELSE pending \cup {k}
    /\ UNCHANGED <<serverVars, watching, events, cache, breaks, hand, seen, looked>>

-----------------------------------------------------------------------------
(* A sync, from its read of the cache to its write of the status.          *)

\* What the lister returns is the cached object itself.
LookUp(w, k) ==
    /\ hand[w] = None /\ k \in pending /\ \A v \in Workers : hand[v] # k
    /\ pending' = pending \ {k}
    /\ hand' = [hand EXCEPT ![w] = k]
    /\ seen' = [seen EXCEPT ![w] = cache[k]]
    /\ looked' = [looked EXCEPT ![k] = cache[k]]
    /\ UNCHANGED <<serverVars, cacheVars>>

EndSync(w) ==
    /\ hand' = [hand EXCEPT ![w] = None]
    /\ seen' = [seen EXCEPT ![w] = None]
    /\ UNCHANGED <<pending, looked>>

\* A new object, field by field: later writes to it do not reach the cache.
DeepCopy(obj) == [rv |-> obj.rv, route |-> obj.route, status |-> obj.status]

\* Mutant: the status is set in the cached object, which is then sent.
SharedStatus(w, status) ==
    LET k == hand[w]
        edited == [seen[w] EXCEPT !.status = status]
    IN  /\ k # None /\ seen[w] # None
        /\ cache' = IF cache[k] = seen[w] THEN [cache EXCEPT ![k] = edited] ELSE cache
        /\ EndSync(w)
        /\ UNCHANGED <<serverVars, watching, events, notes, breaks>>

\* The status is set in a deep copy, which is sent; errors are ignored.
PutStatus(w, status) ==
    /\ hand[w] # None /\ seen[w] # None
    /\ status \in {seen[w].route, Taken}
    /\ Apply(hand[w], Api!Update(server, hand[w],
                                 [DeepCopy(seen[w]) EXCEPT !.status = status], version + 1))
    /\ EndSync(w)

\* A sync that does not get as far, or whose update is lost.
WriteNothing(w) ==
    /\ hand[w] # None
    /\ EndSync(w)
    /\ UNCHANGED <<serverVars, cacheVars>>

Informer ==
    \/ ListAndWatch
    \/ \E k \in Keys : Store(k) \/ Resync(k) \/ \E kind \in notes[k] : Handle(k, kind)

Next ==
    \/ \E k \in Keys : UserDeletes(k) \/ \E r \in Routes : UserCreates(k, r) \/ UserEdits(k, r)
    \/ WatchBreaks \/ Informer
    \/ \E w \in Workers, k \in Keys : LookUp(w, k)
    \/ \E w \in Workers, s \in Statuses : PutStatus(w, s)
    \/ \E w \in Workers : WriteNothing(w)

(* Lists are answered, events and notifications arrive, the queue serves   *)
(* every key, and syncs end.                                               *)
Fairness ==
    /\ WF_vars(ListAndWatch)
    /\ \A k \in Keys : /\ WF_vars(Store(k)) /\ WF_vars(Resync(k))
                       /\ WF_vars(\E kind \in Kinds : Handle(k, kind))
                       /\ SF_vars(\E w \in Workers : LookUp(w, k))
    /\ \A w \in Workers : WF_vars(WriteNothing(w) \/ \E s \in Statuses : PutStatus(w, s))

SafetySpec == Init /\ [][Next]_vars
Spec == SafetySpec /\ Fairness

-----------------------------------------------------------------------------
\* "Objects returned here must be treated as read-only" (lister): what the
\* cache and the workers hold are objects that the server had, unedited, even
\* when the write of their status was refused.
CacheIsHistory ==
    /\ \A k \in Keys : cache[k] # None => <<k, cache[k]>> \in past
    /\ \A w \in Workers : seen[w] # None => <<hand[w], seen[w]>> \in past

\* Resource versions come to what RouteSync makes of them: the status is
\* written exactly when nobody has changed the ServiceRoute since it was
\* cached, and the write changes nothing but the status.
Copy == INSTANCE LaggedCopy WITH
    foo <- [k \in Keys |-> IF server[k] = None THEN None
                           ELSE [route |-> server[k].route, status |-> server[k].status]],
    lag <- [k \in Keys |-> \/ cache[k] # server[k]
                           \/ \E i \in DOMAIN events[k] : events[k][i].obj # server[k]],
    fresh <- [w \in Workers |-> seen[w] # None /\ seen[w] = server[hand[w]]]
ImplementsLaggedCopy == Copy!Spec

\* In the end the cache has the last version of each ServiceRoute and a sync
\* has seen it, across watches that break and syncs that overlap with edits;
\* that one is gone is seen by a sync if no watch breaks.
LastVersionIsSynced ==
    <>[](\A k \in Keys : /\ cache[k] = server[k]
                         /\ server[k] # None \/ breaks = 0 => looked[k] = server[k])

\* "This method should *not* be passed resources of any type other than
\* ServiceRoute" (enqueueServiceRoute, which is the informer's DeleteFunc).
OnlyServiceRoutes == \A k \in Keys : "tombstone" \notin notes[k]

=============================================================================

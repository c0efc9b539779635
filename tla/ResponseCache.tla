--------------------------- MODULE ResponseCache ---------------------------
(***************************************************************************)
(* CatalogHTTPCache of internal/middleware/response_cache.go: the map of   *)
(* cached catalog responses that all request goroutines share, and one GET *)
(* request as the steps between which another goroutine can run.  The lock *)
(* of the store is taken for the lookup, again to remove an expired entry, *)
(* and again to insert; between them the handler runs without it and reads *)
(* a database that a reseed may have replaced.                             *)
(*                                                                         *)
(* A body is the version of the catalog it was made from: two bodies are   *)
(* equal exactly when their ETags (SHA-256 of the body) are.  A key is what *)
(* cacheKey returns, the path with its sorted query.                       *)
(***************************************************************************)
EXTENDS Integers, FiniteSets

CONSTANTS Clients,      \* callers; each has one request at a time
          Keys,         \* cache keys
          MaxEntries,   \* store.maxEntries
          TTL,          \* lifetime of an entry, in ticks
          Second,       \* ticks per second: HTTP dates are in seconds
          MaxLatency,   \* bound on the ticks from the handler's read to the insertion
          MaxVersion,   \* bound on the number of reseeds
          MaxTime,      \* bound on the clock
          Validators,   \* the sets of validators that each client sends
          NoEntry,      \* no such key in store.data
          NoCopy        \* the client holds no response

Times    == 0..MaxTime
Versions == 0..MaxVersion

Entry == [body : Versions, lastMod : Times, expires : Nat]
Copy  == [key : Keys, body : Versions, tag : Versions, lastMod : Times]

ASSUME CacheAssumption ==
    /\ MaxEntries \in Nat \ {0} /\ TTL \in Nat \ {0} /\ Second \in Nat \ {0}
    /\ MaxLatency \in Nat /\ MaxVersion \in Nat /\ MaxTime \in Nat
    /\ Validators \in [Clients -> SUBSET SUBSET {"inm", "ims", "any"}]
    /\ IsFiniteSet(Keys)
    /\ NoEntry \notin Entry
    /\ NoCopy \notin Copy

VARIABLES now,        \* time.Now()
          version,    \* the catalog that the database holds
          replacedAt, \* history: when each version was replaced by the next
          data,       \* store.data
          req,        \* the request of each client: where it is and its locals
          copy,       \* the last response of each client, with its validators
          reply       \* the response the last step sent, if it sent one: tag is its
                      \* ETag, body what the client has after it (after a 304, its own)

vars == <<now, version, replacedAt, data, req, copy, reply>>

Idle == [pc |-> "idle"]

Nothing == [status |-> "none"]

(* The step sends no response. *)
Silent == reply' = Nothing

Init == /\ now = 0
        /\ version = 0
        /\ replacedAt = [v \in Versions |-> 0]
        /\ data = [k \in Keys |-> NoEntry]
        /\ req = [c \in Clients |-> Idle]
        /\ copy = [c \in Clients |-> NoCopy]
        /\ reply = Nothing

-----------------------------------------------------------------------------
(* The world around the cache. *)

(* A handler between its read and the insertion takes MaxLatency at most.  *)
Filling(c) == req[c].pc \in {"stamp", "insert"}

Tick == /\ now < MaxTime
        /\ \A c \in Clients : Filling(c) => now < req[c].readAt + MaxLatency
        /\ now' = now + 1
        /\ Silent
        /\ UNCHANGED <<version, replacedAt, data, req, copy>>

(* The catalog is seeded anew; the cache is not told. *)
Reseed == /\ version < MaxVersion
          /\ version' = version + 1
          /\ replacedAt' = [replacedAt EXCEPT ![version] = now]
          /\ Silent
          /\ UNCHANGED <<now, data, req, copy>>

(* A conditional request carries the validators of the copy it would renew. *)
Request(c) ==
    /\ req[c] = Idle
    /\ \E k \in Keys, v \in Validators[c] :
          /\ v # {} => copy[c] # NoCopy /\ copy[c].key = k
          /\ req' = [req EXCEPT ![c] = [pc |-> "lookup", key |-> k, cond |-> v]]
    /\ Silent
    /\ UNCHANGED <<now, version, replacedAt, data, copy>>

-----------------------------------------------------------------------------
(* The middleware. *)
Go(c, r) == req' = [req EXCEPT ![c] = r]

Miss(c) == Go(c, [pc |-> "handler", key |-> req[c].key])

(* Mutant of Lookup: the "ok" of the map access is ignored. *)
LookupUnguarded(c) ==
    /\ req[c].pc = "lookup"
    /\ Go(c, [pc |-> "check", key |-> req[c].key, cond |-> req[c].cond,
              ent |-> data[req[c].key]])
    /\ Silent
    /\ UNCHANGED <<now, version, replacedAt, data, copy>>

(* The entry is read under RLock. *)
Lookup(c) ==
    /\ req[c].pc = "lookup"
    /\ LET e == data[req[c].key]
       IN  IF e = NoEntry
           THEN Miss(c)
           ELSE Go(c, [pc |-> "check", key |-> req[c].key, cond |-> req[c].cond, ent |-> e])
    /\ Silent
    /\ UNCHANGED <<now, version, replacedAt, data, copy>>

(* "if ok && !time.Now().Before(ent.expires)", without the lock. *)
CheckExpired(c) ==
    /\ req[c].pc = "check"
    /\ IF now >= req[c].ent.expires
       THEN Go(c, [pc |-> "purge", key |-> req[c].key])
       ELSE Go(c, [req[c] EXCEPT !.pc = "hit"])
    /\ Silent
    /\ UNCHANGED <<now, version, replacedAt, data, copy>>

(* The key is deleted under the lock, whatever it maps to by now. *)
Purge(c) ==
    /\ req[c].pc = "purge"
    /\ data' = [data EXCEPT ![req[c].key] = NoEntry]
    /\ Miss(c)
    /\ Silent
    /\ UNCHANGED <<now, version, replacedAt, copy>>

(* The second a time falls in, as Last-Modified prints it. *)
SecondOf(t) == t - (t % Second)

(* Mutant of IsNotModified: a whole second is added to the date, so that   *)
(* the first instant of the next second counts as within it.               *)
IsNotModifiedNextSecond(c, e) ==
    \/ "any" \in req[c].cond
    \/ "inm" \in req[c].cond /\ copy[c].tag = e.body
    \/ "ims" \in req[c].cond /\ e.lastMod <= SecondOf(copy[c].lastMod) + Second

(* isNotModified: If-None-Match first, "*" or the tag of the copy; when it *)
(* does not match, the code falls through to If-Modified-Since.            *)
IsNotModified(c, e) ==
    \/ "any" \in req[c].cond
    \/ "inm" \in req[c].cond /\ copy[c].tag = e.body
    \/ "ims" \in req[c].cond /\ e.lastMod <= SecondOf(copy[c].lastMod) + Second - 1

(* "if ok && time.Now().Before(ent.expires)", the second look at the clock. *)
IsFresh(e) == now < e.expires

(* A 304 carries the entry's ETag and Last-Modified; the client keeps its  *)
(* body and files it under these headers.                                  *)
Serve304(c) ==
    /\ req[c].pc = "hit"
    /\ IsFresh(req[c].ent) /\ IsNotModified(c, req[c].ent)
    /\ reply' = [status |-> "not_modified", tag |-> req[c].ent.body,
                 body |-> copy[c].body]
    /\ copy' = [copy EXCEPT ![c].tag = req[c].ent.body, ![c].lastMod = req[c].ent.lastMod]
    /\ Go(c, Idle)
    /\ UNCHANGED <<now, version, replacedAt, data>>

(* A client gets a body with its validators; it keeps them if it is one    *)
(* that sends validators at all.                                           *)
Receive(c, body, lastMod) ==
    copy' = IF Validators[c] \subseteq {{}} THEN copy
            ELSE [copy EXCEPT ![c] = [key |-> req[c].key, body |-> body, tag |-> body,
                                      lastMod |-> lastMod]]

ServeEntry(c) ==
    /\ req[c].pc = "hit"
    /\ IsFresh(req[c].ent) /\ ~IsNotModified(c, req[c].ent)
    /\ reply' = [status |-> "ok", tag |-> req[c].ent.body,
                 body |-> req[c].ent.body]
    /\ Receive(c, req[c].ent.body, req[c].ent.lastMod)
    /\ Go(c, Idle)
    /\ UNCHANGED <<now, version, replacedAt, data>>

(* The entry expired between the two looks at the clock. *)
ExpiredAfterCheck(c) ==
    /\ req[c].pc = "hit"
    /\ ~IsFresh(req[c].ent)
    /\ Miss(c)
    /\ Silent
    /\ UNCHANGED <<now, version, replacedAt, data, copy>>

(* c.Next() with the capture writer: the handler reads the database ... *)
HandlerReads(c) ==
    /\ req[c].pc = "handler"
    /\ Go(c, [pc |-> "stamp", key |-> req[c].key, body |-> version, readAt |-> now])
    /\ Silent
    /\ UNCHANGED <<now, version, replacedAt, data, copy>>

(* ... or it fails (404, 500): what it wrote is passed on and not stored.  *)
HandlerFails(c) ==
    /\ req[c].pc = "handler"
    /\ reply' = [status |-> "error"]
    /\ Go(c, Idle)
    /\ UNCHANGED <<now, version, replacedAt, data, copy>>

(* lastMod is taken before the lock is. *)
Stamp(c) ==
    /\ req[c].pc = "stamp"
    /\ Go(c, [pc |-> "insert", key |-> req[c].key, body |-> req[c].body,
              readAt |-> req[c].readAt, lastMod |-> now])
    /\ Silent
    /\ UNCHANGED <<now, version, replacedAt, data, copy>>

(* store.data after cleanupExpiredLocked(t). *)
Live(t) == {k \in Keys : data[k] # NoEntry /\ t < data[k].expires}

(* Mutants of Victims: nothing is evicted until the store is over its      *)
(* bound; the youngest entries go instead of the oldest.                   *)
VictimsLate(t) ==
    IF Cardinality(Live(t)) > MaxEntries
    THEN {D \in SUBSET Live(t) : Cardinality(D) = Cardinality(Live(t)) - MaxEntries}
    ELSE {{}}
VictimsYoungest(t) ==
    IF Cardinality(Live(t)) >= MaxEntries
    THEN {D \in SUBSET Live(t) :
            /\ Cardinality(D) = Cardinality(Live(t)) - MaxEntries + 1
            /\ \A d \in D, k \in Live(t) \ D : data[d].expires >= data[k].expires}
    ELSE {{}}

(* What evictOldestLocked may delete: entries that expire first, in any    *)
(* order among those that expire together.                                 *)
Victims(t) ==
    IF Cardinality(Live(t)) >= MaxEntries
    THEN {D \in SUBSET Live(t) :
            /\ Cardinality(D) = Cardinality(Live(t)) - MaxEntries + 1
            /\ \A d \in D, k \in Live(t) \ D : data[d].expires <= data[k].expires}
    ELSE {{}}

(* Mutant of NewEntry: the lifetime is doubled.                            *)
NewEntryDoubled(c) ==
    [body |-> req[c].body, lastMod |-> req[c].lastMod, expires |-> now + 2 * TTL]

NewEntry(c) == [body |-> req[c].body, lastMod |-> req[c].lastMod, expires |-> now + TTL]

(* The store is cleaned of what had expired at lastMod, makes room if it   *)
(* is full (even when the key is in it already), and takes the entry; the  *)
(* response goes out with its own validators.                              *)
Insert(c) ==
    /\ req[c].pc = "insert"
    /\ \E D \in Victims(req[c].lastMod) :
          data' = [k \in Keys |->
                     IF k = req[c].key THEN NewEntry(c)
                     ELSE IF k \in Live(req[c].lastMod) \ D THEN data[k]
                     ELSE NoEntry]
    /\ reply' = [status |-> "ok", tag |-> req[c].body, body |-> req[c].body]
    /\ Receive(c, req[c].body, req[c].lastMod)
    /\ Go(c, Idle)
    /\ UNCHANGED <<now, version, replacedAt>>

Serve(c) == Serve304(c) \/ ServeEntry(c) \/ ExpiredAfterCheck(c)

Fill(c) == HandlerReads(c) \/ HandlerFails(c) \/ Stamp(c) \/ Insert(c)

Next == \/ Tick
        \/ Reseed
        \/ \E c \in Clients : \/ Request(c) \/ Lookup(c) \/ CheckExpired(c) \/ Purge(c)
                              \/ Serve(c) \/ Fill(c)

Spec == Init /\ [][Next]_vars

-----------------------------------------------------------------------------
(* Where a request may be, and the locals that are live there. *)
Conditions == SUBSET {"inm", "ims", "any"}

Looking == [pc : {"lookup"}, key : Keys, cond : Conditions]
Holding == [pc : {"check", "hit"}, key : Keys, cond : Conditions, ent : Entry]
Missing == [pc : {"purge", "handler"}, key : Keys]
Written == [pc : {"stamp"}, key : Keys, body : Versions, readAt : Times]
Stamped == [pc : {"insert"}, key : Keys, body : Versions, readAt : Times, lastMod : Times]

Stage == {Idle} \cup Looking \cup Holding \cup Missing \cup Written \cup Stamped

Response == [status : {"none", "error"}]
              \cup [status : {"ok", "not_modified"}, tag : Versions, body : Versions]

(* Every variable has its type. *)
TypeOK ==
    /\ now \in Times
    /\ version \in Versions
    /\ replacedAt \in [Versions -> Times]
    /\ data \in [Keys -> Entry \cup {NoEntry}]
    /\ req \in [Clients -> Stage]
    /\ copy \in [Clients -> Copy \cup {NoCopy}]
    /\ reply \in Response

(* The map stays within maxEntries, however the insertions of concurrent   *)
(* misses and the removals of expired entries interleave.                  *)
CapacityBound == Cardinality({k \in Keys : data[k] # NoEntry}) <= MaxEntries

(* Version v was what the database held at some time since t. *)
CurrentSince(v, t) == v = version \/ replacedAt[v] >= t

(* The cache is never told of a reseed and slow handlers may overwrite a   *)
(* newer entry with an older one; still, the representation a response     *)
(* names was the database's no more than a lifetime and the time of one    *)
(* fill ago.                                                               *)
BoundedStaleness ==
    reply.status \in {"ok", "not_modified"} =>
        CurrentSince(reply.tag, now - (TTL + MaxLatency))

(* A client that validates its copy by one header, the tag or the date,    *)
(* may be told to keep a body that the database no longer holds: by the    *)
(* date, a refill within the second of the copy is no modification, and    *)
(* the copy takes over the later date.  The date never gets past the end   *)
(* of that second, so this cannot go on: the body was the database's less  *)
(* than a lifetime, less than a second and no more than two fills ago.     *)
(* (With both headers it can: the copy takes over the tag of a body it     *)
(* does not have.)                                                         *)
BodiesAreRecent ==
    reply.status \in {"ok", "not_modified"} =>
        CurrentSince(reply.body, now - ((TTL - 1) + (Second - 1) + 2 * MaxLatency))

(* "serves consistent HTTP caching headers/validators" (the comment of     *)
(* CatalogHTTPCache): the ETag of a response is that of the body the       *)
(* client has after it, also when the response is a 304 and the body is    *)
(* the client's own copy.                                                  *)
ConsistentValidators ==
    reply.status \in {"ok", "not_modified"} => reply.tag = reply.body

(* An insertion costs the store at most one live entry of another key, and *)
(* none of another key expires before it and survives.                     *)
EvictsOldestOnly ==
    [][\A c \in Clients : Insert(c) =>
          LET Lost == {k \in Live(now) \ {req[c].key} : data'[k] = NoEntry}
              Kept == {k \in Keys \ {req[c].key} : data'[k] # NoEntry}
          IN  /\ Cardinality(Lost) <= 1
              /\ \A l \in Lost, k \in Kept : data[l].expires <= data[k].expires]_vars
=============================================================================

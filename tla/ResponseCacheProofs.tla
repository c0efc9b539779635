------------------------ MODULE ResponseCacheProofs ------------------------
(***************************************************************************)
(* The safety properties of ResponseCache for every number of clients,     *)
(* keys, entries and reseeds.  The inductive invariant carries what is     *)
(* known of a body along its way from the database to a client: when it    *)
(* was read, that it was current then, and by when its entry expires.      *)
(***************************************************************************)
EXTENDS ResponseCache, FiniteSetTheorems, TLAPS

(* An entry was current when it was read, which was not long before its    *)
(* date, and it expires in bounded time after both.                        *)
SoundEntry(e) ==
    /\ CurrentSince(e.body, e.expires - (TTL + MaxLatency))
    /\ CurrentSince(e.body, e.lastMod - MaxLatency)
    /\ e.lastMod <= now
    /\ e.expires <= e.lastMod + MaxLatency + TTL

DataInv == \A k \in Keys : data[k] # NoEntry => SoundEntry(data[k])

HoldingInv == \A c \in Clients : req[c].pc \in {"check", "hit"} => SoundEntry(req[c].ent)

(* A fill takes MaxLatency at most, and its date falls within it. *)
SoundFill(r) ==
    /\ CurrentSince(r.body, r.readAt)
    /\ r.readAt <= now
    /\ now <= r.readAt + MaxLatency
    /\ r.pc = "insert" => r.readAt <= r.lastMod /\ r.lastMod <= now

FillingInv == \A c \in Clients : Filling(c) => SoundFill(req[c])

(* Who sends validators has a copy they came with. *)
CopyInv ==
    \A c \in Clients :
        req[c].pc \in {"lookup", "check", "hit"} /\ req[c].cond # {} => copy[c] # NoCopy

IInv == TypeOK /\ DataInv /\ HoldingInv /\ FillingInv /\ BoundedStaleness /\ CopyInv
        /\ CapacityBound

-----------------------------------------------------------------------------
(* What the type of a request says at each of its stages. *)
LEMMA StageFacts ==
    ASSUME TypeOK, NEW c \in Clients
    PROVE  /\ req[c] # Idle <=> req[c].pc # "idle"
           /\ req[c].pc = "lookup" => req[c] \in Looking
           /\ req[c].pc \in {"check", "hit"} => req[c] \in Holding
           /\ req[c].pc \in {"purge", "handler"} => req[c] \in Missing
           /\ req[c].pc = "stamp" => req[c] \in Written
           /\ req[c].pc = "insert" => req[c] \in Stamped
<1>1. req[c] \in Stage
  BY DEF TypeOK
<1> QED BY <1>1 DEF Stage, Looking, Holding, Missing, Written, Stamped, Idle

LEMMA ConstantFacts ==
    /\ MaxEntries \in Nat /\ MaxEntries >= 1
    /\ TTL \in Nat /\ TTL >= 1 /\ MaxLatency \in Nat /\ MaxVersion \in Nat /\ MaxTime \in Nat
    /\ Times \subseteq Nat /\ Versions \subseteq Nat
BY CacheAssumption DEF Times, Versions

(* Time, requests and fills leave the database and its history alone. *)
LEMMA CurrentKept ==
    ASSUME UNCHANGED <<version, replacedAt>>
    PROVE  \A v, t : CurrentSince(v, t)' = CurrentSince(v, t)
BY DEF CurrentSince

(* Who sends nothing sends nothing stale. *)
LEMMA SilentStep ==
    ASSUME Silent
    PROVE  BoundedStaleness' /\ BodiesAreRecent' /\ reply' \in Response
BY DEF Silent, Nothing, BoundedStaleness, BodiesAreRecent, Response

LEMMA InitInv == Init => IInv
<1> SUFFICES ASSUME Init PROVE IInv
  OBVIOUS
<1>1. 0 \in Times /\ 0 \in Versions
  BY ConstantFacts DEF Times, Versions
<1>2. TypeOK
  BY <1>1 DEF Init, TypeOK, Stage, Response, Nothing
<1>3. DataInv /\ HoldingInv /\ FillingInv /\ BoundedStaleness /\ CopyInv
  BY DEF Init, DataInv, HoldingInv, FillingInv, BoundedStaleness, CopyInv, Filling, Idle, Nothing
<1>4. CapacityBound
  <2>1. {k \in Keys : data[k] # NoEntry} = {}
    BY DEF Init
  <2> QED BY <2>1, FS_EmptySet, ConstantFacts DEF CapacityBound
<1> QED BY <1>2, <1>3, <1>4 DEF IInv

-----------------------------------------------------------------------------
(* Enough for a step of client c to r: what it writes is typed and sound.  *)
LEMMA ClientStep ==
    ASSUME IInv, NEW c \in Clients, NEW r \in Stage,
           UNCHANGED <<now, version, replacedAt>>,
           req' = [req EXCEPT ![c] = r],
           r.pc \in {"check", "hit"} => SoundEntry(r.ent),
           r.pc \in {"stamp", "insert"} => SoundFill(r),
           r.pc \in {"lookup", "check", "hit"} /\ r.cond # {} => copy'[c] # NoCopy,
           copy' \in [Clients -> Copy \cup {NoCopy}],
           \A q \in Clients : q # c => copy'[q] = copy[q],
           data' \in [Keys -> Entry \cup {NoEntry}],
           \A k \in Keys : data'[k] # NoEntry => SoundEntry(data'[k]),
           CapacityBound',
           reply' \in Response,
           BoundedStaleness'
    PROVE  IInv'
<1>1. req \in [Clients -> Stage]
  BY DEF IInv, TypeOK
<1>2. req'[c] = r /\ \A q \in Clients : q # c => req'[q] = req[q]
  BY <1>1
<1>3. TypeOK'
  BY <1>1 DEF IInv, TypeOK
<1>4. \A e : SoundEntry(e)' = SoundEntry(e)
  BY DEF SoundEntry, CurrentSince
<1>5. DataInv'
  BY <1>4 DEF DataInv, SoundEntry, CurrentSince
<1>6. HoldingInv'
  BY <1>2 DEF IInv, HoldingInv, SoundEntry, CurrentSince
<1>7. FillingInv'
  BY <1>2 DEF IInv, FillingInv, Filling, SoundFill, CurrentSince
<1>8. CopyInv'
  BY <1>2 DEF IInv, CopyInv
<1> QED BY <1>3, <1>5, <1>6, <1>7, <1>8 DEF IInv

(* Of these steps, the ones that write nothing but the request. *)
LEMMA LocalStep ==
    ASSUME IInv, NEW c \in Clients, NEW r \in Stage,
           UNCHANGED <<now, version, replacedAt, data, copy>>, Silent,
           req' = [req EXCEPT ![c] = r],
           r.pc \in {"check", "hit"} => SoundEntry(r.ent),
           r.pc \in {"stamp", "insert"} => SoundFill(r),
           r.pc \in {"lookup", "check", "hit"} /\ r.cond # {} => copy[c] # NoCopy
    PROVE  IInv'
<1>1. CapacityBound'
  BY DEF IInv, CapacityBound
<1>2. BoundedStaleness' /\ reply' \in Response
  BY SilentStep
<1>3. /\ copy' \in [Clients -> Copy \cup {NoCopy}]
      /\ data' \in [Keys -> Entry \cup {NoEntry}]
  BY DEF IInv, TypeOK
<1>4. \A k \in Keys : data'[k] # NoEntry => SoundEntry(data'[k])
  BY DEF IInv, DataInv
<1> QED BY <1>1, <1>2, <1>3, <1>4, ClientStep

LEMMA RequestInv ==
    ASSUME IInv, NEW c \in Clients, Request(c)
    PROVE  IInv'
<1>1. PICK k \in Keys, v \in Validators[c] :
         /\ v # {} => copy[c] # NoCopy
         /\ req' = [req EXCEPT ![c] = [pc |-> "lookup", key |-> k, cond |-> v]]
  BY DEF Request
<1> DEFINE r == [pc |-> "lookup", key |-> k, cond |-> v]
<1>2. r \in Stage /\ r.pc = "lookup" /\ r.cond = v
  BY CacheAssumption DEF Stage, Looking, Conditions
<1>3. UNCHANGED <<now, version, replacedAt, data, copy>> /\ Silent
  BY DEF Request
<1> HIDE DEF r
<1>4. req' = [req EXCEPT ![c] = r]
  BY <1>1 DEF r
<1> QED BY <1>1, <1>2, <1>3, <1>4, LocalStep

LEMMA MissInv ==
    ASSUME IInv, NEW c \in Clients, req[c].key \in Keys, Miss(c),
           UNCHANGED <<now, version, replacedAt, data, copy>>, Silent
    PROVE  IInv'
<1> DEFINE r == [pc |-> "handler", key |-> req[c].key]
<1>1. r \in Stage /\ r.pc = "handler"
  BY DEF Stage, Missing
<1>2. req' = [req EXCEPT ![c] = r]
  BY DEF Miss, Go
<1> HIDE DEF r
<1> QED BY <1>1, <1>2, LocalStep

LEMMA LookupInv ==
    ASSUME IInv, NEW c \in Clients, Lookup(c)
    PROVE  IInv'
<1> DEFINE e == data[req[c].key]
           r == [pc |-> "check", key |-> req[c].key, cond |-> req[c].cond, ent |-> e]
<1>1. /\ req[c].key \in Keys /\ req[c].cond \in Conditions /\ req[c].pc = "lookup"
      /\ UNCHANGED <<now, version, replacedAt, data, copy>> /\ Silent
  BY StageFacts DEF Lookup, Looking, IInv
<1>2. CASE e = NoEntry
  BY <1>1, <1>2, MissInv DEF Lookup
<1>3. CASE e # NoEntry
  <2>1. e \in Entry /\ SoundEntry(e)
    BY <1>1, <1>3 DEF IInv, TypeOK, DataInv
  <2>2. r \in Stage /\ r.pc = "check" /\ r.cond = req[c].cond /\ r.ent = e
    BY <1>1, <2>1 DEF Stage, Holding
  <2>3. req' = [req EXCEPT ![c] = r]
    BY <1>3 DEF Lookup, Go
  <2>4. r.cond # {} => copy[c] # NoCopy
    BY <1>1, <2>2 DEF IInv, CopyInv
  <2> HIDE DEF e, r
  <2> QED BY <1>1, <2>1, <2>2, <2>3, <2>4, LocalStep
<1> QED BY <1>2, <1>3

LEMMA CheckInv ==
    ASSUME IInv, NEW c \in Clients, CheckExpired(c)
    PROVE  IInv'
<1>1. /\ req[c] \in Holding /\ req[c].pc = "check"
      /\ UNCHANGED <<now, version, replacedAt, data, copy>> /\ Silent
  BY StageFacts DEF CheckExpired, IInv
<1>2. CASE now >= req[c].ent.expires
  <2> DEFINE r == [pc |-> "purge", key |-> req[c].key]
  <2>1. r \in Stage /\ r.pc = "purge"
    BY <1>1 DEF Stage, Missing, Holding
  <2>2. req' = [req EXCEPT ![c] = r]
    BY <1>2 DEF CheckExpired, Go
  <2> HIDE DEF r
  <2> QED BY <1>1, <2>1, <2>2, LocalStep
<1>3. CASE ~(now >= req[c].ent.expires)
  <2> DEFINE r == [req[c] EXCEPT !.pc = "hit"]
  <2>1. r \in Holding /\ r.pc = "hit" /\ r.ent = req[c].ent /\ r.cond = req[c].cond
    BY <1>1 DEF Holding
  <2>2. req' = [req EXCEPT ![c] = r]
    BY <1>3 DEF CheckExpired, Go
  <2>3. SoundEntry(r.ent) /\ (r.cond # {} => copy[c] # NoCopy)
    BY <1>1, <2>1 DEF IInv, HoldingInv, CopyInv
  <2> HIDE DEF r
  <2>4. r \in Stage
    BY <2>1 DEF Stage
  <2> QED BY <1>1, <2>1, <2>2, <2>3, <2>4, LocalStep
<1> QED BY <1>2, <1>3

LEMMA HandlerReadsInv ==
    ASSUME IInv, NEW c \in Clients, HandlerReads(c)
    PROVE  IInv'
<1> DEFINE r == [pc |-> "stamp", key |-> req[c].key, body |-> version, readAt |-> now]
<1>1. req[c].key \in Keys
  BY StageFacts DEF HandlerReads, Missing, IInv
<1>2. /\ r \in Stage /\ r.pc = "stamp" /\ r.body = version /\ r.readAt = now
      /\ now \in Nat
  BY <1>1, ConstantFacts DEF Stage, Written, IInv, TypeOK
<1>3. /\ req' = [req EXCEPT ![c] = r]
      /\ UNCHANGED <<now, version, replacedAt, data, copy>> /\ Silent
  BY DEF HandlerReads, Go
<1> HIDE DEF r
<1>4. SoundFill(r)
  BY <1>2, ConstantFacts DEF SoundFill, CurrentSince
<1> QED BY <1>2, <1>3, <1>4, LocalStep

LEMMA StampInv ==
    ASSUME IInv, NEW c \in Clients, Stamp(c)
    PROVE  IInv'
<1> DEFINE r == [pc |-> "insert", key |-> req[c].key, body |-> req[c].body,
                 readAt |-> req[c].readAt, lastMod |-> now]
<1>1. req[c] \in Written /\ req[c].pc = "stamp" /\ now \in Times
  BY StageFacts DEF Stamp, IInv, TypeOK
<1>2. /\ r \in Stage /\ r.pc = "insert" /\ r.body = req[c].body
      /\ r.readAt = req[c].readAt /\ r.lastMod = now
  BY <1>1 DEF Stage, Stamped, Written
<1>3. /\ req' = [req EXCEPT ![c] = r]
      /\ UNCHANGED <<now, version, replacedAt, data, copy>> /\ Silent
  BY DEF Stamp, Go
<1> HIDE DEF r
<1>4. SoundFill(r)
  BY <1>1, <1>2, ConstantFacts DEF IInv, FillingInv, Filling, SoundFill
<1> QED BY <1>2, <1>3, <1>4, LocalStep

(* A sound entry that has not expired names a recent enough catalog. *)
LEMMA FreshEntry ==
    ASSUME IInv, NEW e \in Entry, SoundEntry(e), IsFresh(e)
    PROVE  CurrentSince(e.body, now - (TTL + MaxLatency))
<1>1. /\ e.body \in Versions /\ e.expires \in Nat /\ now \in Nat
      /\ TTL \in Nat /\ MaxLatency \in Nat
  BY ConstantFacts DEF Entry, IInv, TypeOK
<1>2. replacedAt[e.body] \in Nat
  BY <1>1, ConstantFacts DEF IInv, TypeOK
<1>3. now - (TTL + MaxLatency) <= e.expires - (TTL + MaxLatency)
  BY <1>1 DEF IsFresh
<1> QED BY <1>1, <1>2, <1>3 DEF SoundEntry, CurrentSince

(* What a client keeps of a body it receives is of the right type.         *)
LEMMA ReceiveType ==
    ASSUME TypeOK, NEW c \in Clients, req[c].key \in Keys,
           NEW body \in Versions, NEW lastMod \in Times, Receive(c, body, lastMod)
    PROVE  /\ copy' \in [Clients -> Copy \cup {NoCopy}]
           /\ \A q \in Clients : q # c => copy'[q] = copy[q]
<1> DEFINE new == [key |-> req[c].key, body |-> body, tag |-> body, lastMod |-> lastMod]
<1>1. new \in Copy /\ copy \in [Clients -> Copy \cup {NoCopy}]
  BY DEF Copy, TypeOK
<1>2. copy' = copy \/ copy' = [copy EXCEPT ![c] = new]
  BY DEF Receive
<1> HIDE DEF new
<1> QED BY <1>1, <1>2

LEMMA ServeInv ==
    ASSUME IInv, NEW c \in Clients, Serve304(c) \/ ServeEntry(c)
    PROVE  IInv'
<1> DEFINE e == req[c].ent
<1>1. /\ req[c] \in Holding /\ req[c].pc = "hit"
      /\ IsFresh(e) /\ Go(c, Idle)
      /\ UNCHANGED <<now, version, replacedAt, data>>
  BY StageFacts DEF Serve304, ServeEntry, IInv
<1>2. e \in Entry /\ SoundEntry(e) /\ req[c].key \in Keys
  BY <1>1 DEF Holding, IInv, HoldingInv
<1>3. e.body \in Versions /\ e.lastMod \in Times /\ now \in Times /\ now \in Nat
  BY <1>2, ConstantFacts DEF Entry, IInv, TypeOK
<1>4. CurrentSince(e.body, now - (TTL + MaxLatency))
  BY <1>1, <1>2, FreshEntry
<1>5. \E b \in Versions, s \in {"ok", "not_modified"} :
         reply' = [status |-> s, tag |-> e.body, body |-> b]
  <2>1. CASE ServeEntry(c)
    BY <1>3, <2>1 DEF ServeEntry
  <2>2. CASE Serve304(c)
    <3>1. copy[c] # NoCopy
      BY <1>1, <2>2 DEF Serve304, IsNotModified, IInv, CopyInv
    <3>2. copy[c].body \in Versions
      BY <3>1 DEF IInv, TypeOK, Copy
    <3> QED BY <2>2, <3>2 DEF Serve304
  <2> QED BY <1>1, <2>1, <2>2
<1>6. PICK b \in Versions, s \in {"ok", "not_modified"} :
         reply' = [status |-> s, tag |-> e.body, body |-> b]
  BY <1>5
<1>7. reply' \in Response
  BY <1>3, <1>6 DEF Response
<1>8. BoundedStaleness'
  BY <1>1, <1>3, <1>4, <1>6 DEF BoundedStaleness, CurrentSince
<1>9. /\ copy' \in [Clients -> Copy \cup {NoCopy}]
      /\ \A q \in Clients : q # c => copy'[q] = copy[q]
  <2>1. copy \in [Clients -> Copy \cup {NoCopy}]
    BY DEF IInv, TypeOK
  <2>2. CASE ServeEntry(c)
    BY <1>2, <1>3, <2>2, ReceiveType DEF ServeEntry, IInv
  <2>3. CASE Serve304(c)
    <3>1. copy[c] # NoCopy
      BY <1>1, <2>3 DEF Serve304, IsNotModified, IInv, CopyInv
    <3>2. copy[c] \in Copy
      BY <2>1, <3>1
    <3>3. [copy[c] EXCEPT !.tag = e.body, !.lastMod = e.lastMod] \in Copy
      BY <1>3, <3>2 DEF Copy
    <3>4. copy' = [copy EXCEPT ![c] = [copy[c] EXCEPT !.tag = e.body, !.lastMod = e.lastMod]]
      BY <2>1, <2>3 DEF Serve304
    <3> QED BY <2>1, <3>3, <3>4
  <2> QED BY <2>2, <2>3
<1>10. CapacityBound' /\ data' \in [Keys -> Entry \cup {NoEntry}]
  BY <1>1 DEF IInv, CapacityBound, TypeOK
<1>11. \A k \in Keys : data'[k] # NoEntry => SoundEntry(data'[k])
  BY <1>1 DEF IInv, DataInv
<1>12. Idle \in Stage /\ Idle.pc = "idle" /\ req' = [req EXCEPT ![c] = Idle]
  BY <1>1 DEF Go, Stage, Idle
<1> QED BY <1>1, <1>7, <1>8, <1>9, <1>10, <1>11, <1>12, ClientStep

LEMMA HandlerFailsInv ==
    ASSUME IInv, NEW c \in Clients, HandlerFails(c)
    PROVE  IInv'
<1>1. /\ reply' = [status |-> "error"] /\ req' = [req EXCEPT ![c] = Idle]
      /\ UNCHANGED <<now, version, replacedAt, data, copy>>
  BY DEF HandlerFails, Go
<1>2. Idle \in Stage /\ Idle.pc = "idle"
  BY DEF Stage, Idle
<1>3. reply' \in Response /\ BoundedStaleness'
  BY <1>1 DEF Response, BoundedStaleness
<1>4. /\ CapacityBound' /\ data' \in [Keys -> Entry \cup {NoEntry}]
      /\ copy' \in [Clients -> Copy \cup {NoCopy}]
  BY <1>1 DEF IInv, CapacityBound, TypeOK
<1>5. \A k \in Keys : data'[k] # NoEntry => SoundEntry(data'[k])
  BY <1>1 DEF IInv, DataInv
<1> QED BY <1>1, <1>2, <1>3, <1>4, <1>5, ClientStep

LEMMA PurgeInv ==
    ASSUME IInv, NEW c \in Clients, Purge(c)
    PROVE  IInv'
<1> DEFINE r == [pc |-> "handler", key |-> req[c].key]
<1>1. /\ req[c].key \in Keys
      /\ req' = [req EXCEPT ![c] = r]
      /\ data' = [data EXCEPT ![req[c].key] = NoEntry]
      /\ UNCHANGED <<now, version, replacedAt, copy>> /\ Silent
  BY StageFacts DEF Purge, Miss, Go, Missing, IInv
<1>2. r \in Stage /\ r.pc = "handler"
  BY <1>1 DEF Stage, Missing
<1>3. data \in [Keys -> Entry \cup {NoEntry}]
  BY DEF IInv, TypeOK
<1>4. CapacityBound'
  <2>1. {k \in Keys : data'[k] # NoEntry} \subseteq {k \in Keys : data[k] # NoEntry}
    BY <1>1, <1>3
  <2>2. IsFiniteSet({k \in Keys : data[k] # NoEntry})
    BY FS_Subset, CacheAssumption
  <2>3. /\ Cardinality({k \in Keys : data'[k] # NoEntry})
             <= Cardinality({k \in Keys : data[k] # NoEntry})
        /\ Cardinality({k \in Keys : data'[k] # NoEntry}) \in Nat
        /\ Cardinality({k \in Keys : data[k] # NoEntry}) \in Nat
    BY <2>1, <2>2, FS_Subset, FS_CardinalityType
  <2> QED BY <2>3, ConstantFacts DEF IInv, CapacityBound
<1>5. BoundedStaleness' /\ reply' \in Response
  BY <1>1, SilentStep
<1>6. /\ data' \in [Keys -> Entry \cup {NoEntry}]
      /\ \A k \in Keys : data'[k] # NoEntry => SoundEntry(data'[k])
  BY <1>1, <1>3 DEF IInv, DataInv
<1>7. copy' \in [Clients -> Copy \cup {NoCopy}]
  BY <1>1 DEF IInv, TypeOK
<1> HIDE DEF r
<1> QED BY <1>1, <1>2, <1>4, <1>5, <1>6, <1>7, ClientStep

(* What survives cleanup and eviction leaves room for one more entry.      *)
LEMMA RoomForOne ==
    ASSUME NEW t, NEW D \in Victims(t)
    PROVE  /\ IsFiniteSet(Live(t) \ D)
           /\ Cardinality(Live(t) \ D) \in Nat
           /\ Cardinality(Live(t) \ D) + 1 <= MaxEntries
<1>1. IsFiniteSet(Live(t)) /\ Cardinality(Live(t)) \in Nat
  BY FS_Subset, FS_CardinalityType, CacheAssumption DEF Live
<1>2. D \subseteq Live(t)
  BY DEF Victims
<1>3. IsFiniteSet(D) /\ Cardinality(D) \in Nat
  BY <1>1, <1>2, FS_Subset, FS_CardinalityType
<1>4. /\ IsFiniteSet(Live(t) \ D)
      /\ Cardinality(Live(t) \ D) = Cardinality(Live(t)) - Cardinality(Live(t) \cap D)
  BY <1>1, FS_Difference
<1>5. Live(t) \cap D = D
  BY <1>2
<1>6. Cardinality(Live(t) \ D) \in Nat
  BY <1>4, FS_CardinalityType
<1>7. CASE Cardinality(Live(t)) >= MaxEntries
  <2>1. Cardinality(D) = Cardinality(Live(t)) - MaxEntries + 1
    BY <1>7 DEF Victims
  <2>2. Cardinality(Live(t) \cap D) = Cardinality(D)
    BY <1>5
  <2>3. Cardinality(Live(t) \ D) = Cardinality(Live(t)) - Cardinality(D)
    BY <1>4, <2>2
  <2>4. Cardinality(Live(t) \ D) + 1 = MaxEntries
    BY <1>1, <1>3, <2>1, <2>3, ConstantFacts
  <2> QED BY <1>4, <1>6, <2>4, ConstantFacts
<1>8. CASE ~(Cardinality(Live(t)) >= MaxEntries)
  <2>1. D = {}
    BY <1>8 DEF Victims
  <2>2. Live(t) \ D = Live(t)
    BY <2>1
  <2> QED BY <1>1, <1>8, <2>2, ConstantFacts
<1> QED BY <1>7, <1>8

LEMMA InsertInv ==
    ASSUME IInv, NEW c \in Clients, Insert(c)
    PROVE  IInv'
<1> DEFINE t == req[c].lastMod
           kc == req[c].key
<1>1. req[c] \in Stamped /\ req[c].pc = "insert" /\ now \in Times /\ now \in Nat
  BY StageFacts, ConstantFacts DEF Insert, IInv, TypeOK
<1>2. /\ kc \in Keys /\ t \in Times
      /\ req[c].body \in Versions /\ req[c].readAt \in Times /\ req[c].readAt \in Nat
  BY <1>1, ConstantFacts DEF Stamped
<1>3. /\ CurrentSince(req[c].body, req[c].readAt)
      /\ req[c].readAt <= now /\ now <= req[c].readAt + MaxLatency
      /\ req[c].readAt <= t /\ t <= now
  BY <1>1 DEF IInv, FillingInv, Filling, SoundFill
<1>4. PICK D \in Victims(t) :
         data' = [k \in Keys |-> IF k = kc THEN NewEntry(c)
                                 ELSE IF k \in Live(t) \ D THEN data[k] ELSE NoEntry]
  BY DEF Insert
<1>5. /\ reply' = [status |-> "ok", tag |-> req[c].body, body |-> req[c].body]
      /\ Receive(c, req[c].body, t)
      /\ req' = [req EXCEPT ![c] = Idle]
      /\ UNCHANGED <<now, version, replacedAt>>
  BY DEF Insert, Go
<1>6. Idle \in Stage /\ Idle.pc = "idle"
  BY DEF Stage, Idle
<1>7. NewEntry(c) \in Entry /\ SoundEntry(NewEntry(c))
  <2>1. t \in Nat /\ replacedAt[req[c].body] \in Nat
    BY <1>2, ConstantFacts DEF IInv, TypeOK
  <2>2. /\ now + TTL \in Nat /\ now + TTL <= t + MaxLatency + TTL
        /\ now + TTL - (TTL + MaxLatency) <= req[c].readAt
        /\ t - MaxLatency <= req[c].readAt
    BY <1>1, <1>2, <1>3, <2>1, ConstantFacts
  <2>3. /\ CurrentSince(req[c].body, now + TTL - (TTL + MaxLatency))
        /\ CurrentSince(req[c].body, t - MaxLatency)
    BY <1>1, <1>2, <1>3, <2>1, <2>2, ConstantFacts DEF CurrentSince
  <2>4. /\ NewEntry(c) \in Entry
        /\ NewEntry(c).body = req[c].body /\ NewEntry(c).lastMod = t
        /\ NewEntry(c).expires = now + TTL
    BY <1>2, <2>2 DEF NewEntry, Entry
  <2>5. t <= now
    BY <1>3
  <2> HIDE DEF t
  <2> DEFINE n == NewEntry(c)
  <2> HIDE DEF n
  <2>6. n.expires - (TTL + MaxLatency) = now + TTL - (TTL + MaxLatency)
    BY <1>1, <2>2, <2>4, ConstantFacts DEF n
  <2>7. CurrentSince(n.body, n.expires - (TTL + MaxLatency))
    BY <2>3, <2>4, <2>6 DEF n
  <2>8. n.lastMod - MaxLatency = t - MaxLatency /\ n.body = req[c].body
    BY <2>4 DEF n
  <2>9. CurrentSince(n.body, n.lastMod - MaxLatency)
    BY <2>3, <2>8
  <2>10. /\ n.lastMod <= now
         /\ n.expires <= n.lastMod + MaxLatency + TTL
    BY <2>2, <2>4, <2>5 DEF n
  <2>11. n \in Entry /\ SoundEntry(n)
    BY <2>4, <2>7, <2>9, <2>10 DEF n, SoundEntry
  <2> QED BY <2>11 DEF n
<1>8. data \in [Keys -> Entry \cup {NoEntry}]
  BY DEF IInv, TypeOK
<1>9. data' \in [Keys -> Entry \cup {NoEntry}]
  BY <1>4, <1>7, <1>8
<1>10. \A k \in Keys : data'[k] # NoEntry => SoundEntry(data'[k])
  BY <1>4, <1>7 DEF IInv, DataInv
<1>11. CapacityBound'
  <2>1. {k \in Keys : data'[k] # NoEntry} \subseteq (Live(t) \ D) \cup {kc}
    BY <1>4
  <2>2. /\ IsFiniteSet(Live(t) \ D) /\ Cardinality(Live(t) \ D) \in Nat
        /\ Cardinality(Live(t) \ D) + 1 <= MaxEntries
    BY RoomForOne
  <2>6. /\ IsFiniteSet((Live(t) \ D) \cup {kc})
        /\ Cardinality((Live(t) \ D) \cup {kc}) =
              IF kc \in Live(t) \ D THEN Cardinality(Live(t) \ D)
                                    ELSE Cardinality(Live(t) \ D) + 1
    BY <2>2, FS_AddElement
  <2>3. /\ IsFiniteSet((Live(t) \ D) \cup {kc})
        /\ Cardinality((Live(t) \ D) \cup {kc}) <= Cardinality(Live(t) \ D) + 1
        /\ Cardinality((Live(t) \ D) \cup {kc}) \in Nat
    BY <2>2, <2>6
  <2>4. /\ Cardinality({k \in Keys : data'[k] # NoEntry})
             <= Cardinality((Live(t) \ D) \cup {kc})
        /\ Cardinality({k \in Keys : data'[k] # NoEntry}) \in Nat
    BY <2>1, <2>3, FS_Subset, FS_CardinalityType
  <2>5. Cardinality({k \in Keys : data'[k] # NoEntry}) <= MaxEntries
    BY <2>2, <2>3, <2>4, ConstantFacts
  <2> QED BY <2>5 DEF CapacityBound
<1>12. reply' \in Response
  BY <1>1, <1>2, <1>5 DEF Response
<1>13. BoundedStaleness'
  <2>1. replacedAt[req[c].body] \in Nat
    BY <1>2, ConstantFacts DEF IInv, TypeOK
  <2>2. now - (TTL + MaxLatency) <= req[c].readAt
    BY <1>1, <1>2, <1>3, ConstantFacts
  <2>3. now - (TTL + MaxLatency) \in Int
    BY <1>1, ConstantFacts
  <2>4. CurrentSince(req[c].body, now - (TTL + MaxLatency))
    BY <1>2, <1>3, <2>1, <2>2, <2>3 DEF CurrentSince
  <2> QED BY <1>1, <1>5, <2>4 DEF BoundedStaleness, CurrentSince
<1>14. /\ copy' \in [Clients -> Copy \cup {NoCopy}]
       /\ \A q \in Clients : q # c => copy'[q] = copy[q]
  BY <1>2, <1>5, ReceiveType DEF IInv
<1> QED BY <1>5, <1>6, <1>9, <1>10, <1>11, <1>12, <1>13, <1>14, ClientStep

LEMMA TickInv ==
    ASSUME IInv, Tick
    PROVE  IInv'
<1>1. /\ now \in Nat /\ now' = now + 1 /\ now' \in Times
      /\ \A c \in Clients : Filling(c) => now < req[c].readAt + MaxLatency
      /\ UNCHANGED <<version, replacedAt, data, req, copy>> /\ Silent
  BY ConstantFacts DEF Tick, IInv, TypeOK, Times
<1>2. TypeOK'
  BY <1>1, SilentStep DEF IInv, TypeOK
<1>3. ASSUME NEW e \in Entry, SoundEntry(e)
      PROVE  SoundEntry(e)'
  <2>1. e.lastMod \in Nat
    BY ConstantFacts DEF Entry
  <2> QED BY <1>1, <1>3, <2>1 DEF SoundEntry, CurrentSince
<1>4. DataInv'
  <2> SUFFICES ASSUME NEW k \in Keys, data[k] # NoEntry PROVE SoundEntry(data[k])'
    BY <1>1 DEF DataInv
  <2>1. data[k] \in Entry /\ SoundEntry(data[k])
    BY DEF IInv, TypeOK, DataInv
  <2> QED BY <1>1, <1>3, <2>1 DEF SoundEntry, CurrentSince
<1>5. HoldingInv'
  <2> SUFFICES ASSUME NEW c \in Clients, req[c].pc \in {"check", "hit"}
               PROVE  SoundEntry(req[c].ent)'
    BY <1>1 DEF HoldingInv
  <2>1. req[c].ent \in Entry /\ SoundEntry(req[c].ent)
    BY StageFacts DEF IInv, HoldingInv, Holding
  <2> QED BY <1>1, <1>3, <2>1 DEF SoundEntry, CurrentSince
<1>6. FillingInv'
  <2> SUFFICES ASSUME NEW c \in Clients, Filling(c)
               PROVE  /\ CurrentSince(req[c].body, req[c].readAt)
                      /\ req[c].readAt <= now + 1
                      /\ now + 1 <= req[c].readAt + MaxLatency
                      /\ req[c].pc = "insert" =>
                           req[c].readAt <= req[c].lastMod /\ req[c].lastMod <= now + 1
    BY <1>1 DEF FillingInv, Filling, SoundFill, CurrentSince
  <2>1. /\ req[c].readAt \in Nat
        /\ req[c].pc = "insert" => req[c].lastMod \in Nat
    BY StageFacts, ConstantFacts DEF IInv, Filling, Written, Stamped
  <2> QED BY <1>1, <2>1, ConstantFacts DEF IInv, FillingInv, SoundFill
<1>7. BoundedStaleness'
  BY <1>1, SilentStep
<1>8. CopyInv' /\ CapacityBound'
  BY <1>1 DEF IInv, CopyInv, CapacityBound
<1> QED BY <1>2, <1>4, <1>5, <1>6, <1>7, <1>8 DEF IInv

(* What was current since some time not after now stays so: if it is the   *)
(* version that the reseed replaces, it is replaced now.                   *)
LEMMA ReseedKeeps ==
    ASSUME IInv, Reseed, NEW v \in Versions, NEW t \in Int, t <= now, CurrentSince(v, t)
    PROVE  CurrentSince(v, t)'
<1>1. /\ replacedAt \in [Versions -> Times] /\ version \in Versions
      /\ replacedAt' = [replacedAt EXCEPT ![version] = now]
  BY DEF Reseed, IInv, TypeOK
<1>2. CASE v = version
  <2>1. replacedAt'[v] = now
    BY <1>1, <1>2
  <2>2. now \in Nat
    BY ConstantFacts DEF IInv, TypeOK
  <2> QED BY <2>1, <2>2 DEF CurrentSince
<1>3. CASE v # version
  <2>1. replacedAt'[v] = replacedAt[v]
    BY <1>1, <1>3
  <2> QED BY <1>3, <2>1 DEF CurrentSince
<1> QED BY <1>2, <1>3

LEMMA ReseedInv ==
    ASSUME IInv, Reseed
    PROVE  IInv'
<1>1. /\ version' = version + 1 /\ version < MaxVersion
      /\ replacedAt' = [replacedAt EXCEPT ![version] = now]
      /\ UNCHANGED <<now, data, req, copy>> /\ Silent
  BY DEF Reseed
<1>2. now \in Times /\ now \in Nat /\ version \in Nat
  BY ConstantFacts DEF IInv, TypeOK
<1>3. TypeOK'
  <2>1. version' \in Versions
    BY <1>1, <1>2, ConstantFacts DEF Versions
  <2>2. replacedAt' \in [Versions -> Times]
    BY <1>1, <1>2 DEF IInv, TypeOK
  <2> QED BY <1>1, <2>1, <2>2, SilentStep DEF IInv, TypeOK
<1>4. \A v \in Versions, t \in Int : t <= now /\ CurrentSince(v, t) => CurrentSince(v, t)'
  BY ReseedKeeps
<1>10. \A e \in Entry : SoundEntry(e) => SoundEntry(e)'
  <2> SUFFICES ASSUME NEW e \in Entry, SoundEntry(e)
               PROVE  SoundEntry(e)'
    OBVIOUS
  <2>1. e.body \in Versions /\ e.lastMod \in Nat /\ e.expires \in Nat
    BY ConstantFacts DEF Entry
  <2>2. /\ e.expires - (TTL + MaxLatency) \in Int /\ e.expires - (TTL + MaxLatency) <= now
        /\ e.lastMod - MaxLatency \in Int /\ e.lastMod - MaxLatency <= now
    BY <1>2, <2>1, ConstantFacts DEF SoundEntry
  <2>3. /\ CurrentSince(e.body, e.expires - (TTL + MaxLatency))'
        /\ CurrentSince(e.body, e.lastMod - MaxLatency)'
    BY <1>4, <2>1, <2>2 DEF SoundEntry, CurrentSince
  <2> QED BY <1>1, <2>3 DEF SoundEntry
<1>5. DataInv'
  BY <1>1, <1>10 DEF IInv, TypeOK, DataInv, SoundEntry, CurrentSince
<1>6. HoldingInv'
  <2> SUFFICES ASSUME NEW c \in Clients, req[c].pc \in {"check", "hit"}
               PROVE  SoundEntry(req[c].ent)'
    BY <1>1 DEF HoldingInv, SoundEntry, CurrentSince
  <2>1. req[c].ent \in Entry /\ SoundEntry(req[c].ent)
    BY StageFacts DEF IInv, HoldingInv, Holding
  <2> QED BY <1>1, <1>10, <2>1 DEF SoundEntry, CurrentSince
<1>7. FillingInv'
  <2> SUFFICES ASSUME NEW c \in Clients, Filling(c)
               PROVE  CurrentSince(req[c].body, req[c].readAt)'
    BY <1>1 DEF IInv, FillingInv, Filling, SoundFill, CurrentSince
  <2>1. req[c].readAt \in Nat /\ req[c].body \in Versions
    BY StageFacts, ConstantFacts DEF IInv, Filling, Written, Stamped
  <2>2. CurrentSince(req[c].body, req[c].readAt) /\ req[c].readAt <= now
    BY DEF IInv, FillingInv, SoundFill
  <2> QED BY <1>1, <1>4, <2>1, <2>2 DEF CurrentSince
<1>8. BoundedStaleness'
  BY <1>1, SilentStep
<1>9. CopyInv' /\ CapacityBound'
  BY <1>1 DEF IInv, CopyInv, CapacityBound
<1> QED BY <1>3, <1>5, <1>6, <1>7, <1>8, <1>9 DEF IInv

LEMMA StutterInv ==
    ASSUME IInv, UNCHANGED vars
    PROVE  IInv'
BY DEF vars, IInv, TypeOK, DataInv, HoldingInv, FillingInv, Filling, BoundedStaleness,
       CopyInv, CapacityBound, SoundEntry, SoundFill, CurrentSince

(* The inductive invariant holds in every reachable state. *)
THEOREM Invariance == Spec => []IInv
<1>1. Init => IInv
  BY InitInv
<1>2. IInv /\ [Next]_vars => IInv'
  <2> SUFFICES ASSUME IInv, [Next]_vars PROVE IInv'
    OBVIOUS
  <2>1. CASE Tick
    BY <2>1, TickInv
  <2>2. CASE Reseed
    BY <2>2, ReseedInv
  <2>3. ASSUME NEW c \in Clients, Request(c) \/ Lookup(c) \/ CheckExpired(c) \/ Purge(c)
        PROVE  IInv'
    BY <2>3, RequestInv, LookupInv, CheckInv, PurgeInv
  <2>4. ASSUME NEW c \in Clients, Serve(c) PROVE IInv'
    <3>1. CASE Serve304(c) \/ ServeEntry(c)
      BY <3>1, ServeInv
    <3>2. CASE ExpiredAfterCheck(c)
      <4>1. req[c].key \in Keys
        BY <3>2, StageFacts DEF ExpiredAfterCheck, Holding, IInv
      <4> QED BY <3>2, <4>1, MissInv DEF ExpiredAfterCheck
    <3> QED BY <2>4, <3>1, <3>2 DEF Serve
  <2>5. ASSUME NEW c \in Clients, Fill(c) PROVE IInv'
    BY <2>5, HandlerReadsInv, HandlerFailsInv, StampInv, InsertInv DEF Fill
  <2>6. CASE UNCHANGED vars
    BY <2>6, StutterInv
  <2> QED BY <2>1, <2>2, <2>3, <2>4, <2>5, <2>6 DEF Next
<1> QED BY <1>1, <1>2, PTL DEF Spec

(* Every reachable state of the cache is well typed. *)
THEOREM TypeCorrect == Spec => []TypeOK
<1>1. IInv => TypeOK
  BY DEF IInv
<1> QED BY <1>1, Invariance, PTL

(* The store never holds more than MaxEntries entries. *)
THEOREM CapacityIsBounded == Spec => []CapacityBound
<1>1. IInv => CapacityBound
  BY DEF IInv
<1> QED BY <1>1, Invariance, PTL

(* No response names a catalog that was replaced more than TTL and the     *)
(* latency of a fill ago.                                                  *)
THEOREM StalenessIsBounded == Spec => []BoundedStaleness
<1>1. IInv => BoundedStaleness
  BY DEF IInv
<1> QED BY <1>1, Invariance, PTL

-----------------------------------------------------------------------------
(* The date of a copy may move within its second, and not out of it.       *)
LEMMA SecondFacts ==
    ASSUME NEW t \in Nat
    PROVE  /\ SecondOf(t) \in Nat /\ SecondOf(t) <= t
           /\ \A u \in Nat : u <= SecondOf(t) + Second - 1 => SecondOf(u) <= SecondOf(t)
<1>0. Second \in Nat /\ Second > 0
  BY CacheAssumption
<1>1. \A n \in Nat : /\ n \div Second \in Nat
                     /\ n % Second \in 0..(Second - 1)
                     /\ n = (n \div Second) * Second + (n % Second)
  BY <1>0
<1>2. \A n \in Nat : SecondOf(n) = (n \div Second) * Second /\ SecondOf(n) \in Nat
  BY <1>0, <1>1 DEF SecondOf
<1>3. SecondOf(t) <= t
  BY <1>1 DEF SecondOf
<1>4. ASSUME NEW u \in Nat, u <= SecondOf(t) + Second - 1
      PROVE  SecondOf(u) <= SecondOf(t)
  <2> DEFINE p == u \div Second
             q == t \div Second
  <2>1. p \in Nat /\ q \in Nat /\ SecondOf(u) = p * Second /\ SecondOf(t) = q * Second
    BY <1>1, <1>2
  <2>2. p * Second <= q * Second + Second - 1
    BY <1>0, <1>1, <1>4, <2>1
  <2> HIDE DEF p, q
  <2>3. p <= q
    <3> SUFFICES ASSUME p >= q + 1 PROVE FALSE
      BY <2>1
    <3>1. p * Second >= (q + 1) * Second
      BY <1>0, <2>1
    <3>2. (q + 1) * Second = q * Second + Second
      BY <1>0, <2>1
    <3>3. p * Second \in Nat /\ q * Second \in Nat
      BY <1>0, <2>1
    <3> QED BY <1>0, <2>2, <3>1, <3>2, <3>3
  <2> QED BY <1>0, <2>1, <2>3
<1> QED BY <1>2, <1>3, <1>4

(* Clients that validate by one header: by the tag or by the date. *)
ByTag(c)  == Validators[c] \subseteq SUBSET {"inm"}
ByDate(c) == Validators[c] \subseteq SUBSET {"ims"}

OneHeader == \A c \in Clients : ByTag(c) \/ ByDate(c)

(* What a client keeps was the database's around the second of its date;   *)
(* its tag is the tag of its body, unless it validates by the date.        *)
SoundCopy(c) ==
    /\ CurrentSince(copy[c].body, SecondOf(copy[c].lastMod) - MaxLatency)
    /\ ByTag(c) => copy[c].tag = copy[c].body
    /\ copy[c].lastMod <= now

CopiesInv == \A c \in Clients : copy[c] # NoCopy => SoundCopy(c)

(* What a request holds while it is checked is what its client may send.   *)
CondInv ==
    \A c \in Clients : req[c].pc \in {"lookup", "check", "hit"} => req[c].cond \in Validators[c]

RecentInv == BodiesAreRecent /\ CopiesInv /\ CondInv

(* Bounds may be loosened. *)
LEMMA CurrentSinceEarlier ==
    ASSUME TypeOK, NEW v \in Versions, NEW t \in Int, CurrentSince(v, t),
           NEW s \in Int, s <= t
    PROVE  CurrentSince(v, s)
<1>1. replacedAt[v] \in Nat
  BY ConstantFacts DEF TypeOK
<1> QED BY <1>1 DEF CurrentSince

LEMMA CopyFacts ==
    ASSUME TypeOK, NEW c \in Clients, copy[c] # NoCopy
    PROVE  /\ copy[c] \in Copy /\ copy[c].body \in Versions
           /\ copy[c].lastMod \in Nat /\ SecondOf(copy[c].lastMod) \in Nat
           /\ SecondOf(copy[c].lastMod) <= copy[c].lastMod
<1>1. copy[c] \in Copy
  BY DEF TypeOK
<1>2. copy[c].body \in Versions /\ copy[c].lastMod \in Nat
  BY <1>1, ConstantFacts DEF Copy
<1> QED BY <1>1, <1>2, SecondFacts

(* Requests: the validators of a request are its client's to the end. *)
LEMMA CondNext == ASSUME IInv, CondInv, [Next]_vars PROVE CondInv'
<1>0. req \in [Clients -> Stage]
  BY DEF IInv, TypeOK
<1>1. CASE Tick \/ Reseed \/ UNCHANGED vars
  BY <1>1 DEF Tick, Reseed, vars, CondInv
<1>2. ASSUME NEW c \in Clients, Request(c) PROVE CondInv'
  BY <1>0, <1>2 DEF Request, CondInv
<1>3. ASSUME NEW c \in Clients, Lookup(c) PROVE CondInv'
  <2>1. CASE data[req[c].key] = NoEntry
    BY <1>0, <1>3, <2>1 DEF Lookup, Miss, Go, CondInv
  <2>2. CASE data[req[c].key] # NoEntry
    BY <1>0, <1>3, <2>2 DEF Lookup, Go, CondInv
  <2> QED BY <2>1, <2>2
<1>4. ASSUME NEW c \in Clients, CheckExpired(c) PROVE CondInv'
  <2>0. req[c] \in Holding
    BY <1>4, StageFacts DEF CheckExpired, IInv
  <2>1. CASE now >= req[c].ent.expires
    BY <1>0, <1>4, <2>1 DEF CheckExpired, Go, CondInv
  <2>2. CASE ~(now >= req[c].ent.expires)
    <3>1. [req[c] EXCEPT !.pc = "hit"].cond = req[c].cond
      BY <2>0 DEF Holding
    <3> QED BY <1>0, <1>4, <2>2, <3>1 DEF CheckExpired, Go, CondInv
  <2> QED BY <2>1, <2>2
<1>5. ASSUME NEW c \in Clients,
             \/ Purge(c) \/ Serve(c) \/ Fill(c)
      PROVE  CondInv'
  <2>1. CASE Purge(c) \/ ExpiredAfterCheck(c)
    BY <1>0, <2>1 DEF Purge, ExpiredAfterCheck, Miss, Go, CondInv
  <2>2. CASE Serve304(c) \/ ServeEntry(c) \/ HandlerFails(c) \/ Insert(c)
    BY <1>0, <2>2 DEF Serve304, ServeEntry, HandlerFails, Insert, Go, Idle, CondInv
  <2>3. CASE HandlerReads(c) \/ Stamp(c)
    BY <1>0, <2>3 DEF HandlerReads, Stamp, Go, CondInv
  <2> QED BY <1>5, <2>1, <2>2, <2>3 DEF Serve, Fill
<1> QED BY <1>1, <1>2, <1>3, <1>4, <1>5 DEF Next

(* A body that comes with its date is recent, and so is the copy of it.    *)
LEMMA ReceiveRecent ==
    ASSUME IInv, RecentInv, NEW c \in Clients, req[c].key \in Keys,
           NEW body \in Versions, NEW lastMod \in Times, lastMod <= now,
           CurrentSince(body, lastMod - MaxLatency),
           CurrentSince(body, now - (TTL - 1 + MaxLatency)),
           Receive(c, body, lastMod), UNCHANGED <<now, version, replacedAt>>,
           reply' = [status |-> "ok", tag |-> body, body |-> body],
           CondInv'
    PROVE  RecentInv'
<1>0. /\ TypeOK /\ lastMod \in Nat /\ now \in Nat /\ TTL \in Nat /\ MaxLatency \in Nat
      /\ Second \in Nat /\ Second >= 1
  BY ConstantFacts, CacheAssumption DEF IInv, TypeOK
<1>1. BodiesAreRecent'
  <2>2. /\ now - (TTL - 1 + MaxLatency) \in Int
        /\ now - ((TTL - 1) + (Second - 1) + 2 * MaxLatency) \in Int
        /\ now - ((TTL - 1) + (Second - 1) + 2 * MaxLatency) <= now - (TTL - 1 + MaxLatency)
    BY <1>0
  <2>1. CurrentSince(body, now - ((TTL - 1) + (Second - 1) + 2 * MaxLatency))
    BY <1>0, <2>2, CurrentSinceEarlier
  <2> QED BY <2>1 DEF BodiesAreRecent, CurrentSince
<1>2. CopiesInv'
  <2> DEFINE new == [key |-> req[c].key, body |-> body, tag |-> body, lastMod |-> lastMod]
  <2>1. CASE copy' = copy
    BY <2>1 DEF RecentInv, CopiesInv, SoundCopy, CurrentSince
  <2>2. CASE copy' = [copy EXCEPT ![c] = new]
    <3>1. /\ copy'[c].body = body /\ copy'[c].tag = body /\ copy'[c].lastMod = lastMod
          /\ \A q \in Clients : q # c => copy'[q] = copy[q]
      BY <2>2 DEF IInv, TypeOK
    <3>2. SecondOf(lastMod) \in Nat /\ SecondOf(lastMod) <= lastMod
      BY <1>0, SecondFacts
    <3>3. CurrentSince(body, SecondOf(lastMod) - MaxLatency)
      BY <1>0, <3>2, CurrentSinceEarlier
    <3>4. SoundCopy(c)'
      BY <3>1, <3>3 DEF SoundCopy, CurrentSince, SecondOf, ByTag
    <3> QED BY <3>1, <3>4 DEF RecentInv, CopiesInv, SoundCopy, CurrentSince, SecondOf, ByTag
  <2> QED BY <2>1, <2>2 DEF Receive
<1> QED BY <1>1, <1>2 DEF RecentInv

(* A copy that is confirmed keeps its body; by the tag, it is the entry's, *)
(* and by the date, the entry is of the second of the copy.                *)
LEMMA ConfirmRecent ==
    ASSUME OneHeader, IInv, RecentInv, NEW c \in Clients, Serve304(c), CondInv'
    PROVE  RecentInv'
<1> DEFINE e == req[c].ent
           k == copy[c]
<1>1. /\ req[c] \in Holding /\ req[c].pc = "hit" /\ IsFresh(e) /\ IsNotModified(c, e)
      /\ UNCHANGED <<now, version, replacedAt>>
      /\ reply' = [status |-> "not_modified", tag |-> e.body, body |-> k.body]
  BY StageFacts DEF Serve304, IInv
<1>2. /\ TypeOK /\ e \in Entry /\ SoundEntry(e) /\ k # NoCopy /\ SoundCopy(c)
      /\ req[c].cond \in Validators[c]
  BY <1>1 DEF Holding, IInv, HoldingInv, CopyInv, IsNotModified, RecentInv, CopiesInv, CondInv
<1>3. /\ e.body \in Versions /\ e.lastMod \in Nat /\ e.expires \in Nat /\ now \in Nat
      /\ TTL \in Nat /\ TTL >= 1 /\ MaxLatency \in Nat /\ Second \in Nat /\ Second >= 1
      /\ now < e.expires /\ e.lastMod <= now
  <2>1. e.body \in Versions /\ e.lastMod \in Nat /\ e.expires \in Nat
    BY <1>2, ConstantFacts DEF Entry
  <2>2. /\ TTL \in Nat /\ TTL >= 1 /\ MaxLatency \in Nat /\ Second \in Nat /\ Second >= 1
    BY CacheAssumption
  <2>3. now < e.expires
    BY <1>1 DEF IsFresh
  <2>4. e.lastMod <= now
    BY <1>2 DEF SoundEntry
  <2>5. now \in Nat
    BY ConstantFacts DEF IInv, TypeOK
  <2> QED BY <2>1, <2>2, <2>3, <2>4, <2>5
<1>4. /\ k \in Copy /\ k.body \in Versions /\ k.lastMod \in Nat
      /\ SecondOf(k.lastMod) \in Nat /\ SecondOf(k.lastMod) <= k.lastMod
  BY <1>2, CopyFacts
<1>5. SecondOf(e.lastMod) \in Nat /\ SecondOf(e.lastMod) <= e.lastMod
  BY <1>3, SecondFacts
<1>6. /\ copy'[c].body = k.body /\ copy'[c].tag = e.body /\ copy'[c].lastMod = e.lastMod
      /\ \A q \in Clients : q # c => copy'[q] = copy[q]
  <2>1. copy' = [copy EXCEPT ![c] = [k EXCEPT !.tag = e.body, !.lastMod = e.lastMod]]
    BY DEF Serve304
  <2> QED BY <1>4, <2>1 DEF Copy, IInv, TypeOK
<1> DEFINE Recent == CurrentSince(k.body, now - ((TTL - 1) + (Second - 1) + 2 * MaxLatency))
           Kept   == CurrentSince(k.body, SecondOf(e.lastMod) - MaxLatency)
<1> HIDE DEF e
<1>7. Recent /\ Kept /\ (ByTag(c) => k.body = e.body)
  <2>1. CASE ByTag(c)
    <3>1. k.tag = e.body
      BY <1>1, <1>2, <2>1 DEF IsNotModified, ByTag
    <3>2. k.body = e.body
      BY <1>2, <2>1, <3>1 DEF SoundCopy
    <3>3. Recent
      <4>1. /\ e.expires - (TTL + MaxLatency) \in Int
            /\ CurrentSince(k.body, e.expires - (TTL + MaxLatency))
        BY <1>2, <1>3, <3>2 DEF SoundEntry
      <4>2. /\ now - ((TTL - 1) + (Second - 1) + 2 * MaxLatency) \in Int
            /\ now - ((TTL - 1) + (Second - 1) + 2 * MaxLatency) <= e.expires - (TTL + MaxLatency)
        BY <1>3
      <4> QED BY <1>2, <1>4, <4>1, <4>2, CurrentSinceEarlier
    <3>4. Kept
      <4>1. e.lastMod - MaxLatency \in Int /\ CurrentSince(k.body, e.lastMod - MaxLatency)
        BY <1>2, <1>3, <3>2 DEF SoundEntry
      <4> QED BY <1>2, <1>3, <1>4, <1>5, <4>1, CurrentSinceEarlier
    <3> QED BY <3>2, <3>3, <3>4
  <2>2. CASE ByDate(c) /\ ~ByTag(c)
    <3>1. e.lastMod <= SecondOf(k.lastMod) + Second - 1
      BY <1>1, <1>2, <2>2 DEF IsNotModified, ByDate
    <3>2. SecondOf(e.lastMod) <= SecondOf(k.lastMod)
      BY <1>3, <1>4, <3>1, SecondFacts
    <3>3. /\ SecondOf(k.lastMod) - MaxLatency \in Int
          /\ CurrentSince(k.body, SecondOf(k.lastMod) - MaxLatency)
      BY <1>2, <1>3, <1>4 DEF SoundCopy
    <3>4. Recent
      <4>1. e.expires <= e.lastMod + MaxLatency + TTL
        BY <1>2 DEF SoundEntry
      <4>2. /\ now - ((TTL - 1) + (Second - 1) + 2 * MaxLatency) \in Int
            /\ now - ((TTL - 1) + (Second - 1) + 2 * MaxLatency) <= SecondOf(k.lastMod) - MaxLatency
        BY <1>3, <1>4, <3>1, <4>1
      <4> QED BY <1>2, <1>4, <3>3, <4>2, CurrentSinceEarlier
    <3>5. Kept
      <4>1. /\ SecondOf(e.lastMod) - MaxLatency \in Int
            /\ SecondOf(e.lastMod) - MaxLatency <= SecondOf(k.lastMod) - MaxLatency
        BY <1>3, <1>4, <1>5, <3>2
      <4> QED BY <1>2, <1>4, <3>3, <4>1, CurrentSinceEarlier
    <3> QED BY <2>2, <3>4, <3>5
  <2> QED BY <2>1, <2>2 DEF OneHeader
<1>8. BodiesAreRecent'
  BY <1>1, <1>7 DEF BodiesAreRecent, CurrentSince
<1>9. SoundCopy(c)'
  BY <1>1, <1>3, <1>6, <1>7 DEF SoundCopy, CurrentSince, SecondOf, ByTag
<1>10. CopiesInv'
  BY <1>1, <1>6, <1>9 DEF RecentInv, CopiesInv, SoundCopy, CurrentSince, SecondOf, ByTag
<1> QED BY <1>8, <1>10 DEF RecentInv

(* The copies, and the history, stay sound while time passes and the       *)
(* catalog is replaced.                                                    *)
LEMMA WorldRecent ==
    ASSUME IInv, RecentInv, Tick \/ Reseed, CondInv'
    PROVE  RecentInv'
<1>1. Silent /\ copy' = copy /\ (now' = now \/ now' = now + 1) /\ now \in Nat
  BY ConstantFacts DEF Tick, Reseed, IInv, TypeOK
<1>2. ASSUME NEW c \in Clients, copy[c] # NoCopy PROVE SoundCopy(c)'
  <2>1. /\ SoundCopy(c) /\ copy[c].body \in Versions /\ copy[c].lastMod \in Nat
        /\ SecondOf(copy[c].lastMod) \in Nat /\ SecondOf(copy[c].lastMod) <= copy[c].lastMod
    BY <1>2, CopyFacts DEF IInv, RecentInv, CopiesInv
  <2>2. /\ SecondOf(copy[c].lastMod) - MaxLatency \in Int
        /\ SecondOf(copy[c].lastMod) - MaxLatency <= now
    BY <1>1, <2>1, ConstantFacts DEF SoundCopy
  <2>3. CurrentSince(copy[c].body, SecondOf(copy[c].lastMod) - MaxLatency)'
    <3>1. CASE Tick
      BY <2>1, <3>1 DEF Tick, SoundCopy, CurrentSince, SecondOf
    <3>2. CASE Reseed
      <4>1. \A v \in Versions, t \in Int :
               t <= now /\ CurrentSince(v, t) => CurrentSince(v, t)'
        BY <3>2, ReseedKeeps
      <4>2. CurrentSince(copy[c].body, SecondOf(copy[c].lastMod) - MaxLatency)
        BY <2>1 DEF SoundCopy
      <4> QED BY <1>1, <2>1, <2>2, <4>1, <4>2 DEF CurrentSince, SecondOf
    <3> QED BY <3>1, <3>2
  <2> QED BY <1>1, <2>1, <2>3 DEF SoundCopy, ByTag
<1>3. CopiesInv'
  BY <1>1, <1>2 DEF CopiesInv
<1>4. BodiesAreRecent'
  BY <1>1, SilentStep
<1> QED BY <1>3, <1>4 DEF RecentInv

(* Steps that send nothing and touch no copy. *)
LEMMA QuietRecent ==
    ASSUME RecentInv, Silent, UNCHANGED <<now, version, replacedAt, copy>>, CondInv'
    PROVE  RecentInv'
<1>1. BodiesAreRecent'
  BY SilentStep
<1>2. CopiesInv'
  BY DEF RecentInv, CopiesInv, SoundCopy, CurrentSince, SecondOf, ByTag
<1> QED BY <1>1, <1>2 DEF RecentInv

(* A client that validates by one header, be it the tag or the date, has   *)
(* after every response a body that was the database's less than a         *)
(* lifetime, less than a second and no more than two fills ago.            *)
THEOREM BodiesStayRecent ==
    ASSUME OneHeader
    PROVE  Spec => []BodiesAreRecent
<1>1. Init => RecentInv
  BY DEF Init, RecentInv, BodiesAreRecent, CopiesInv, CondInv, Nothing, Idle
<1>2. IInv /\ RecentInv /\ [Next]_vars => RecentInv'
  <2> SUFFICES ASSUME IInv, RecentInv, [Next]_vars PROVE RecentInv'
    OBVIOUS
  <2>0. CondInv'
    BY CondNext DEF RecentInv
  <2>1. ASSUME NEW c \in Clients, Serve304(c) PROVE RecentInv'
    BY <2>0, <2>1, ConfirmRecent
  <2>2. ASSUME NEW c \in Clients, ServeEntry(c) PROVE RecentInv'
    <3> DEFINE e == req[c].ent
    <3>1. req[c] \in Holding /\ IsFresh(e) /\ e \in Entry /\ SoundEntry(e)
      BY <2>2, StageFacts DEF ServeEntry, IInv, HoldingInv, Holding
    <3>2. /\ CurrentSince(e.body, e.lastMod - MaxLatency) /\ e.lastMod <= now
          /\ e.body \in Versions /\ e.lastMod \in Times /\ req[c].key \in Keys
      BY <3>1 DEF SoundEntry, Entry, Holding
    <3>3. /\ Receive(c, e.body, e.lastMod) /\ UNCHANGED <<now, version, replacedAt>>
          /\ reply' = [status |-> "ok", tag |-> e.body, body |-> e.body]
      BY <2>2 DEF ServeEntry
    <3> HIDE DEF e
    <3>4. CurrentSince(e.body, now - (TTL - 1 + MaxLatency))
      <4>1. e.expires \in Nat /\ now \in Nat /\ now < e.expires
        BY <3>1, ConstantFacts DEF Entry, IInv, TypeOK, IsFresh
      <4>2. /\ e.expires - (TTL + MaxLatency) \in Int
            /\ now - (TTL - 1 + MaxLatency) \in Int
            /\ now - (TTL - 1 + MaxLatency) <= e.expires - (TTL + MaxLatency)
        BY <4>1, ConstantFacts
      <4>3. CurrentSince(e.body, e.expires - (TTL + MaxLatency))
        BY <3>1 DEF SoundEntry
      <4> QED BY <3>2, <4>2, <4>3, CurrentSinceEarlier DEF IInv
    <3> QED BY <2>0, <3>2, <3>3, <3>4, ReceiveRecent
  <2>3. ASSUME NEW c \in Clients, Insert(c) PROVE RecentInv'
    <3> DEFINE b == req[c].body
               t == req[c].lastMod
               r == req[c].readAt
    <3>1. /\ req[c] \in Stamped /\ SoundFill(req[c]) /\ req[c].pc = "insert"
      BY <2>3, StageFacts DEF Insert, IInv, FillingInv, Filling
    <3>2. /\ b \in Versions /\ t \in Times /\ req[c].key \in Keys /\ t \in Nat
          /\ r \in Nat /\ now \in Nat /\ TTL \in Nat /\ MaxLatency \in Nat
      BY <3>1, ConstantFacts DEF Stamped, IInv, TypeOK
    <3>3. CurrentSince(b, r) /\ r <= t /\ t <= now /\ now <= r + MaxLatency
      BY <3>1 DEF SoundFill
    <3>4. Receive(c, b, t) /\ reply' = [status |-> "ok", tag |-> b, body |-> b]
          /\ UNCHANGED <<now, version, replacedAt>>
      BY <2>3 DEF Insert
    <3> HIDE DEF b, t, r
    <3>5. /\ CurrentSince(b, t - MaxLatency)
          /\ CurrentSince(b, now - (TTL - 1 + MaxLatency))
      <4>1. /\ t - MaxLatency \in Int /\ t - MaxLatency <= r
            /\ now - (TTL - 1 + MaxLatency) \in Int /\ now - (TTL - 1 + MaxLatency) <= r
        BY <3>2, <3>3, ConstantFacts
      <4> QED BY <3>2, <3>3, <4>1, CurrentSinceEarlier DEF IInv
    <3> QED BY <2>0, <3>2, <3>3, <3>4, <3>5, ReceiveRecent
  <2>4. ASSUME NEW c \in Clients, HandlerFails(c) PROVE RecentInv'
    BY <2>0, <2>4 DEF HandlerFails, RecentInv, BodiesAreRecent, CopiesInv, SoundCopy,
                      CurrentSince, SecondOf, ByTag
  <2>5. CASE Tick \/ Reseed
    BY <2>0, <2>5, WorldRecent
  <2>6. CASE UNCHANGED vars
    BY <2>0, <2>6 DEF vars, RecentInv, BodiesAreRecent, CopiesInv, SoundCopy, CurrentSince,
                      SecondOf, ByTag
  <2>7. ASSUME NEW c \in Clients,
               \/ Request(c) \/ Lookup(c) \/ CheckExpired(c) \/ Purge(c)
               \/ ExpiredAfterCheck(c) \/ HandlerReads(c) \/ Stamp(c)
        PROVE  RecentInv'
    <3>1. Silent /\ UNCHANGED <<now, version, replacedAt, copy>>
      BY <2>7 DEF Request, Lookup, CheckExpired, Purge, ExpiredAfterCheck, HandlerReads, Stamp
    <3> QED BY <2>0, <3>1, QuietRecent
  <2> QED BY <2>1, <2>2, <2>3, <2>4, <2>5, <2>6, <2>7 DEF Next, Serve, Fill
<1>3. RecentInv => BodiesAreRecent
  BY DEF RecentInv
<1> QED BY <1>1, <1>2, <1>3, Invariance, PTL DEF Spec

-----------------------------------------------------------------------------
(* What is evicted from a store within its bound is one entry at most.     *)
LEMMA OneVictim ==
    ASSUME TypeOK, CapacityBound, NEW t, NEW D \in Victims(t)
    PROVE  /\ D \subseteq Live(t) /\ IsFiniteSet(D) /\ Cardinality(D) <= 1
           /\ \A d \in D, k \in Live(t) \ D : data[d].expires <= data[k].expires
<1> DEFINE Stored == {k \in Keys : data[k] # NoEntry}
<1>1. IsFiniteSet(Stored) /\ Live(t) \subseteq Stored
  BY CacheAssumption, FS_Subset DEF Live
<1>2. /\ IsFiniteSet(Live(t)) /\ Cardinality(Live(t)) \in Nat
      /\ Cardinality(Live(t)) <= Cardinality(Stored) /\ Cardinality(Stored) \in Nat
  BY <1>1, FS_Subset, FS_CardinalityType
<1>3. Cardinality(Live(t)) <= MaxEntries
  BY <1>2, ConstantFacts DEF CapacityBound
<1>4. CASE Cardinality(Live(t)) >= MaxEntries
  <2>1. /\ D \subseteq Live(t) /\ Cardinality(D) = Cardinality(Live(t)) - MaxEntries + 1
        /\ \A d \in D, k \in Live(t) \ D : data[d].expires <= data[k].expires
    BY <1>4 DEF Victims
  <2> QED BY <1>2, <1>3, <2>1, ConstantFacts, FS_Subset
<1>5. CASE ~(Cardinality(Live(t)) >= MaxEntries)
  <2>1. D = {}
    BY <1>5 DEF Victims
  <2> QED BY <2>1, FS_EmptySet
<1> QED BY <1>4, <1>5

LEMMA InsertEvicts ==
    ASSUME IInv, NEW c \in Clients, Insert(c)
    PROVE  LET Lost == {k \in Live(now) \ {req[c].key} : data'[k] = NoEntry}
               Kept == {k \in Keys \ {req[c].key} : data'[k] # NoEntry}
           IN  /\ Cardinality(Lost) <= 1
               /\ \A l \in Lost, k \in Kept : data[l].expires <= data[k].expires
<1> DEFINE t == req[c].lastMod
           Lost == {k \in Live(now) \ {req[c].key} : data'[k] = NoEntry}
           Kept == {k \in Keys \ {req[c].key} : data'[k] # NoEntry}
<1>1. PICK D \in Victims(t) :
         data' = [k \in Keys |-> IF k = req[c].key THEN NewEntry(c)
                                 ELSE IF k \in Live(t) \ D THEN data[k]
                                 ELSE NoEntry]
  BY DEF Insert
<1>2. /\ D \subseteq Live(t) /\ IsFiniteSet(D) /\ Cardinality(D) <= 1
      /\ \A d \in D, k \in Live(t) \ D : data[d].expires <= data[k].expires
  BY OneVictim DEF IInv
<1>3. Live(now) \subseteq Live(t)
  <2>1. t \in Nat /\ now \in Nat /\ t <= now
    BY StageFacts, ConstantFacts DEF IInv, TypeOK, Insert, Stamped, FillingInv, Filling, SoundFill
  <2>2. \A k \in Keys : data[k] # NoEntry => data[k].expires \in Nat
    BY DEF IInv, TypeOK, Entry
  <2> QED BY <2>1, <2>2 DEF Live
<1>4. Lost \subseteq D
  <2>1. \A k \in Live(t) \ D : k \in Keys /\ data[k] # NoEntry
    BY DEF Live
  <2> QED BY <1>1, <1>3, <2>1 DEF Live
<1>5. Kept \subseteq Live(t) \ D
  BY <1>1
<1>6. Cardinality(Lost) <= Cardinality(D) /\ Cardinality(Lost) \in Nat /\ Cardinality(D) \in Nat
  BY <1>2, <1>4, FS_Subset, FS_CardinalityType
<1>7. Cardinality(Lost) <= 1
  BY <1>2, <1>6
<1>8. \A l \in Lost, k \in Kept : data[l].expires <= data[k].expires
  BY <1>2, <1>4, <1>5
<1> QED BY <1>7, <1>8

(* However many misses insert at once, an insertion costs the store at     *)
(* most one live entry of another key, and the one that expires first.     *)
THEOREM OldestIsEvicted == Spec => EvictsOldestOnly
<1>1. IInv /\ [Next]_vars =>
        [\A c \in Clients : Insert(c) =>
            LET Lost == {k \in Live(now) \ {req[c].key} : data'[k] = NoEntry}
                Kept == {k \in Keys \ {req[c].key} : data'[k] # NoEntry}
            IN  /\ Cardinality(Lost) <= 1
                /\ \A l \in Lost, k \in Kept : data[l].expires <= data[k].expires]_vars
  BY InsertEvicts
<1> QED BY <1>1, Invariance, PTL DEF Spec, EvictsOldestOnly
=============================================================================

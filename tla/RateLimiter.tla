---------------------------- MODULE RateLimiter ----------------------------
(***************************************************************************)
(* The global middleware of internal/middleware/rate_limiter.go: a map of  *)
(* visitors guarded by one mutex, the request handler Limit(), which       *)
(* creates the visitor, reads the clock and decides, and the goroutine     *)
(* cleanupVisitors, which forgets idle visitors on a ticker.               *)
(*                                                                         *)
(* The clock moves while the mutex is held: the creation of a visitor and  *)
(* the decision read it at different times, so they are two actions.       *)
(* `admitted' is a history variable, read by the properties only.          *)
(***************************************************************************)
EXTENDS Integers, Sequences, FiniteSets

CONSTANTS Clients,    \* IP addresses (c.ClientIP())
          Limit,      \* max requests per window
          Window,     \* length of the window, in ticks
          MaxTime,    \* bound on the clock
          NoVisitor,  \* visitors[ip] is nil
          Nobody      \* the mutex is free

Visitor == [requests : Nat, lastReset : Nat]

ASSUME LimiterAssumption ==
    /\ Limit \in Nat
    /\ Window \in Nat \ {0}
    /\ MaxTime \in Nat
    /\ NoVisitor \notin Visitor
    /\ Nobody \notin Clients

VARIABLES now,       \* time.Now()
          visitors,  \* rl.visitors
          holder,    \* the client whose request holds rl.mu
          tickDue,   \* ticker.C holds a tick (a channel of capacity one)
          reply,     \* what the last request got: c.Next() or 429
          admitted   \* history: per client, its admissions in order

vars == <<now, visitors, holder, tickDue, reply, admitted>>

Cleanup == 2 * Window   \* rl.cleanup

Init == /\ now = 0
        /\ visitors = [ip \in Clients |-> NoVisitor]
        /\ holder = Nobody
        /\ tickDue = FALSE
        /\ reply = [status |-> "none"]
        /\ admitted = [ip \in Clients |-> << >>]

(* Time passes; the ticker drops a tick nobody has taken. *)
Tick == /\ now < MaxTime
        /\ now' = now + 1
        /\ tickDue' = (tickDue \/ now' % Cleanup = 0)
        /\ UNCHANGED <<visitors, holder, reply, admitted>>

(* Limit() takes the mutex and finds or creates its visitor. *)
Arrive(ip) ==
    /\ holder = Nobody
    /\ holder' = ip
    /\ visitors' = IF visitors[ip] = NoVisitor
                   THEN [visitors EXCEPT ![ip] = [requests |-> 0, lastReset |-> now]]
                   ELSE visitors
    /\ UNCHANGED <<now, tickDue, reply, admitted>>

(* Mutants of Current: the reset forgets lastReset; it forgets requests;   *)
(* it takes an allowance per window off the counter instead of clearing it. *)
CurrentKeepsStart(ip) ==
    IF now - visitors[ip].lastReset > Window
    THEN [visitors[ip] EXCEPT !.requests = 0] ELSE visitors[ip]
CurrentKeepsCount(ip) ==
    IF now - visitors[ip].lastReset > Window
    THEN [visitors[ip] EXCEPT !.lastReset = now] ELSE visitors[ip]
CurrentCarriesOver(ip) ==
    IF now - visitors[ip].lastReset > Window
    THEN [requests |-> visitors[ip].requests
                         - Limit * ((now - visitors[ip].lastReset) \div Window),
          lastReset |-> now]
    ELSE visitors[ip]

(* The visitor after "Reset counter if window has passed". *)
Current(ip) == IF now - visitors[ip].lastReset > Window
               THEN [requests |-> 0, lastReset |-> now]
               ELSE visitors[ip]

Reject(ip) ==
    /\ holder = ip
    /\ Current(ip).requests >= Limit
    /\ visitors' = [visitors EXCEPT ![ip] = Current(ip)]
    /\ reply' = [status |-> "too_many", ip |-> ip, at |-> now]
    /\ holder' = Nobody
    /\ UNCHANGED <<now, tickDue, admitted>>

Admit(ip) ==
    /\ holder = ip
    /\ Current(ip).requests < Limit
    /\ visitors' = [visitors EXCEPT ![ip] =
                      [requests |-> Current(ip).requests + 1,
                       lastReset |-> Current(ip).lastReset]]
    /\ admitted' = [admitted EXCEPT ![ip] =
                      Append(@, [at |-> now, win |-> Current(ip).lastReset])]
    /\ reply' = [status |-> "ok", ip |-> ip, at |-> now]
    /\ holder' = Nobody
    /\ UNCHANGED <<now, tickDue>>

(* Mutants of IsIdle: the interval is the window, not twice the window;    *)
(* only visitors that used up nothing are removed.                         *)
IsIdleAtWindow(ip) == visitors[ip] # NoVisitor /\ now - visitors[ip].lastReset >= Window
IsIdleUnused(ip)   == visitors[ip] # NoVisitor /\ visitors[ip].requests = 0

(* cleanupVisitors: one tick, the whole map under the mutex. *)
IsIdle(ip) == visitors[ip] # NoVisitor /\ now - visitors[ip].lastReset > Cleanup

CleanupVisitors ==
    /\ tickDue
    /\ holder = Nobody
    /\ tickDue' = FALSE
    /\ visitors' = [ip \in Clients |-> IF IsIdle(ip) THEN NoVisitor ELSE visitors[ip]]
    /\ UNCHANGED <<now, holder, reply, admitted>>

Decide(ip) == Reject(ip) \/ Admit(ip)

Next == \/ Tick
        \/ CleanupVisitors
        \/ \E ip \in Clients : Arrive(ip) \/ Decide(ip)

Spec == Init /\ [][Next]_vars

(* Time goes on, a request that holds the mutex gets to the end of Limit(), *)
(* and the cleanup goroutine is not starved of a mutex that is released    *)
(* again and again: sync.RWMutex hands it to waiters in turn.              *)
Fairness == /\ WF_vars(Tick)
            /\ WF_vars(\E ip \in Clients : Decide(ip))
            /\ SF_vars(CleanupVisitors)

FairSpec == Spec /\ Fairness

-----------------------------------------------------------------------------
(* The admissions of ip between two times, both included. *)
AdmittedIn(ip, from, to) ==
    {i \in DOMAIN admitted[ip] : from <= admitted[ip][i].at /\ admitted[ip][i].at <= to}

(* Every variable has its type. *)
TypeOK ==
    /\ now \in 0..MaxTime
    /\ visitors \in [Clients -> Visitor \cup {NoVisitor}]
    /\ holder \in Clients \cup {Nobody}
    /\ tickDue \in BOOLEAN
    /\ reply \in [status : {"none"}]
                   \cup [status : {"ok", "too_many"}, ip : Clients, at : 0..MaxTime]
    /\ admitted \in [Clients -> Seq([at : 0..MaxTime, win : 0..MaxTime])]

(* "limit: max requests per window": the windows are fixed, each opened by *)
(* a request, so a burst on both sides of a reset passes; still, no stretch *)
(* of Window ticks, wherever it starts, holds more than 2 * Limit requests *)
(* of a client, whatever the cleanup goroutine has forgotten meanwhile.    *)
BurstBound ==
    \A ip \in Clients : \A t \in 0..MaxTime :
        Cardinality(AdmittedIn(ip, t, t + Window)) <= 2 * Limit

(* A 429 is never the fault of somebody else's traffic or of old traffic: *)
(* the client it is sent to was granted Limit requests in the last Window  *)
(* ticks.                                                                  *)
RejectionJustified ==
    reply.status = "too_many" =>
        Cardinality(AdmittedIn(reply.ip, reply.at - Window, reply.at)) >= Limit

(* "Start cleanup goroutine to prevent memory leaks": a visitor that does *)
(* not come back is removed, at the latest by the second tick after its    *)
(* window was opened (the clock must be able to reach that tick).          *)
IdleVisitorsForgotten ==
    \A ip \in Clients : \A t \in 0..(MaxTime - 2 * Cleanup) :
        LET OpenedAt == visitors[ip] # NoVisitor /\ visitors[ip].lastReset = t
        IN  OpenedAt ~> ~OpenedAt

(* The limiter is a fixed-window quota per client: a visitor that the map *)
(* has lost and one whose window is over are the same thing.               *)
Quota == INSTANCE FixedWindow WITH
    Idle <- NoVisitor,
    clock <- now,
    answer <- reply,
    quota <- [ip \in Clients |->
                IF visitors[ip] = NoVisitor \/ now - visitors[ip].lastReset > Window
                THEN NoVisitor ELSE visitors[ip]]

ImplementsFixedWindow == Quota!Spec
=============================================================================

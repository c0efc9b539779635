---------------------------- MODULE FixedWindow ----------------------------
(***************************************************************************)
(* What internal/middleware/rate_limiter.go promises to the callers of the *)
(* API, without the map, the mutex or the cleanup goroutine: every client  *)
(* has a window of Window time units that opens with its first request,    *)
(* Limit requests are granted inside a window, the others are denied, and  *)
(* a window that is over is forgotten.  RateLimiter implements it.         *)
(***************************************************************************)
EXTENDS Naturals

CONSTANTS Clients,   \* the callers, told apart by their IP address
          Limit,     \* requests granted per window
          Window,    \* length of a window
          Idle       \* a client with no open window

VARIABLES clock,     \* the time
          quota,     \* quota[ip]: Idle, or the open window and its use
          answer     \* the last answer given

vars == <<clock, quota, answer>>

Fresh == [requests |-> 0, lastReset |-> clock]

Current(ip) == IF quota[ip] = Idle THEN Fresh ELSE quota[ip]

Init == /\ clock = 0
        /\ quota = [ip \in Clients |-> Idle]
        /\ answer = [status |-> "none"]

(* A window may open before the first request in it is decided. *)
Open(ip) == /\ quota[ip] = Idle
            /\ quota' = [quota EXCEPT ![ip] = Fresh]
            /\ UNCHANGED <<clock, answer>>

Grant(ip) ==
    /\ Current(ip).requests < Limit
    /\ quota' = [quota EXCEPT ![ip] =
                   [requests |-> Current(ip).requests + 1,
                    lastReset |-> Current(ip).lastReset]]
    /\ answer' = [status |-> "ok", ip |-> ip, at |-> clock]
    /\ UNCHANGED clock

Deny(ip) ==
    /\ Current(ip).requests >= Limit
    /\ quota' = [quota EXCEPT ![ip] = Current(ip)]
    /\ answer' = [status |-> "too_many", ip |-> ip, at |-> clock]
    /\ UNCHANGED clock

(* Time passes, and the windows that are over with it are closed. *)
Pass ==
    /\ clock' = clock + 1
    /\ quota' = [ip \in Clients |->
                   IF quota[ip] # Idle /\ clock' - quota[ip].lastReset > Window
                   THEN Idle ELSE quota[ip]]
    /\ UNCHANGED answer

Next == Pass \/ \E ip \in Clients : Open(ip) \/ Grant(ip) \/ Deny(ip)

Spec == Init /\ [][Next]_vars
=============================================================================

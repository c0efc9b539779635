------------------------- MODULE RateLimiterProofs -------------------------
(***************************************************************************)
(* The safety properties of RateLimiter for every set of clients, limit,   *)
(* window and length of the run.  The inductive invariant relates the      *)
(* counter of a visitor to the history of its admissions: the windows of a *)
(* client lie more than Window apart, none has more than Limit admissions, *)
(* and a visitor that the cleanup goroutine has removed has no admission   *)
(* left in a window that is still open.                                    *)
(***************************************************************************)
EXTENDS RateLimiter, FiniteSetTheorems, TLAPS

(* The admissions of ip in the window that was opened at w. *)
InWindow(ip, w) == {i \in DOMAIN admitted[ip] : admitted[ip][i].win = w}

(* A window closes Window ticks after it was opened. *)
Before(w, t) == w + Window < t

HolderInv == holder # Nobody => visitors[holder] # NoVisitor

CounterInv ==
    \A ip \in Clients : visitors[ip] # NoVisitor =>
        /\ visitors[ip].requests <= Limit
        /\ visitors[ip].lastReset <= now
        /\ visitors[ip].requests = Cardinality(InWindow(ip, visitors[ip].lastReset))

LogInv ==
    \A ip \in Clients : \A i \in DOMAIN admitted[ip] :
        /\ admitted[ip][i].win <= admitted[ip][i].at
        /\ admitted[ip][i].at <= admitted[ip][i].win + Window
        /\ admitted[ip][i].at <= now

LatestInv ==
    \A ip \in Clients : \A i \in DOMAIN admitted[ip] :
        IF visitors[ip] = NoVisitor
        THEN Before(admitted[ip][i].win, now)
        ELSE \/ admitted[ip][i].win = visitors[ip].lastReset
             \/ Before(admitted[ip][i].win, visitors[ip].lastReset)

ApartInv ==
    \A ip \in Clients : \A i, j \in DOMAIN admitted[ip] :
        \/ admitted[ip][i].win = admitted[ip][j].win
        \/ Before(admitted[ip][i].win, admitted[ip][j].win)
        \/ Before(admitted[ip][j].win, admitted[ip][i].win)

LimitInv ==
    \A ip \in Clients : \A w \in Nat : Cardinality(InWindow(ip, w)) <= Limit

IInv == /\ TypeOK /\ HolderInv /\ CounterInv /\ LogInv /\ LatestInv
        /\ ApartInv /\ LimitInv /\ RejectionJustified

-----------------------------------------------------------------------------
(* Finiteness of the sets that are counted. *)
LEMMA DomainFinite ==
    ASSUME NEW R, NEW s \in Seq(R)
    PROVE  IsFiniteSet(DOMAIN s)
<1>1. DOMAIN s = 1..Len(s) /\ Len(s) \in Nat
  OBVIOUS
<1> QED BY <1>1, FS_Interval

LEMMA CountsFinite ==
    ASSUME TypeOK, NEW ip \in Clients
    PROVE  /\ \A w : /\ IsFiniteSet(InWindow(ip, w))
                     /\ Cardinality(InWindow(ip, w)) \in Nat
           /\ \A f, t : /\ IsFiniteSet(AdmittedIn(ip, f, t))
                        /\ Cardinality(AdmittedIn(ip, f, t)) \in Nat
<1>1. IsFiniteSet(DOMAIN admitted[ip])
  BY DomainFinite DEF TypeOK
<1>2. \A w : IsFiniteSet(InWindow(ip, w))
  BY <1>1, FS_Subset DEF InWindow
<1>3. \A f, t : IsFiniteSet(AdmittedIn(ip, f, t))
  BY <1>1, FS_Subset DEF AdmittedIn
<1> QED BY <1>2, <1>3, FS_CardinalityType

(* What one more admission does to the history of a client. *)
LEMMA AppendFacts ==
    ASSUME NEW R, NEW s \in Seq(R), NEW e \in R
    PROVE  /\ DOMAIN Append(s, e) = DOMAIN s \cup {Len(s) + 1}
           /\ Len(s) + 1 \notin DOMAIN s
           /\ \A i \in DOMAIN s : Append(s, e)[i] = s[i]
           /\ Append(s, e)[Len(s) + 1] = e
OBVIOUS

LEMMA ElementType ==
    ASSUME NEW R, NEW s \in Seq(R), NEW i \in DOMAIN s
    PROVE  s[i] \in R
OBVIOUS

(* The times in the history are numbers the clock has shown. *)
LEMMA LogTypes ==
    ASSUME TypeOK, NEW ip \in Clients, NEW i \in DOMAIN admitted[ip]
    PROVE  /\ admitted[ip][i].at \in Nat /\ admitted[ip][i].at \in 0..MaxTime
           /\ admitted[ip][i].win \in Nat /\ admitted[ip][i].win \in 0..MaxTime
<1>1. admitted[ip] \in Seq([at : 0..MaxTime, win : 0..MaxTime])
  BY DEF TypeOK
<1>2. admitted[ip][i] \in [at : 0..MaxTime, win : 0..MaxTime]
  BY <1>1, ElementType
<1> QED BY <1>2, LimiterAssumption

(* The visitor on which a request is decided, whether reset or not, counts *)
(* the admissions in a window that is open now and is the client's latest. *)
LEMMA CurrentFacts ==
    ASSUME IInv, NEW ip \in Clients, holder = ip
    PROVE  /\ Current(ip) \in Visitor
           /\ Current(ip).lastReset <= now
           /\ now <= Current(ip).lastReset + Window
           /\ Current(ip).requests <= Limit
           /\ Current(ip).requests = Cardinality(InWindow(ip, Current(ip).lastReset))
           /\ \A i \in DOMAIN admitted[ip] :
                 \/ admitted[ip][i].win = Current(ip).lastReset
                 \/ Before(admitted[ip][i].win, Current(ip).lastReset)
<1>1. /\ visitors[ip] # NoVisitor
      /\ visitors[ip] \in Visitor
      /\ visitors[ip].lastReset \in Nat /\ visitors[ip].lastReset <= now
      /\ now \in Nat /\ Window \in Nat /\ Limit \in Nat
  BY LimiterAssumption DEF IInv, TypeOK, HolderInv, CounterInv, Visitor
<1>2. \A i \in DOMAIN admitted[ip] : admitted[ip][i].win \in Nat
  BY LogTypes DEF IInv
<1>3. CASE now - visitors[ip].lastReset > Window
  <2>1. Current(ip) = [requests |-> 0, lastReset |-> now]
    BY <1>3 DEF Current
  <2>2. \A i \in DOMAIN admitted[ip] : Before(admitted[ip][i].win, now)
    BY <1>1, <1>2, <1>3 DEF IInv, LatestInv, Before
  <2>3. InWindow(ip, now) = {}
    BY <1>1, <1>2, <2>2, LimiterAssumption DEF InWindow, Before
  <2>4. Cardinality(InWindow(ip, now)) = 0
    BY <2>3, FS_EmptySet
  <2> QED BY <1>1, <2>1, <2>2, <2>4 DEF Visitor
<1>4. CASE ~(now - visitors[ip].lastReset > Window)
  <2>1. Current(ip) = visitors[ip]
    BY <1>4 DEF Current
  <2>2. now <= visitors[ip].lastReset + Window
    BY <1>1, <1>4
  <2>3. /\ visitors[ip].requests <= Limit
        /\ visitors[ip].requests = Cardinality(InWindow(ip, visitors[ip].lastReset))
    BY <1>1 DEF IInv, CounterInv
  <2>4. \A i \in DOMAIN admitted[ip] :
           \/ admitted[ip][i].win = visitors[ip].lastReset
           \/ Before(admitted[ip][i].win, visitors[ip].lastReset)
    BY <1>1 DEF IInv, LatestInv
  <2> QED BY <1>1, <2>1, <2>2, <2>3, <2>4
<1> QED BY <1>3, <1>4

LEMMA InitInv == Init => IInv
<1> SUFFICES ASSUME Init PROVE IInv
  OBVIOUS
<1>1. TypeOK
  <2>1. << >> \in Seq([at : 0..MaxTime, win : 0..MaxTime])
    OBVIOUS
  <2>2. admitted \in [Clients -> Seq([at : 0..MaxTime, win : 0..MaxTime])]
    BY <2>1 DEF Init
  <2>3. visitors \in [Clients -> Visitor \cup {NoVisitor}]
    BY DEF Init
  <2>4. MaxTime \in Nat
    BY LimiterAssumption
  <2>6. now \in 0..MaxTime
    BY <2>4 DEF Init
  <2>7. holder \in Clients \cup {Nobody} /\ tickDue \in BOOLEAN
    BY DEF Init
  <2>5. reply \in [status : {"none"}]
    BY DEF Init
  <2> QED BY <2>2, <2>3, <2>5, <2>6, <2>7 DEF TypeOK
<1>2. \A ip \in Clients, w \in Nat : InWindow(ip, w) = {}
  BY DEF Init, InWindow
<1>3. LimitInv
  BY <1>2, FS_EmptySet, LimiterAssumption DEF LimitInv
<1>4. HolderInv /\ CounterInv /\ LogInv /\ LatestInv /\ ApartInv /\ RejectionJustified
  BY DEF Init, HolderInv, CounterInv, LogInv, LatestInv, ApartInv, RejectionJustified
<1> QED BY <1>1, <1>3, <1>4 DEF IInv

-----------------------------------------------------------------------------
(* A 429 that was justified stays so: later admissions only add to it.     *)
LEMMA JustifiedKept ==
    ASSUME TypeOK, RejectionJustified, UNCHANGED <<admitted, reply>>
    PROVE  RejectionJustified'
BY DEF RejectionJustified, AdmittedIn

LEMMA TickInv ==
    ASSUME IInv, Tick
    PROVE  IInv'
<1>1. /\ now \in Nat /\ now' = now + 1 /\ now' \in 0..MaxTime
      /\ UNCHANGED <<visitors, holder, reply, admitted>>
  BY LimiterAssumption DEF Tick, IInv, TypeOK
<1>2. TypeOK'
  BY <1>1 DEF IInv, TypeOK, Tick
<1>3. HolderInv' /\ ApartInv'
  BY <1>1 DEF IInv, HolderInv, ApartInv
<1>4. CounterInv'
  <2>1. \A ip \in Clients : visitors[ip] # NoVisitor => visitors[ip].lastReset \in Nat
    BY DEF IInv, TypeOK, Visitor
  <2> QED BY <1>1, <2>1 DEF IInv, CounterInv, InWindow
<1>5. \A ip \in Clients : \A i \in DOMAIN admitted[ip] :
         admitted[ip][i].at \in Nat /\ admitted[ip][i].win \in Nat
  BY LogTypes DEF IInv
<1>6. LogInv'
  BY <1>1, <1>5 DEF IInv, LogInv
<1>9. LatestInv'
  BY <1>1, <1>5, LimiterAssumption DEF IInv, LatestInv, Before
<1>7. LimitInv'
  BY <1>1 DEF IInv, LimitInv, InWindow
<1>8. RejectionJustified'
  BY <1>1, JustifiedKept DEF IInv
<1> QED BY <1>2, <1>3, <1>4, <1>6, <1>7, <1>8, <1>9 DEF IInv

LEMMA CleanupInv ==
    ASSUME IInv, CleanupVisitors
    PROVE  IInv'
<1>1. /\ now \in Nat /\ Window \in Nat /\ holder = Nobody
      /\ UNCHANGED <<now, holder, reply, admitted>>
      /\ \A ip \in Clients :
            visitors'[ip] = IF IsIdle(ip) THEN NoVisitor ELSE visitors[ip]
  BY LimiterAssumption DEF CleanupVisitors, IInv, TypeOK
<1>2. TypeOK'
  BY <1>1 DEF CleanupVisitors, IInv, TypeOK
<1>3. HolderInv' /\ ApartInv' /\ LogInv'
  BY <1>1 DEF IInv, HolderInv, ApartInv, LogInv
<1>4. CounterInv'
  BY <1>1 DEF IInv, CounterInv, InWindow
<1>5. LatestInv'
  <2> SUFFICES ASSUME NEW ip \in Clients, NEW i \in DOMAIN admitted[ip]
               PROVE  IF visitors'[ip] = NoVisitor
                      THEN Before(admitted[ip][i].win, now)
                      ELSE \/ admitted[ip][i].win = visitors'[ip].lastReset
                           \/ Before(admitted[ip][i].win, visitors'[ip].lastReset)
    BY <1>1 DEF LatestInv, Before
  <2>1. admitted[ip][i].win \in Nat
    BY LogTypes DEF IInv
  <2>2. CASE IsIdle(ip)
    <3>1. visitors'[ip] = NoVisitor
      BY <1>1, <2>2
    <3>2. visitors[ip].lastReset \in Nat /\ now - visitors[ip].lastReset > 2 * Window
      BY <2>2 DEF IsIdle, Cleanup, IInv, TypeOK, Visitor
    <3>3. \/ admitted[ip][i].win = visitors[ip].lastReset
          \/ Before(admitted[ip][i].win, visitors[ip].lastReset)
      BY <2>2 DEF IsIdle, IInv, LatestInv
    <3> QED BY <1>1, <2>1, <3>1, <3>2, <3>3 DEF Before
  <2>3. CASE ~IsIdle(ip)
    BY <1>1, <2>3 DEF IInv, LatestInv
  <2> QED BY <2>2, <2>3
<1>6. LimitInv'
  BY <1>1 DEF IInv, LimitInv, InWindow
<1>7. RejectionJustified'
  BY <1>1, JustifiedKept DEF IInv
<1> QED BY <1>2, <1>3, <1>4, <1>5, <1>6, <1>7 DEF IInv

LEMMA ArriveInv ==
    ASSUME IInv, NEW ip \in Clients, Arrive(ip)
    PROVE  IInv'
<1>1. /\ now \in Nat /\ holder' = ip
      /\ UNCHANGED <<now, reply, admitted, tickDue>>
      /\ visitors' \in [Clients -> Visitor \cup {NoVisitor}]
      /\ visitors'[ip] # NoVisitor
      /\ \A q \in Clients :
            \/ visitors'[q] = visitors[q]
            \/ /\ visitors[q] = NoVisitor
               /\ visitors'[q] = [requests |-> 0, lastReset |-> now]
  BY LimiterAssumption DEF Arrive, IInv, TypeOK, Visitor
<1>2. TypeOK'
  BY <1>1 DEF IInv, TypeOK
<1>3. HolderInv' /\ ApartInv' /\ LogInv'
  BY <1>1 DEF IInv, HolderInv, ApartInv, LogInv
<1>4. CounterInv'
  <2> SUFFICES ASSUME NEW q \in Clients, visitors'[q] # NoVisitor
               PROVE  /\ visitors'[q].requests <= Limit
                      /\ visitors'[q].lastReset <= now
                      /\ visitors'[q].requests =
                            Cardinality(InWindow(q, visitors'[q].lastReset))
    BY <1>1 DEF CounterInv, InWindow
  <2>1. CASE visitors'[q] = visitors[q]
    BY <2>1 DEF IInv, CounterInv
  <2>2. CASE /\ visitors[q] = NoVisitor
             /\ visitors'[q] = [requests |-> 0, lastReset |-> now]
    <3>1. \A i \in DOMAIN admitted[q] :
             admitted[q][i].win \in Nat /\ Before(admitted[q][i].win, now)
      BY <2>2, LogTypes DEF IInv, LatestInv
    <3>2. InWindow(q, now) = {}
      BY <1>1, <3>1, LimiterAssumption DEF InWindow, Before
    <3> QED BY <1>1, <2>2, <3>2, FS_EmptySet, LimiterAssumption
  <2> QED BY <1>1, <2>1, <2>2
<1>5. LatestInv'
  BY <1>1, LimiterAssumption DEF IInv, LatestInv, Before
<1>6. LimitInv'
  BY <1>1 DEF IInv, LimitInv, InWindow
<1>7. RejectionJustified'
  BY <1>1, JustifiedKept DEF IInv
<1> QED BY <1>2, <1>3, <1>4, <1>5, <1>6, <1>7 DEF IInv

LEMMA RejectInv ==
    ASSUME IInv, NEW ip \in Clients, Reject(ip)
    PROVE  IInv'
<1> DEFINE c == Current(ip)
<1>1. /\ c \in Visitor /\ c.lastReset \in Nat /\ c.requests \in Nat
      /\ c.lastReset <= now /\ now <= c.lastReset + Window
      /\ c.requests <= Limit
      /\ c.requests = Cardinality(InWindow(ip, c.lastReset))
      /\ \A i \in DOMAIN admitted[ip] :
            \/ admitted[ip][i].win = c.lastReset
            \/ Before(admitted[ip][i].win, c.lastReset)
  BY CurrentFacts DEF Reject, Visitor
<1> HIDE DEF c
<1>2. /\ now \in Nat /\ now \in 0..MaxTime /\ Window \in Nat /\ Limit \in Nat
      /\ visitors \in [Clients -> Visitor \cup {NoVisitor}]
  BY LimiterAssumption DEF IInv, TypeOK
<1>3. /\ c.requests >= Limit
      /\ visitors' = [visitors EXCEPT ![ip] = c]
      /\ reply' = [status |-> "too_many", ip |-> ip, at |-> now]
      /\ holder' = Nobody
      /\ UNCHANGED <<now, tickDue, admitted>>
  BY DEF Reject, c
<1>4. c # NoVisitor
  BY <1>1, LimiterAssumption
<1>5. TypeOK'
  <2>1. reply' \in [status : {"ok", "too_many"}, ip : Clients, at : 0..MaxTime]
    BY <1>2, <1>3
  <2>2. visitors' \in [Clients -> Visitor \cup {NoVisitor}]
    BY <1>1, <1>2, <1>3
  <2> QED BY <1>3, <2>1, <2>2 DEF IInv, TypeOK
<1>6. HolderInv' /\ ApartInv' /\ LogInv'
  BY <1>3, LimiterAssumption DEF IInv, HolderInv, ApartInv, LogInv
<1>7. CounterInv'
  BY <1>1, <1>2, <1>3 DEF IInv, CounterInv, InWindow
<1>8. LatestInv'
  BY <1>1, <1>2, <1>3, <1>4 DEF IInv, LatestInv, Before
<1>9. LimitInv'
  BY <1>3 DEF IInv, LimitInv, InWindow
<1>10. RejectionJustified'
  <2>1. InWindow(ip, c.lastReset) \subseteq AdmittedIn(ip, now - Window, now)
    <3> SUFFICES ASSUME NEW i \in DOMAIN admitted[ip],
                        admitted[ip][i].win = c.lastReset
                 PROVE  now - Window <= admitted[ip][i].at /\ admitted[ip][i].at <= now
      BY DEF InWindow, AdmittedIn
    <3>1. admitted[ip][i].at \in Nat /\ admitted[ip][i].win \in Nat
      BY LogTypes DEF IInv
    <3>2. /\ admitted[ip][i].win <= admitted[ip][i].at
          /\ admitted[ip][i].at <= now
      BY DEF IInv, LogInv
    <3> QED BY <1>1, <1>2, <3>1, <3>2
  <2>2. /\ IsFiniteSet(AdmittedIn(ip, now - Window, now))
        /\ Cardinality(AdmittedIn(ip, now - Window, now)) \in Nat
    BY CountsFinite DEF IInv
  <2>3. Cardinality(InWindow(ip, c.lastReset))
            <= Cardinality(AdmittedIn(ip, now - Window, now))
    BY <2>1, <2>2, FS_Subset
  <2>4. Cardinality(AdmittedIn(ip, now - Window, now)) >= Limit
    BY <1>1, <1>2, <1>3, <2>2, <2>3
  <2> QED BY <1>3, <2>4 DEF RejectionJustified, AdmittedIn
<1> QED BY <1>5, <1>6, <1>7, <1>8, <1>9, <1>10 DEF IInv

LEMMA AdmitInv ==
    ASSUME IInv, NEW ip \in Clients, Admit(ip)
    PROVE  IInv'
<1> DEFINE c == Current(ip)
           e == [at |-> now, win |-> c.lastReset]
           n == Len(admitted[ip]) + 1
           R == [at : 0..MaxTime, win : 0..MaxTime]
<1>1. /\ c \in Visitor /\ c.lastReset \in Nat /\ c.requests \in Nat
      /\ c.lastReset <= now /\ now <= c.lastReset + Window
      /\ c.requests = Cardinality(InWindow(ip, c.lastReset))
      /\ \A i \in DOMAIN admitted[ip] :
            \/ admitted[ip][i].win = c.lastReset
            \/ Before(admitted[ip][i].win, c.lastReset)
  BY CurrentFacts DEF Admit, Visitor
<1>2. /\ c.requests < Limit
      /\ visitors' = [visitors EXCEPT ![ip] =
                        [requests |-> c.requests + 1, lastReset |-> c.lastReset]]
      /\ admitted' = [admitted EXCEPT ![ip] = Append(@, e)]
      /\ reply' = [status |-> "ok", ip |-> ip, at |-> now]
      /\ holder' = Nobody
      /\ UNCHANGED <<now, tickDue>>
  BY DEF Admit
<1> HIDE DEF c
<1>3. /\ Window \in Nat /\ Limit \in Nat /\ MaxTime \in Nat
      /\ now \in 0..MaxTime
      /\ visitors \in [Clients -> Visitor \cup {NoVisitor}]
      /\ admitted \in [Clients -> Seq(R)]
  BY LimiterAssumption DEF IInv, TypeOK
<1>4. now \in Nat /\ e.at = now /\ e.win = c.lastReset
  BY <1>3
<1>22. e \in R /\ admitted[ip] \in Seq(R)
  <2>1. c.lastReset \in 0..MaxTime
    BY <1>1, <1>3, <1>4
  <2>2. e \in R
    BY <1>3, <2>1
  <2>3. admitted[ip] \in Seq(R)
    BY <1>3
  <2> QED BY <2>2, <2>3
<1> HIDE DEF e, R
<1>5. /\ DOMAIN admitted'[ip] = DOMAIN admitted[ip] \cup {n}
      /\ n \notin DOMAIN admitted[ip]
      /\ \A i \in DOMAIN admitted[ip] : admitted'[ip][i] = admitted[ip][i]
      /\ admitted'[ip][n] = e
      /\ admitted'[ip] \in Seq(R)
  <2>1. admitted'[ip] = Append(admitted[ip], e)
    BY <1>2, <1>3
  <2>2. Append(admitted[ip], e) \in Seq(R)
    BY <1>22
  <2> QED BY <1>22, <2>1, <2>2, AppendFacts DEF n
<1>6. \A q \in Clients : q # ip => admitted'[q] = admitted[q] /\ visitors'[q] = visitors[q]
  BY <1>2, <1>3
<1>7. visitors'[ip] = [requests |-> c.requests + 1, lastReset |-> c.lastReset]
  BY <1>2, <1>3
<1> HIDE DEF n
<1>8. visitors'[ip] \in Visitor /\ visitors'[ip] # NoVisitor
  BY <1>1, <1>7, LimiterAssumption DEF Visitor
<1>9. TypeOK'
  <2>1. reply' \in [status : {"ok", "too_many"}, ip : Clients, at : 0..MaxTime]
    BY <1>2, <1>3
  <2>2. visitors' \in [Clients -> Visitor \cup {NoVisitor}]
    BY <1>2, <1>3, <1>7, <1>8
  <2>3. admitted' \in [Clients -> Seq(R)]
    BY <1>2, <1>3, <1>5
  <2> QED BY <1>2, <2>1, <2>2, <2>3 DEF IInv, TypeOK, R
<1>10. HolderInv'
  BY <1>2 DEF HolderInv
<1>11. \A i \in DOMAIN admitted[ip] :
          admitted[ip][i].at \in Nat /\ admitted[ip][i].win \in Nat
  BY LogTypes DEF IInv
<1>12. LogInv'
  <2>1. \A i \in DOMAIN admitted'[ip] :
           /\ admitted'[ip][i].win <= admitted'[ip][i].at
           /\ admitted'[ip][i].at <= admitted'[ip][i].win + Window
           /\ admitted'[ip][i].at <= now
    BY <1>1, <1>4, <1>5 DEF IInv, LogInv
  <2> QED BY <1>2, <1>6, <2>1 DEF IInv, LogInv
<1>13. LatestInv'
  <2>1. \A i \in DOMAIN admitted'[ip] :
           \/ admitted'[ip][i].win = c.lastReset
           \/ Before(admitted'[ip][i].win, c.lastReset)
    BY <1>1, <1>4, <1>5
  <2>2. \A i \in DOMAIN admitted'[ip] :
           \/ admitted'[ip][i].win = visitors'[ip].lastReset
           \/ Before(admitted'[ip][i].win, visitors'[ip].lastReset)
    BY <1>7, <2>1
  <2> QED BY <1>2, <1>6, <1>8, <2>2 DEF IInv, LatestInv, Before
<1>14. ApartInv'
  <2>1. \A i, j \in DOMAIN admitted'[ip] :
           \/ admitted'[ip][i].win = admitted'[ip][j].win
           \/ Before(admitted'[ip][i].win, admitted'[ip][j].win)
           \/ Before(admitted'[ip][j].win, admitted'[ip][i].win)
    BY <1>1, <1>4, <1>5 DEF IInv, ApartInv
  <2> QED BY <1>6, <2>1 DEF IInv, ApartInv, Before
<1>15. PICK w0 \in Nat : w0 = c.lastReset
  BY <1>1
<1>16. /\ InWindow(ip, w0)' = InWindow(ip, w0) \cup {n}
       /\ \A w \in Nat : w # w0 => InWindow(ip, w)' = InWindow(ip, w)
  BY <1>4, <1>5, <1>15 DEF InWindow
<1>17. Cardinality(InWindow(ip, w0)') = c.requests + 1
  <2>1. IsFiniteSet(InWindow(ip, w0)) /\ n \notin InWindow(ip, w0)
    BY <1>5, CountsFinite DEF IInv, InWindow
  <2>2. Cardinality(InWindow(ip, w0) \cup {n}) = Cardinality(InWindow(ip, w0)) + 1
    BY <2>1, FS_AddElement
  <2> QED BY <1>1, <1>15, <1>16, <2>2
<1>18. \A q \in Clients : q # ip => \A w : InWindow(q, w)' = InWindow(q, w)
  BY <1>6 DEF InWindow
<1>19. CounterInv'
  <2> SUFFICES ASSUME NEW q \in Clients, visitors'[q] # NoVisitor
               PROVE  /\ visitors'[q].requests <= Limit
                      /\ visitors'[q].lastReset <= now
                      /\ visitors'[q].requests =
                            Cardinality(InWindow(q, visitors[q].lastReset)')
    BY <1>2 DEF CounterInv
  <2>1. CASE q = ip
    <3>1. InWindow(q, visitors[q].lastReset)' = InWindow(ip, w0)'
      BY <1>7, <1>15, <2>1 DEF InWindow
    <3> QED BY <1>1, <1>2, <1>3, <1>7, <1>17, <2>1, <3>1
  <2>2. CASE q # ip
    <3>1. InWindow(q, visitors[q].lastReset)' = InWindow(q, visitors[q].lastReset)
      BY <1>6, <2>2 DEF InWindow
    <3> QED BY <1>6, <2>2, <3>1 DEF IInv, CounterInv
  <2> QED BY <2>1, <2>2
<1>20. LimitInv'
  <2> SUFFICES ASSUME NEW q \in Clients, NEW w \in Nat
               PROVE  Cardinality(InWindow(q, w)') <= Limit
    BY DEF LimitInv
  <2>1. CASE q = ip /\ w = w0
    <3>1. c.requests + 1 <= Limit
      BY <1>1, <1>2, <1>3
    <3> QED BY <1>17, <2>1, <3>1
  <2>2. CASE ~(q = ip /\ w = w0)
    <3>1. InWindow(q, w)' = InWindow(q, w)
      BY <1>16, <1>18, <2>2
    <3> QED BY <3>1 DEF IInv, LimitInv
  <2> QED BY <2>1, <2>2
<1>21. RejectionJustified'
  BY <1>2 DEF RejectionJustified
<1> QED BY <1>9, <1>10, <1>12, <1>13, <1>14, <1>19, <1>20, <1>21 DEF IInv

LEMMA StutterInv ==
    ASSUME IInv, UNCHANGED vars
    PROVE  IInv'
<1>1. UNCHANGED <<now, visitors, holder, tickDue, reply, admitted>>
  BY DEF vars
<1>2. TypeOK'
  BY <1>1 DEF IInv, TypeOK
<1>3. HolderInv' /\ LogInv' /\ LatestInv' /\ ApartInv'
  BY <1>1 DEF IInv, HolderInv, LogInv, LatestInv, ApartInv, Before
<1>4. CounterInv' /\ LimitInv'
  BY <1>1 DEF IInv, CounterInv, LimitInv, InWindow
<1>5. RejectionJustified'
  BY <1>1, JustifiedKept DEF IInv
<1> QED BY <1>2, <1>3, <1>4, <1>5 DEF IInv

(* The inductive invariant holds in every reachable state. *)
THEOREM Invariance == Spec => []IInv
<1>1. Init => IInv
  BY InitInv
<1>2. IInv /\ [Next]_vars => IInv'
  <2> SUFFICES ASSUME IInv, [Next]_vars PROVE IInv'
    OBVIOUS
  <2>1. CASE Tick
    BY <2>1, TickInv
  <2>2. CASE CleanupVisitors
    BY <2>2, CleanupInv
  <2>3. ASSUME NEW ip \in Clients, Arrive(ip) PROVE IInv'
    BY <2>3, ArriveInv
  <2>4. ASSUME NEW ip \in Clients, Decide(ip) PROVE IInv'
    BY <2>4, RejectInv, AdmitInv DEF Decide
  <2>5. CASE UNCHANGED vars
    BY <2>5, StutterInv
  <2> QED BY <2>1, <2>2, <2>3, <2>4, <2>5 DEF Next
<1> QED BY <1>1, <1>2, PTL DEF Spec

(* Every reachable state of the limiter is well typed. *)
THEOREM TypeCorrect == Spec => []TypeOK
<1>1. IInv => TypeOK
  BY DEF IInv
<1> QED BY <1>1, Invariance, PTL

(* Every 429 goes to a client with Limit admissions in the last Window. *)
THEOREM RejectionsAreJustified == Spec => []RejectionJustified
<1>1. IInv => RejectionJustified
  BY DEF IInv
<1> QED BY <1>1, Invariance, PTL

-----------------------------------------------------------------------------
(* The admissions of a stretch of Window ticks come from at most two       *)
(* windows: three windows do not fit, their starts are too far apart.      *)
LEMMA TwoWindows ==
    ASSUME IInv, NEW ip \in Clients, NEW t \in 0..MaxTime,
           NEW i \in AdmittedIn(ip, t, t + Window),
           NEW j \in AdmittedIn(ip, t, t + Window),
           NEW k \in AdmittedIn(ip, t, t + Window),
           admitted[ip][i].win # admitted[ip][j].win
    PROVE  \/ admitted[ip][k].win = admitted[ip][i].win
           \/ admitted[ip][k].win = admitted[ip][j].win
<1> DEFINE w(x) == admitted[ip][x].win
           a(x) == admitted[ip][x].at
<1>1. i \in DOMAIN admitted[ip] /\ j \in DOMAIN admitted[ip] /\ k \in DOMAIN admitted[ip]
  BY DEF AdmittedIn
<1>2. \A x \in {i, j, k} :
         /\ w(x) \in Nat /\ a(x) \in Nat
         /\ w(x) <= a(x) /\ a(x) <= w(x) + Window
  BY <1>1, LogTypes DEF IInv, LogInv
<1>3. \A x \in {i, j, k} : t <= a(x) /\ a(x) <= t + Window
  BY DEF AdmittedIn
<1>4. \A x, y \in {i, j, k} : \/ w(x) = w(y)
                              \/ w(x) + Window < w(y)
                              \/ w(y) + Window < w(x)
  BY <1>1 DEF IInv, ApartInv, Before
<1>5. t \in Nat /\ Window \in Nat
  BY LimiterAssumption
<1> HIDE DEF w, a
<1>6. w(i) # w(j) => w(k) = w(i) \/ w(k) = w(j)
  BY <1>2, <1>3, <1>4, <1>5
<1> QED BY <1>6 DEF w

LEMMA BurstFromInv ==
    ASSUME IInv
    PROVE  BurstBound
<1> SUFFICES ASSUME NEW ip \in Clients, NEW t \in 0..MaxTime
             PROVE  Cardinality(AdmittedIn(ip, t, t + Window)) <= 2 * Limit
  BY DEF BurstBound
<1> DEFINE S == AdmittedIn(ip, t, t + Window)
           W(i) == InWindow(ip, admitted[ip][i].win)
<1>1. /\ IsFiniteSet(S) /\ Cardinality(S) \in Nat
      /\ \A i : IsFiniteSet(W(i)) /\ Cardinality(W(i)) \in Nat
  BY CountsFinite DEF IInv
<1>2. \A i \in S : Cardinality(W(i)) <= Limit
  <2> TAKE i \in S
  <2>1. i \in DOMAIN admitted[ip]
    BY DEF AdmittedIn
  <2>2. admitted[ip][i].win \in Nat
    BY <2>1, LogTypes DEF IInv
  <2> QED BY <2>2 DEF IInv, LimitInv
<1>3. Limit \in Nat
  BY LimiterAssumption
<1>4. CASE S = {}
  BY <1>3, <1>4, FS_EmptySet
<1>5. CASE \E i \in S : S \subseteq W(i)
  <2>1. PICK i \in S : S \subseteq W(i)
    BY <1>5
  <2>2. Cardinality(S) <= Cardinality(W(i))
    BY <1>1, <2>1, FS_Subset
  <2> QED BY <1>1, <1>2, <1>3, <2>2
<1>6. CASE S # {} /\ ~ \E i \in S : S \subseteq W(i)
  <2>1. PICK i \in S : TRUE
    BY <1>6
  <2>2. PICK j \in S : j \notin W(i)
    BY <1>6
  <2>3. admitted[ip][i].win # admitted[ip][j].win
    BY <2>2 DEF InWindow, AdmittedIn
  <2>4. \A k \in S : \/ admitted[ip][k].win = admitted[ip][i].win
                     \/ admitted[ip][k].win = admitted[ip][j].win
    BY <2>3, TwoWindows
  <2>5. S \subseteq W(i) \cup W(j)
    BY <2>4 DEF InWindow, AdmittedIn
  <2>6. /\ IsFiniteSet(W(i) \cup W(j))
        /\ Cardinality(W(i) \cup W(j)) =
              Cardinality(W(i)) + Cardinality(W(j)) - Cardinality(W(i) \cap W(j))
    BY <1>1, FS_Union
  <2>7. Cardinality(W(i) \cap W(j)) \in Nat
    BY <1>1, FS_Subset, FS_CardinalityType
  <2>8. Cardinality(S) <= Cardinality(W(i) \cup W(j))
    BY <2>5, <2>6, FS_Subset
  <2> HIDE DEF S, W
  <2>9. Cardinality(S) <= 2 * Limit
    BY <1>1, <1>2, <1>3, <2>1, <2>2, <2>6, <2>7, <2>8
  <2> QED BY <2>9 DEF S
<1> QED BY <1>4, <1>5, <1>6

(* No stretch of Window ticks holds more than 2 * Limit admissions. *)
THEOREM BurstsAreBounded == Spec => []BurstBound
<1>1. IInv => BurstBound
  BY BurstFromInv
<1> QED BY <1>1, Invariance, PTL

-----------------------------------------------------------------------------
(* The refinement mapping of RateLimiter. *)
View(ip) == IF visitors[ip] = NoVisitor \/ now - visitors[ip].lastReset > Window
            THEN NoVisitor ELSE visitors[ip]

Views == [ip \in Clients |-> View(ip)]

(* A client whose window is open is seen as it is stored, any other as     *)
(* fresh: the abstract window and Current agree on every decision.         *)
LEMMA ViewOfCurrent ==
    ASSUME IInv, NEW ip \in Clients, holder = ip
    PROVE  Quota!Current(ip) = Current(ip)
<1>1. visitors[ip] # NoVisitor
  BY LimiterAssumption DEF IInv, HolderInv
<1> QED BY <1>1 DEF Quota!Current, Quota!Fresh, Current

(* A decision writes Current to the map, with the requests r it counts. *)
LEMMA ViewOfDecision ==
    ASSUME IInv, NEW ip \in Clients, holder = ip, now' = now, NEW r \in Nat,
           visitors' = [visitors EXCEPT ![ip] =
                          [requests |-> r, lastReset |-> Current(ip).lastReset]]
    PROVE  Views' = [Views EXCEPT ![ip] =
                       [requests |-> r, lastReset |-> Current(ip).lastReset]]
<1> DEFINE v == [requests |-> r, lastReset |-> Current(ip).lastReset]
<1>1. /\ Current(ip).lastReset \in Nat
      /\ now <= Current(ip).lastReset + Window
      /\ now \in Nat /\ Window \in Nat
  <2>1. Current(ip) \in Visitor /\ now <= Current(ip).lastReset + Window
    BY CurrentFacts
  <2>2. now \in Nat /\ Window \in Nat
    BY LimiterAssumption DEF IInv, TypeOK
  <2> QED BY <2>1, <2>2 DEF Visitor
<1>2. v \in Visitor /\ v # NoVisitor
  BY <1>1, LimiterAssumption DEF Visitor
<1>3. \A q \in Clients : visitors'[q] = IF q = ip THEN v ELSE visitors[q]
  BY DEF IInv, TypeOK
<1>4. View(ip)' = v
  BY <1>1, <1>2, <1>3 DEF View
<1>5. \A q \in Clients : q # ip => View(q)' = View(q)
  BY <1>3 DEF View
<1> QED BY <1>4, <1>5 DEF Views

LEMMA StepMaps ==
    ASSUME IInv, [Next]_vars
    PROVE  [Quota!Next]_(Quota!vars)
<1> USE DEF Quota!Next, Quota!vars
<1>1. CASE Tick
  <2>1. now' = now + 1 /\ now \in Nat /\ UNCHANGED <<visitors, reply>>
    BY <1>1 DEF Tick, IInv, TypeOK
  <2>2. \A ip \in Clients : visitors[ip] # NoVisitor => visitors[ip].lastReset \in Nat
    BY DEF IInv, TypeOK, Visitor
  <2>3. Views' = [ip \in Clients |->
                    IF Views[ip] # NoVisitor /\ now' - Views[ip].lastReset > Window
                    THEN NoVisitor ELSE Views[ip]]
    BY <2>1, <2>2, LimiterAssumption DEF Views, View
  <2> QED BY <2>1, <2>3 DEF Quota!Pass, Views, View
<1>2. CASE CleanupVisitors
  <2>1. UNCHANGED <<now, reply>>
    BY <1>2 DEF CleanupVisitors
  <2>2. \A ip \in Clients : View(ip)' = View(ip)
    <3> TAKE ip \in Clients
    <3>1. visitors'[ip] = IF IsIdle(ip) THEN NoVisitor ELSE visitors[ip]
      BY <1>2 DEF CleanupVisitors
    <3>2. CASE IsIdle(ip)
      <4>1. now - visitors[ip].lastReset > Window
        BY <3>2, LimiterAssumption DEF IsIdle, Cleanup, IInv, TypeOK, Visitor
      <4> QED BY <2>1, <3>1, <3>2, <4>1 DEF View
    <3>3. CASE ~IsIdle(ip)
      BY <2>1, <3>1, <3>3 DEF View
    <3> QED BY <3>2, <3>3
  <2> QED BY <2>1, <2>2 DEF View
<1>3. ASSUME NEW ip \in Clients, Arrive(ip)
      PROVE  [Quota!Next]_(Quota!vars)
  <2>1. UNCHANGED <<now, reply>> /\ now \in Nat
    BY <1>3 DEF Arrive, IInv, TypeOK
  <2>2. CASE visitors[ip] # NoVisitor
    BY <1>3, <2>1, <2>2 DEF Arrive
  <2>3. CASE visitors[ip] = NoVisitor
    <3> DEFINE v == [requests |-> 0, lastReset |-> now]
    <3>1. /\ visitors' = [visitors EXCEPT ![ip] = v]
          /\ visitors \in [Clients -> Visitor \cup {NoVisitor}]
      BY <1>3, <2>3 DEF Arrive, IInv, TypeOK
    <3>2. v # NoVisitor
      BY <2>1, LimiterAssumption DEF Visitor
    <3>3. View(ip)' = v
      BY <2>1, <3>1, <3>2, LimiterAssumption DEF View
    <3>4. \A q \in Clients : q # ip => View(q)' = View(q)
      BY <2>1, <3>1 DEF View
    <3>5. View(ip) = NoVisitor /\ Views' = [Views EXCEPT ![ip] = v]
      BY <2>3, <3>3, <3>4 DEF Views, View
    <3> QED BY <2>1, <3>5 DEF Quota!Open, Quota!Fresh, Views, View
  <2> QED BY <2>2, <2>3
<1>4. ASSUME NEW ip \in Clients, Reject(ip)
      PROVE  [Quota!Next]_(Quota!vars)
  <2>1. /\ Current(ip).requests \in Nat
        /\ Current(ip) = [requests |-> Current(ip).requests,
                          lastReset |-> Current(ip).lastReset]
    BY <1>4, CurrentFacts DEF Reject, Visitor
  <2>2. Views' = [Views EXCEPT ![ip] = Current(ip)]
    BY <1>4, <2>1, ViewOfDecision DEF Reject
  <2>3. Quota!Current(ip) = Current(ip)
    BY <1>4, ViewOfCurrent DEF Reject
  <2> QED BY <1>4, <2>2, <2>3 DEF Reject, Quota!Deny, Views, View
<1>5. ASSUME NEW ip \in Clients, Admit(ip)
      PROVE  [Quota!Next]_(Quota!vars)
  <2>1. Current(ip).requests + 1 \in Nat
    BY <1>5, CurrentFacts DEF Admit, Visitor
  <2>2. Views' = [Views EXCEPT ![ip] =
                    [requests |-> Current(ip).requests + 1,
                     lastReset |-> Current(ip).lastReset]]
    BY <1>5, <2>1, ViewOfDecision DEF Admit
  <2>3. Quota!Current(ip) = Current(ip)
    BY <1>5, ViewOfCurrent DEF Admit
  <2> QED BY <1>5, <2>2, <2>3 DEF Admit, Quota!Grant, Views, View
<1>6. CASE UNCHANGED vars
  BY <1>6 DEF vars
<1> QED BY <1>1, <1>2, <1>3, <1>4, <1>5, <1>6 DEF Next, Decide

(* The limiter implements the fixed-window quota. *)
THEOREM LimiterRefinesQuota == Spec => ImplementsFixedWindow
<1>1. Init => Quota!Init
  BY DEF Init, Quota!Init
<1>2. IInv /\ [Next]_vars => [Quota!Next]_(Quota!vars)
  BY StepMaps
<1> QED BY <1>1, <1>2, Invariance, PTL DEF Spec, ImplementsFixedWindow, Quota!Spec
=============================================================================

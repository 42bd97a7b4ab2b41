---------------------------- MODULE RateLimiter ----------------------------
(***************************************************************************)
(* The rate limiter in front of login, observation import and detection.   *)
(*                                                                         *)
(* Every client has a fixed window that opens with a request and counts    *)
(* the requests it admits.  RateLimitMiddleware takes the time first and   *)
(* the lock afterwards, inside Allow, so requests may be served in another *)
(* order than that of their times.  Time is the monotonic clock, in ticks; *)
(* Second of them make a second, the unit of Retry-After.  The limiter     *)
(* lives in memory: a restart of the service starts this module anew.      *)
(***************************************************************************)
EXTENDS Integers, Sequences

CONSTANTS Client,
          NoVisitor,   \* the map has no entry for a client
          Slot,        \* requests that may be at the limiter at once
          Limit, Window, Second,
          MaxDelay,    \* bound: ticks from a request's time to its lock
          MaxTime      \* bound: the clock

\* model of a map entry: a window has admitted somebody and has an end.
Visitor == [count : Nat, expires : Nat]

ASSUME LimiterAssumption ==
    /\ Limit \in Nat \ {0} /\ Window \in Nat \ {0} /\ Second \in Nat \ {0}
    /\ MaxDelay \in 0 .. Window /\ MaxTime \in Nat
    /\ NoVisitor \notin Visitor

VARIABLES
    clock,
    visitors,   \* RateLimiter.visitors
    lastSweep,  \* RateLimiter.lastSweep
    request,    \* the request in every slot
    admitted    \* history: the moments at which each client was admitted

limiterVars == <<clock, visitors, lastSweep, request, admitted>>

Idle == [op |-> "idle"]

\* A request that has taken its time; and one that was refused, with the time
\* it is told to wait until and the number of its client's admissions so far.
Waiting == [op : {"waiting"}, client : Client, now : 0 .. MaxTime]
Refused == [op : {"refused"}, client : Client, until : Nat, so : Nat]

-----------------------------------------------------------------------------
Init ==
    /\ clock = 0 /\ lastSweep = 0
    /\ visitors = [c \in Client |-> NoVisitor]
    /\ request  = [s \in Slot |-> Idle]
    /\ admitted = [c \in Client |-> <<>>]

\* No request waits for its lock longer than MaxDelay.
Tick ==
    /\ clock < MaxTime
    /\ \A s \in Slot : request[s].op = "waiting" => clock < request[s].now + MaxDelay
    /\ clock' = clock + 1
    /\ UNCHANGED <<visitors, lastSweep, request, admitted>>

\* RateLimitMiddleware calls time.Now() for a request.
Arrive(s) ==
    /\ request[s] = Idle
    /\ \E c \in Client :
          request' = [request EXCEPT ![s] = [op |-> "waiting", client |-> c, now |-> clock]]
    /\ UNCHANGED <<clock, visitors, lastSweep, admitted>>

\* Mutants of Ended: a window ends a tick early, or never.
EndedEarly(visitor, now) == now >= visitor.expires
EndedNever(visitor, now) == FALSE

\* now.After(expiresAt): at its very end a window still counts.
Ended(visitor, now) == now > visitor.expires

\* Mutant of Swept: nobody is ever swept.
SweptNobody(now) == visitors

\* The map as a request finds it: once the last sweep is more than a window
\* ago, every client whose window has ended is dropped from it.
Swept(now) ==
    [c \in Client |->
        IF /\ now - lastSweep > Window
           /\ visitors[c] # NoVisitor
           /\ Ended(visitors[c], now)
        THEN NoVisitor ELSE visitors[c]]

\* The window a request counts in, the one that is open or a new one.
Current(c, now) ==
    IF Swept(now)[c] = NoVisitor \/ Ended(Swept(now)[c], now)
    THEN [count |-> 0, expires |-> now + Window]
    ELSE Swept(now)[c]

\* Mutant of Full: one request too many.
FullTooLate(visitor) == visitor.count > Limit

Full(visitor) == visitor.count >= Limit

\* Mutant of RetryAfter: the seconds are truncated.
RetryTruncated(visitor) ==
    LET seconds == (visitor.expires - clock) \div Second
    IN  Second * (IF seconds < 1 THEN 1 ELSE seconds)

\* The header of a refusal, in ticks: whole seconds, rounded up, at least one.
RetryAfter(visitor) ==
    LET seconds == (visitor.expires - clock + Second - 1) \div Second
    IN  Second * (IF seconds < 1 THEN 1 ELSE seconds)

\* Allow, under the mutex, and the answer to a request it refuses.
Allow(s) ==
    /\ request[s].op = "waiting"
    /\ LET c       == request[s].client
           now     == request[s].now
           current == Current(c, now)
       IN  /\ lastSweep' = IF now - lastSweep > Window THEN now ELSE lastSweep
           /\ IF Full(current)
              THEN /\ visitors' = Swept(now)
                   /\ request' = [request EXCEPT ![s] =
                         [op |-> "refused", client |-> c, until |-> clock + RetryAfter(current),
                          so |-> Len(admitted[c])]]
                   /\ UNCHANGED admitted
              ELSE /\ visitors' = [Swept(now) EXCEPT ![c] = [current EXCEPT !.count = @ + 1]]
                   /\ request' = [request EXCEPT ![s] = Idle]
                   /\ admitted' = [admitted EXCEPT ![c] = Append(@, clock)]
    /\ UNCHANGED clock

\* The client of a refusal is no longer of interest.
Leave(s) ==
    /\ request[s].op = "refused"
    /\ request' = [request EXCEPT ![s] = Idle]
    /\ UNCHANGED <<clock, visitors, lastSweep, admitted>>

Next == Tick \/ \E s \in Slot : Arrive(s) \/ Allow(s) \/ Leave(s)

Spec == Init /\ [][Next]_limiterVars

-----------------------------------------------------------------------------
(* Correctness *)

\* The map, the clock and the requests are well-formed, and no window admits
\* more than the limit.
TypeOK ==
    /\ clock \in 0 .. MaxTime /\ lastSweep \in 0 .. clock
    /\ visitors \in [Client -> Visitor \cup {NoVisitor}]
    /\ \A c \in Client : visitors[c] # NoVisitor => visitors[c].count \in 1 .. Limit
    /\ request \in [Slot -> {Idle} \cup Waiting \cup Refused]
    /\ admitted \in [Client -> Seq(0 .. MaxTime)]

\* What fixed windows promise: within any stretch of time of a window's
\* length no client is admitted more than twice the limit, whatever is swept
\* in between.  Requests that overtake each other shorten the stretch by the
\* delay, and by no more.
AdmissionBound ==
    \A c \in Client : \A i \in DOMAIN admitted[c] :
        i + 2 * Limit \in DOMAIN admitted[c] =>
            admitted[c][i + 2 * Limit] - admitted[c][i] > Window - MaxDelay

\* Nobody is refused for what is long past: whoever is refused was admitted
\* as often as the limit allows within the last window, give or take the
\* delay.
RefusalJustifiedStep ==
    \A s \in Slot : request[s].op = "waiting" /\ request'[s].op = "refused" =>
        LET times == admitted[request[s].client] IN
        /\ Len(times) >= Limit
        /\ clock - times[Len(times) - Limit + 1] <= Window + MaxDelay

RefusalJustified == [][RefusalJustifiedStep]_limiterVars

\* Retry-After is enough: when it has passed, the window that refused a
\* client is over, unless the client was admitted again in the meantime.
RetryHonoured ==
    \A s \in Slot : request[s].op = "refused" =>
        LET r == request[s] IN
        \/ Len(admitted[r.client]) > r.so
        \/ visitors[r.client] = NoVisitor
        \/ visitors[r.client].expires <= r.until

\* The map does not keep clients that never return: when a request has been
\* served, the last sweep is at most a window older than the request, and no
\* window that had ended by then is left in the map.
StaleVisitorsSweptStep ==
    \A s \in Slot : request[s].op = "waiting" /\ request'[s].op # "waiting" =>
        /\ lastSweep' >= request[s].now - Window
        /\ \A c \in Client : visitors'[c] # NoVisitor => visitors'[c].expires >= lastSweep'

StaleVisitorsSwept == [][StaleVisitorsSweptStep]_limiterVars
=============================================================================

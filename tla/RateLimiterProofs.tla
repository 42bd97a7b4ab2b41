--------------------------- MODULE RateLimiterProofs ---------------------------
(***************************************************************************)
(* RateLimiter for any clients, limit, window and number of requests.      *)
(*                                                                         *)
(* The argument follows one client.  Its admissions are those of the open  *)
(* window, which are the latest, and those before.  What opens a window    *)
(* comes after the end of the one before, even when that was swept by a    *)
(* request with a later time; so 2 * Limit admissions reach back beyond    *)
(* the window before.                                                      *)
(***************************************************************************)
EXTENDS RateLimiter, TLAPS

-----------------------------------------------------------------------------
(* What is true of one client: visitor is its entry, times its admissions, *)
(* and it is t o'clock                                                     *)

\* Admissions are in the order of time.
Ordered(times, t) ==
    /\ \A j \in DOMAIN times : times[j] <= t
    /\ \A i, j \in DOMAIN times : i <= j => times[i] <= times[j]

\* So many admissions were before the open window.
Before(visitor, times) == Len(times) - visitor.count

\* The window admitted the latest ones, none of them before it opened; the
\* others are no later than its opening, and a limit further back they are a
\* window away.
Open(visitor, times) ==
    /\ visitor.count <= Len(times)
    /\ \A j \in DOMAIN times : j > Before(visitor, times) => visitor.expires - Window <= times[j]
    /\ \A i \in DOMAIN times :
          i <= Before(visitor, times) => times[i] - MaxDelay <= visitor.expires - Window
    /\ \A i, j \in DOMAIN times :
          i <= Before(visitor, times) - Limit /\ j > Before(visitor, times) =>
              times[j] - times[i] > Window - MaxDelay

\* A window may be opened: a limit back, admissions are a window away.
Away(times, t) ==
    \A i \in DOMAIN times : i <= Len(times) - Limit => t - times[i] > Window - MaxDelay

\* What AdmissionBound says of one client.
Bounded(times) ==
    \A i \in DOMAIN times :
        i + 2 * Limit \in DOMAIN times => times[i + 2 * Limit] - times[i] > Window - MaxDelay

ClientSound(visitor, times, t) ==
    /\ Ordered(times, t) /\ Bounded(times)
    /\ IF visitor = NoVisitor THEN Away(times, t) ELSE Open(visitor, times)

-----------------------------------------------------------------------------
(* One client, step by step *)

\* The elements of a sequence.
LEMMA ElementsOf ==
    ASSUME NEW S, NEW seq \in Seq(S)
    PROVE  /\ Len(seq) \in Nat /\ DOMAIN seq = 1 .. Len(seq)
           /\ \A i \in 1 .. Len(seq) : seq[i] \in S
OBVIOUS

\* What follows of a sequence that is one longer.
LEMMA TimesGrow ==
    ASSUME NEW times \in Seq(0 .. MaxTime), NEW t \in 0 .. MaxTime,
           NEW more, more = Append(times, t)
    PROVE  /\ more \in Seq(0 .. MaxTime)
           /\ Len(times) \in Nat /\ Len(more) = Len(times) + 1
           /\ DOMAIN times = 1 .. Len(times) /\ DOMAIN more = 1 .. Len(times) + 1
           /\ \A i \in 1 .. Len(times) : more[i] = times[i] /\ times[i] \in 0 .. MaxTime
           /\ more[Len(times) + 1] = t
<1>1. /\ Len(times) \in Nat /\ DOMAIN times = 1 .. Len(times)
      /\ \A i \in 1 .. Len(times) : times[i] \in 0 .. MaxTime
  BY ElementsOf
<1>2. /\ more \in Seq(0 .. MaxTime) /\ Len(more) = Len(times) + 1
      /\ \A i \in 1 .. Len(times) : more[i] = times[i]
      /\ more[Len(times) + 1] = t
  OBVIOUS
<1>3. DOMAIN more = 1 .. Len(more)
  BY <1>2
<1>. QED  BY <1>1, <1>2, <1>3

\* A client whose window has ended may open another.
LEMMA EndedIsAway ==
    ASSUME NEW times \in Seq(0 .. MaxTime), NEW t \in 0 .. MaxTime,
           NEW visitor \in Visitor, visitor.count \in 1 .. Limit,
           Open(visitor, times), visitor.expires < t
    PROVE  Away(times, t)
<1>. SUFFICES ASSUME NEW i \in DOMAIN times, i <= Len(times) - Limit
              PROVE  t - times[i] > Window - MaxDelay
  BY DEF Away
<1>1. /\ Len(times) \in Nat /\ i \in Nat /\ times[i] \in Nat /\ t \in Nat
      /\ visitor.count \in Nat /\ visitor.count <= Limit /\ visitor.expires \in Nat
      /\ Limit \in Nat /\ Window \in Nat /\ MaxDelay \in Nat
  BY LimiterAssumption DEF Visitor
<1>2. i <= Before(visitor, times)
  BY <1>1 DEF Before
<1>3. times[i] - MaxDelay <= visitor.expires - Window
  BY <1>2 DEF Open
<1>. QED  BY <1>1, <1>3

\* The order of admissions is kept.
LEMMA OrderGrows ==
    ASSUME NEW times \in Seq(0 .. MaxTime), NEW t \in 0 .. MaxTime, Ordered(times, t),
           NEW more, more = Append(times, t)
    PROVE  Ordered(more, t)
<1>1. /\ Len(times) \in Nat /\ DOMAIN times = 1 .. Len(times) /\ DOMAIN more = 1 .. Len(times) + 1
      /\ \A i \in 1 .. Len(times) : more[i] = times[i] /\ times[i] \in 0 .. MaxTime
      /\ more[Len(times) + 1] = t
  BY TimesGrow
<1>2. \A j \in DOMAIN more : more[j] <= t
  BY <1>1 DEF Ordered
<1>3. ASSUME NEW i \in DOMAIN more, NEW j \in DOMAIN more, i <= j
      PROVE  more[i] <= more[j]
  <2>1. CASE j = Len(times) + 1
    BY <1>1, <1>2, <2>1
  <2>2. CASE j # Len(times) + 1
    <3>1. i \in 1 .. Len(times) /\ j \in 1 .. Len(times)
      BY <1>1, <1>3, <2>2
    <3>. QED  BY <1>1, <1>3, <3>1 DEF Ordered
  <2>. QED  BY <2>1, <2>2
<1>. QED  BY <1>2, <1>3 DEF Ordered

\* A request opens a window.
LEMMA WindowOpens ==
    ASSUME NEW times \in Seq(0 .. MaxTime), NEW t \in 0 .. MaxTime, NEW now \in 0 .. MaxTime,
           Ordered(times, t), Bounded(times), Away(times, t),
           now <= t, t <= now + MaxDelay,
           NEW more, more = Append(times, t),
           NEW visitor, visitor = [count |-> 1, expires |-> now + Window]
    PROVE  Ordered(more, t) /\ Bounded(more) /\ Open(visitor, more)
<1>1. /\ Len(times) \in Nat /\ Len(more) = Len(times) + 1
      /\ DOMAIN times = 1 .. Len(times) /\ DOMAIN more = 1 .. Len(times) + 1
      /\ \A i \in 1 .. Len(times) : more[i] = times[i] /\ times[i] \in 0 .. MaxTime
      /\ more[Len(times) + 1] = t
  BY TimesGrow
<1>2. /\ Limit \in Nat \ {0} /\ Window \in Nat /\ MaxDelay \in Nat /\ t \in Nat /\ now \in Nat
      /\ visitor.count = 1 /\ visitor.expires = now + Window /\ Before(visitor, more) = Len(times)
  BY <1>1, LimiterAssumption DEF Before
<1>3. Bounded(more)
  <2>. SUFFICES ASSUME NEW i \in DOMAIN more, i + 2 * Limit \in DOMAIN more
                PROVE  more[i + 2 * Limit] - more[i] > Window - MaxDelay
    BY DEF Bounded
  <2>0. i \in Nat \ {0} /\ i + 2 * Limit <= Len(times) + 1
    BY <1>1, <1>2
  <2>1. i \in 1 .. Len(times) /\ i <= Len(times) - Limit
    BY <1>1, <1>2, <2>0
  <2>2. CASE i + 2 * Limit = Len(times) + 1
    BY <1>1, <2>1, <2>2 DEF Away
  <2>3. CASE i + 2 * Limit # Len(times) + 1
    <3>1. i + 2 * Limit \in 1 .. Len(times)
      BY <1>1, <1>2, <2>0, <2>3
    <3>. QED  BY <1>1, <2>1, <3>1 DEF Bounded
  <2>. QED  BY <2>2, <2>3
<1>4. Open(visitor, more)
  <2>1. ASSUME NEW j \in DOMAIN more, j > Len(times)
        PROVE  j = Len(times) + 1
    BY <1>1, <2>1
  <2>2. \A j \in DOMAIN more : j > Len(times) => visitor.expires - Window <= more[j]
    BY <1>1, <1>2, <2>1
  <2>3. ASSUME NEW i \in DOMAIN more, i <= Len(times)
        PROVE  more[i] - MaxDelay <= visitor.expires - Window
    <3>1. i \in 1 .. Len(times)
      BY <1>1, <2>3
    <3>2. more[i] = times[i] /\ times[i] <= t /\ times[i] \in Nat
      BY <1>1, <3>1 DEF Ordered
    <3>. QED  BY <1>2, <3>2
  <2>4. ASSUME NEW i \in DOMAIN more, NEW j \in DOMAIN more, i <= Len(times) - Limit, j > Len(times)
        PROVE  more[j] - more[i] > Window - MaxDelay
    <3>1. i \in 1 .. Len(times) /\ j = Len(times) + 1
      BY <1>1, <1>2, <2>1, <2>4
    <3>. QED  BY <1>1, <2>4, <3>1 DEF Away
  <2>5. visitor.count <= Len(more)
    BY <1>1, <1>2
  <2>. QED  BY <1>2, <2>2, <2>3, <2>4, <2>5 DEF Open
<1>. QED  BY <1>3, <1>4, OrderGrows

\* A request is counted in the open window.
LEMMA WindowCounts ==
    ASSUME NEW times \in Seq(0 .. MaxTime), NEW t \in 0 .. MaxTime,
           NEW visitor \in Visitor, visitor.count \in 1 .. Limit - 1,
           Ordered(times, t), Bounded(times), Open(visitor, times),
           NEW more, more = Append(times, t),
           NEW next, next = [visitor EXCEPT !.count = @ + 1]
    PROVE  Ordered(more, t) /\ Bounded(more) /\ Open(next, more)
<1>. DEFINE before == Before(visitor, times)
<1>1. /\ Len(times) \in Nat /\ Len(more) = Len(times) + 1
      /\ DOMAIN times = 1 .. Len(times) /\ DOMAIN more = 1 .. Len(times) + 1
      /\ \A i \in 1 .. Len(times) : more[i] = times[i] /\ times[i] \in 0 .. MaxTime
      /\ more[Len(times) + 1] = t
  BY TimesGrow
<1>2. /\ Limit \in Nat \ {0} /\ Window \in Nat /\ MaxDelay \in Nat /\ t \in Nat
      /\ visitor.count \in Nat \ {0} /\ visitor.count < Limit /\ visitor.count <= Len(times)
      /\ next.count = visitor.count + 1 /\ next.expires = visitor.expires
      /\ visitor.expires \in Nat
  BY LimiterAssumption DEF Visitor, Open
<1>3. before = Len(times) - visitor.count /\ Before(next, more) = before /\ before \in Nat
  <2>1. before = Len(times) - visitor.count
    BY DEF Before
  <2>2. Before(next, more) = (Len(times) + 1) - (visitor.count + 1)
    BY <1>1, <1>2 DEF Before
  <2>3. Len(times) \in Nat /\ visitor.count \in Nat /\ visitor.count <= Len(times)
    BY <1>1, <1>2
  <2>. HIDE DEF before
  <2>4. \A n, k \in Nat : k <= n => (n + 1) - (k + 1) = n - k /\ n - k \in Nat
    OBVIOUS
  <2>. QED  BY <2>1, <2>2, <2>3, <2>4
<1>4. Len(times) \in 1 .. Len(times) /\ Len(times) > before
  BY <1>1, <1>2, <1>3
<1>5. /\ \A j \in 1 .. Len(times) : j > before => visitor.expires - Window <= times[j]
      /\ \A i \in 1 .. Len(times) : i <= before => times[i] - MaxDelay <= visitor.expires - Window
      /\ \A i, j \in 1 .. Len(times) :
            i <= before - Limit /\ j > before => times[j] - times[i] > Window - MaxDelay
  BY <1>1 DEF Open
<1>. HIDE DEF before
<1>6. times[Len(times)] <= t /\ times[Len(times)] \in Nat
  BY <1>1, <1>4 DEF Ordered
<1>7. ASSUME NEW i \in 1 .. Len(times), i <= before - Limit
      PROVE  t - times[i] > Window - MaxDelay
  <2>1. times[Len(times)] - times[i] > Window - MaxDelay
    BY <1>4, <1>5, <1>7
  <2>2. times[i] \in Nat
    BY <1>1
  <2>. QED  BY <1>2, <1>6, <2>1, <2>2
<1>8. Bounded(more)
  <2>. SUFFICES ASSUME NEW i \in DOMAIN more, i + 2 * Limit \in DOMAIN more
                PROVE  more[i + 2 * Limit] - more[i] > Window - MaxDelay
    BY DEF Bounded
  <2>0. i \in Nat \ {0} /\ i + 2 * Limit <= Len(times) + 1
    BY <1>1, <1>2
  <2>1. i \in 1 .. Len(times)
    BY <1>1, <1>2, <2>0
  <2>2. CASE i + 2 * Limit = Len(times) + 1
    <3>1. i <= before - Limit
      BY <1>1, <1>2, <1>3, <2>0, <2>2
    <3>. QED  BY <1>1, <1>7, <2>1, <2>2, <3>1
  <2>3. CASE i + 2 * Limit # Len(times) + 1
    <3>1. i + 2 * Limit \in 1 .. Len(times)
      BY <1>1, <1>2, <2>0, <2>3
    <3>. QED  BY <1>1, <2>1, <3>1 DEF Bounded
  <2>. QED  BY <2>2, <2>3
<1>9. Open(next, more)
  <2>1. ASSUME NEW j \in DOMAIN more, j > before
        PROVE  visitor.expires - Window <= more[j]
    <3>1. CASE j = Len(times) + 1
      <4>1. visitor.expires - Window <= times[Len(times)]
        BY <1>4, <1>5
      <4>. QED  BY <1>1, <1>2, <1>6, <3>1, <4>1
    <3>2. CASE j # Len(times) + 1
      <4>1. j \in 1 .. Len(times)
        BY <1>1, <3>2
      <4>. QED  BY <1>1, <1>5, <2>1, <4>1
    <3>. QED  BY <3>1, <3>2
  <2>2. ASSUME NEW i \in DOMAIN more, i <= before
        PROVE  more[i] - MaxDelay <= visitor.expires - Window
    <3>1. i \in 1 .. Len(times)
      BY <1>1, <1>2, <1>3, <2>2
    <3>. QED  BY <1>1, <1>5, <2>2, <3>1
  <2>3. ASSUME NEW i \in DOMAIN more, NEW j \in DOMAIN more, i <= before - Limit, j > before
        PROVE  more[j] - more[i] > Window - MaxDelay
    <3>1. i \in 1 .. Len(times) /\ more[i] = times[i]
      BY <1>1, <1>2, <1>3, <2>3
    <3>2. CASE j = Len(times) + 1
      BY <1>1, <1>7, <2>3, <3>1, <3>2
    <3>3. CASE j # Len(times) + 1
      <4>1. j \in 1 .. Len(times) /\ more[j] = times[j]
        BY <1>1, <3>3
      <4>. QED  BY <1>5, <2>3, <3>1, <4>1
    <3>. QED  BY <3>2, <3>3
  <2>4. next.count <= Len(more)
    BY <1>1, <1>2
  <2>. QED  BY <1>2, <1>3, <2>1, <2>2, <2>3, <2>4 DEF Open
<1>. QED  BY <1>8, <1>9, OrderGrows

-----------------------------------------------------------------------------
(* Requests *)

\* A request at the limiter has taken its time not long ago.
Timely ==
    \A s \in Slot : request[s].op = "waiting" =>
        request[s].now <= clock /\ clock <= request[s].now + MaxDelay

\* Division rounds down.
LEMMA Division ==
    ASSUME NEW x \in Int, NEW d \in Nat \ {0}
    PROVE  x \div d \in Int /\ x < d * (x \div d) + d
OBVIOUS

\* Rounded up, and to one at least, the wait of a refusal is enough.
LEMMA RetryIsEnough ==
    ASSUME clock \in Nat, NEW visitor \in Visitor
    PROVE  RetryAfter(visitor) \in Nat /\ visitor.expires <= clock + RetryAfter(visitor)
<1>. DEFINE wait == visitor.expires - clock
            seconds == (wait + Second - 1) \div Second
<1>1. wait \in Int /\ wait + Second - 1 \in Int /\ Second \in Nat \ {0} /\ visitor.expires \in Nat
  BY LimiterAssumption DEF Visitor
<1>2. seconds \in Int /\ wait + Second - 1 < Second * seconds + Second
  BY <1>1, Division
<1>3. RetryAfter(visitor) = Second * (IF seconds < 1 THEN 1 ELSE seconds)
  BY DEF RetryAfter
<1>. HIDE DEF seconds
<1>4. /\ Second * (IF seconds < 1 THEN 1 ELSE seconds) \in Nat
      /\ wait <= Second * (IF seconds < 1 THEN 1 ELSE seconds)
  <2>. HIDE DEF wait
  <2>. QED  BY <1>1, <1>2
<1>. QED  BY <1>1, <1>3, <1>4

\* What a step makes of one client: nothing; its ended window is swept; a
\* request opens a window; or it is counted in the open one.
Rests(c) == visitors'[c] = visitors[c] /\ admitted'[c] = admitted[c]

Drops(c) ==
    /\ visitors[c] \in Visitor /\ visitors[c].expires < clock
    /\ visitors'[c] = NoVisitor /\ admitted'[c] = admitted[c]

Opens(c, now) ==
    /\ visitors[c] # NoVisitor => visitors[c].expires < clock
    /\ now <= clock /\ clock <= now + MaxDelay
    /\ visitors'[c] = [count |-> 1, expires |-> now + Window]
    /\ admitted'[c] = Append(admitted[c], clock)

Counts(c) ==
    /\ visitors[c] \in Visitor /\ visitors[c].count \in 1 .. Limit - 1
    /\ visitors'[c] = [visitors[c] EXCEPT !.count = @ + 1]
    /\ admitted'[c] = Append(admitted[c], clock)

ClientStep(c) == Rests(c) \/ Drops(c) \/ (\E now \in 0 .. MaxTime : Opens(c, now)) \/ Counts(c)

\* What the sweep does to one client.
LEMMA SweptOfOne ==
    ASSUME TypeOK, NEW now \in 0 .. MaxTime, now <= clock, NEW c \in Client
    PROVE  \/ Swept(now)[c] = visitors[c]
           \/ /\ now - lastSweep > Window /\ Swept(now)[c] = NoVisitor
              /\ visitors[c] \in Visitor /\ visitors[c].expires < now
<1>1. now \in Nat /\ clock \in Nat
  BY LimiterAssumption DEF TypeOK
<1>2. ASSUME Swept(now)[c] # visitors[c]
      PROVE  /\ now - lastSweep > Window /\ Swept(now)[c] = NoVisitor
             /\ visitors[c] # NoVisitor /\ Ended(visitors[c], now)
  BY <1>2 DEF Swept
<1>3. ASSUME visitors[c] # NoVisitor, Ended(visitors[c], now)
      PROVE  visitors[c] \in Visitor /\ visitors[c].expires < now
  BY <1>1, <1>3 DEF TypeOK, Ended, Visitor
<1>. QED  BY <1>2, <1>3

\* The window a request counts in, is a new one, or open.
LEMMA CurrentIsOpen ==
    ASSUME TypeOK, NEW now \in 0 .. MaxTime, now <= clock, NEW c \in Client
    PROVE  \/ /\ Current(c, now) = [count |-> 0, expires |-> now + Window]
              /\ visitors[c] # NoVisitor => visitors[c].expires < clock
           \/ /\ Current(c, now) = visitors[c] /\ Swept(now)[c] = visitors[c]
              /\ visitors[c] \in Visitor /\ visitors[c].count \in 1 .. Limit
              /\ now <= visitors[c].expires
<1>1. now \in Nat /\ clock \in Nat
  BY LimiterAssumption DEF TypeOK
<1>2. CASE Swept(now)[c] = NoVisitor
  <2>1. visitors[c] # NoVisitor => visitors[c].expires < clock
    <3>1. ASSUME visitors[c] # NoVisitor
          PROVE  visitors[c] \in Visitor /\ visitors[c].expires < now
      BY <1>2, <3>1, SweptOfOne
    <3>. QED  BY <1>1, <3>1 DEF Visitor
  <2>. QED  BY <1>2, <2>1 DEF Current
<1>3. CASE Swept(now)[c] # NoVisitor
  <2>1. /\ Swept(now)[c] = visitors[c] /\ visitors[c] \in Visitor
        /\ visitors[c].count \in 1 .. Limit /\ visitors[c].expires \in Nat
    BY <1>3, SweptOfOne DEF TypeOK, Visitor
  <2>2. CASE Ended(visitors[c], now)
    BY <1>1, <2>1, <2>2 DEF Current, Ended
  <2>3. CASE ~Ended(visitors[c], now)
    BY <1>1, <1>3, <2>1, <2>3 DEF Current, Ended
  <2>. QED  BY <2>2, <2>3
<1>. QED  BY <1>2, <1>3

\* Allow refuses, for the window that is open and full, or admits; the other
\* clients are swept at most.
LEMMA AllowRefusesOrAdmits ==
    ASSUME TypeOK, Timely, NEW s \in Slot, Allow(s),
           NEW c, c = request[s].client, NEW now, now = request[s].now
    PROVE  /\ c \in Client /\ now \in 0 .. MaxTime /\ now <= clock /\ clock <= now + MaxDelay
           /\ \/ /\ visitors[c] \in Visitor /\ visitors[c].count = Limit
                 /\ now <= visitors[c].expires
                 /\ visitors' = Swept(now) /\ admitted' = admitted
                 /\ request' = [request EXCEPT ![s] =
                       [op |-> "refused", client |-> c,
                        until |-> clock + RetryAfter(visitors[c]), so |-> Len(admitted[c])]]
                 /\ visitors'[c] = visitors[c]
              \/ /\ \A d \in Client : d # c =>
                       visitors'[d] = Swept(now)[d] /\ admitted'[d] = admitted[d]
                 /\ DOMAIN visitors' = Client /\ DOMAIN admitted' = Client
                 /\ Opens(c, now) \/ (Counts(c) /\ now <= visitors[c].expires)
                 /\ request' = [request EXCEPT ![s] = Idle]
<1>1. request[s] \in Waiting
  BY DEF Allow, TypeOK, Idle, Refused
<1>2. c \in Client /\ now \in 0 .. MaxTime /\ now <= clock /\ clock <= now + MaxDelay
  BY <1>1 DEF Waiting, Timely
<1>. DEFINE current == Current(c, now)
<1>3. CASE Full(current)
  <2>1. /\ visitors' = Swept(now) /\ admitted' = admitted
        /\ request' = [request EXCEPT ![s] =
              [op |-> "refused", client |-> c,
               until |-> clock + RetryAfter(current), so |-> Len(admitted[c])]]
    BY <1>3 DEF Allow
  <2>2. current # [count |-> 0, expires |-> now + Window]
    BY <1>3, LimiterAssumption DEF Full
  <2>3. /\ current = visitors[c] /\ Swept(now)[c] = visitors[c]
        /\ visitors[c] \in Visitor /\ visitors[c].count \in 1 .. Limit
        /\ now <= visitors[c].expires
    BY <1>2, <2>2, CurrentIsOpen
  <2>4. visitors[c].count = Limit
    BY <1>3, <2>3, LimiterAssumption DEF Full
  <2>. QED  BY <1>2, <2>1, <2>3, <2>4
<1>4. CASE ~Full(current)
  <2>1. /\ visitors' = [Swept(now) EXCEPT ![c] = [current EXCEPT !.count = @ + 1]]
        /\ admitted' = [admitted EXCEPT ![c] = Append(@, clock)]
        /\ request' = [request EXCEPT ![s] = Idle]
    BY <1>4 DEF Allow
  <2>2. DOMAIN Swept(now) = Client /\ DOMAIN admitted = Client
    BY DEF Swept, TypeOK
  <2>3. /\ \A d \in Client : d # c =>
              visitors'[d] = Swept(now)[d] /\ admitted'[d] = admitted[d]
        /\ DOMAIN visitors' = Client /\ DOMAIN admitted' = Client
        /\ visitors'[c] = [current EXCEPT !.count = @ + 1]
        /\ admitted'[c] = Append(admitted[c], clock)
    BY <1>2, <2>1, <2>2
  <2>4. CASE /\ current = [count |-> 0, expires |-> now + Window]
             /\ visitors[c] # NoVisitor => visitors[c].expires < clock
    <3>1. visitors'[c] = [count |-> 1, expires |-> now + Window]
      BY <2>3, <2>4
    <3>. QED  BY <1>2, <2>1, <2>3, <2>4, <3>1 DEF Opens
  <2>5. CASE /\ current = visitors[c] /\ visitors[c] \in Visitor /\ visitors[c].count \in 1 .. Limit
             /\ now <= visitors[c].expires
    <3>1. visitors[c].count \in 1 .. Limit - 1
      BY <1>4, <2>5, LimiterAssumption DEF Full
    <3>. QED  BY <1>2, <2>1, <2>3, <2>5, <3>1 DEF Counts
  <2>. QED  BY <1>2, <2>4, <2>5, CurrentIsOpen
<1>. QED  BY <1>3, <1>4

\* That is all a step does to one client.
LEMMA StepOfOneClient ==
    ASSUME TypeOK, Timely, [Next]_limiterVars, NEW c \in Client
    PROVE  /\ ClientStep(c)
           /\ clock' \in 0 .. MaxTime /\ clock <= clock'
           /\ clock' # clock => Rests(c)
<1>0. clock \in Nat /\ MaxTime \in Nat /\ clock <= MaxTime
  BY LimiterAssumption DEF TypeOK
<1>1. CASE Tick
  BY <1>0, <1>1 DEF Tick, ClientStep, Rests
<1>2. CASE UNCHANGED <<clock, visitors, admitted>>
  BY <1>0, <1>2 DEF ClientStep, Rests
<1>3. ASSUME NEW s \in Slot, Allow(s)
      PROVE  ClientStep(c) /\ clock' = clock
  <2>1. PICK now : now = request[s].now
    OBVIOUS
  <2>2. PICK d : d = request[s].client
    OBVIOUS
  <2>3. now \in 0 .. MaxTime /\ now <= clock
    BY <1>3, <2>1, <2>2, AllowRefusesOrAdmits
  <2>4. ASSUME visitors'[c] = Swept(now)[c], admitted'[c] = admitted[c]
        PROVE  Rests(c) \/ Drops(c)
    <3>1. CASE visitors'[c] = visitors[c]
      BY <2>4, <3>1 DEF Rests
    <3>2. CASE Swept(now)[c] = NoVisitor /\ visitors[c] \in Visitor /\ visitors[c].expires < now
      <4>1. visitors[c].expires < clock
        BY <1>0, <2>3, <3>2, LimiterAssumption DEF Visitor
      <4>. QED  BY <2>4, <3>2, <4>1 DEF Drops
    <3>. QED  BY <2>3, <2>4, <3>1, <3>2, SweptOfOne
  <2>5. clock' = clock
    BY <1>3 DEF Allow
  <2>. QED  BY <1>3, <2>1, <2>2, <2>3, <2>4, <2>5, AllowRefusesOrAdmits DEF ClientStep
<1>. QED  BY <1>0, <1>1, <1>2, <1>3 DEF Next, Arrive, Leave, limiterVars

-----------------------------------------------------------------------------
(* Every step keeps what is true of the clients *)

Clients == \A c \in Client : ClientSound(visitors[c], admitted[c], clock)

\* Time passes by a client.
LEMMA TimePasses ==
    ASSUME NEW times \in Seq(0 .. MaxTime), NEW t \in Nat, NEW later \in Nat, t <= later,
           NEW visitor, ClientSound(visitor, times, t)
    PROVE  ClientSound(visitor, times, later)
<1>1. \A j \in DOMAIN times : times[j] \in Nat
  <2>1. \A j \in DOMAIN times : times[j] \in 0 .. MaxTime
    BY ElementsOf
  <2>. QED  BY <2>1, LimiterAssumption
<1>2. Window \in Nat /\ MaxDelay \in Nat
  BY LimiterAssumption
<1>3. Ordered(times, later)
  BY <1>1 DEF ClientSound, Ordered
<1>4. Away(times, t) => Away(times, later)
  BY <1>1, <1>2 DEF Away
<1>. QED  BY <1>3, <1>4 DEF ClientSound

\* What is true of a client stays true.
LEMMA StepClients == TypeOK /\ Timely /\ Clients /\ [Next]_limiterVars => Clients'
<1>. SUFFICES ASSUME TypeOK, Timely, Clients, [Next]_limiterVars, NEW c \in Client
              PROVE  ClientSound(visitors'[c], admitted'[c], clock')
  BY DEF Clients
<1>. DEFINE times == admitted[c]
            visitor == visitors[c]
<1>1. /\ times \in Seq(0 .. MaxTime) /\ clock \in 0 .. MaxTime /\ clock \in Nat
      /\ visitor # NoVisitor => visitor \in Visitor /\ visitor.count \in 1 .. Limit
      /\ ClientSound(visitor, times, clock)
  BY LimiterAssumption DEF TypeOK, Clients
<1>2. /\ ClientStep(c) /\ clock' \in Nat /\ clock <= clock'
      /\ clock' # clock => Rests(c)
  BY StepOfOneClient, LimiterAssumption
<1>. HIDE DEF times, visitor
<1>3. CASE Rests(c)
  BY <1>1, <1>2, <1>3, TimePasses DEF Rests, times, visitor
<1>4. CASE Drops(c)
  <2>1. /\ visitor \in Visitor /\ visitor # NoVisitor /\ visitor.expires < clock
        /\ visitors'[c] = NoVisitor /\ admitted'[c] = times
    BY <1>4, LimiterAssumption DEF Drops, times, visitor
  <2>2. Away(times, clock)
    BY <1>1, <2>1, EndedIsAway DEF ClientSound
  <2>3. ClientSound(NoVisitor, times, clock)
    BY <1>1, <2>2 DEF ClientSound
  <2>. QED  BY <1>1, <1>2, <2>1, <2>3, TimePasses
<1>5. ASSUME NEW now \in 0 .. MaxTime, Opens(c, now)
      PROVE  ClientSound(visitors'[c], admitted'[c], clock')
  <2>1. /\ visitor # NoVisitor => visitor.expires < clock
        /\ now <= clock /\ clock <= now + MaxDelay
        /\ visitors'[c] = [count |-> 1, expires |-> now + Window]
        /\ admitted'[c] = Append(times, clock)
    BY <1>5 DEF Opens, times, visitor
  <2>2. Away(times, clock)
    BY <1>1, <2>1, EndedIsAway DEF ClientSound
  <2>3. Ordered(times, clock) /\ Bounded(times)
    BY <1>1 DEF ClientSound
  <2>4. \A next, more :
           /\ next = [count |-> 1, expires |-> now + Window]
           /\ more = Append(times, clock)
           => Ordered(more, clock) /\ Bounded(more) /\ Open(next, more)
    BY <1>1, <2>1, <2>2, <2>3, WindowOpens
  <2>5. visitors'[c] # NoVisitor
    <3>1. visitors'[c] \in Visitor
      BY <2>1, LimiterAssumption DEF Visitor
    <3>. QED  BY <3>1, LimiterAssumption
  <2>6. ClientSound(visitors'[c], admitted'[c], clock)
    BY <2>1, <2>4, <2>5 DEF ClientSound
  <2>7. admitted'[c] \in Seq(0 .. MaxTime)
    BY <1>1, <2>1
  <2>. QED  BY <1>1, <1>2, <2>6, <2>7, TimePasses
<1>6. CASE Counts(c)
  <2>1. /\ visitor \in Visitor /\ visitor.count \in 1 .. Limit - 1
        /\ visitors'[c] = [visitor EXCEPT !.count = @ + 1]
        /\ admitted'[c] = Append(times, clock)
    BY <1>6 DEF Counts, times, visitor
  <2>2. Ordered(times, clock) /\ Bounded(times) /\ Open(visitor, times)
    BY <1>1, <2>1, LimiterAssumption DEF ClientSound
  <2>3. \A next, more :
           /\ next = [visitor EXCEPT !.count = @ + 1]
           /\ more = Append(times, clock)
           => Ordered(more, clock) /\ Bounded(more) /\ Open(next, more)
    BY <1>1, <2>1, <2>2, WindowCounts
  <2>4. visitors'[c] # NoVisitor
    <3>1. visitors'[c] \in Visitor
      BY <2>1, LimiterAssumption DEF Visitor
    <3>. QED  BY <3>1, LimiterAssumption
  <2>5. ClientSound(visitors'[c], admitted'[c], clock)
    BY <2>1, <2>3, <2>4 DEF ClientSound
  <2>6. admitted'[c] \in Seq(0 .. MaxTime)
    BY <1>1, <2>1
  <2>. QED  BY <1>1, <1>2, <2>5, <2>6, TimePasses
<1>. QED  BY <1>2, <1>3, <1>4, <1>5, <1>6 DEF ClientStep

\* Nobody is told to wait after being admitted more often than it was.
Refusals ==
    \A s \in Slot : request[s].op = "refused" => request[s].so <= Len(admitted[request[s].client])

\* The map holds no window that had ended when it was last swept.
Windows == \A c \in Client : visitors[c] # NoVisitor => lastSweep <= visitors[c].expires

\* The map and the admissions stay well-formed.
LEMMA StepTables ==
    ASSUME TypeOK, Timely, [Next]_limiterVars
    PROVE  /\ visitors' \in [Client -> Visitor \cup {NoVisitor}]
           /\ \A c \in Client : visitors'[c] # NoVisitor => visitors'[c].count \in 1 .. Limit
           /\ admitted' \in [Client -> Seq(0 .. MaxTime)]
<1>1. /\ DOMAIN visitors' = Client /\ visitors' = [c \in Client |-> visitors'[c]]
      /\ DOMAIN admitted' = Client /\ admitted' = [c \in Client |-> admitted'[c]]
  BY DEF Next, Tick, Arrive, Allow, Leave, limiterVars, TypeOK, Swept
<1>2. ASSUME NEW c \in Client
      PROVE  /\ visitors'[c] \in Visitor \cup {NoVisitor}
             /\ visitors'[c] # NoVisitor => visitors'[c].count \in 1 .. Limit
             /\ admitted'[c] \in Seq(0 .. MaxTime)
  <2>1. /\ visitors[c] \in Visitor \cup {NoVisitor}
        /\ visitors[c] # NoVisitor => visitors[c].count \in 1 .. Limit
        /\ admitted[c] \in Seq(0 .. MaxTime) /\ clock \in 0 .. MaxTime
    BY DEF TypeOK
  <2>2. CASE Rests(c)
    BY <2>1, <2>2 DEF Rests
  <2>3. CASE Drops(c)
    BY <2>1, <2>3 DEF Drops
  <2>4. ASSUME NEW now \in 0 .. MaxTime, Opens(c, now)
        PROVE  /\ visitors'[c] \in Visitor /\ visitors'[c].count \in 1 .. Limit
               /\ admitted'[c] \in Seq(0 .. MaxTime)
    BY <2>1, <2>4, LimiterAssumption DEF Opens, Visitor
  <2>5. CASE Counts(c)
    <3>1. /\ visitors'[c] = [visitors[c] EXCEPT !.count = @ + 1]
          /\ visitors[c] \in Visitor /\ visitors[c].count \in 1 .. Limit - 1
          /\ admitted'[c] = Append(admitted[c], clock)
      BY <2>5 DEF Counts
    <3>2. visitors'[c] \in Visitor /\ visitors'[c].count \in 1 .. Limit
      BY <3>1, LimiterAssumption DEF Visitor
    <3>. QED  BY <2>1, <3>1, <3>2
  <2>. QED  BY <2>2, <2>3, <2>4, <2>5, StepOfOneClient DEF ClientStep
<1>. QED  BY <1>1, <1>2

-----------------------------------------------------------------------------
(* Every step keeps what is true of the requests *)

\* A request that arrives.
Arrives(s) ==
    /\ \E c \in Client : request'[s] = [op |-> "waiting", client |-> c, now |-> clock]
    /\ UNCHANGED <<clock, visitors, lastSweep, admitted>>

\* A request that is refused, for the window of its client is full.
IsRefused(s, c, now) ==
    /\ request[s].op = "waiting" /\ request[s].client = c /\ request[s].now = now
    /\ now <= clock /\ clock <= now + MaxDelay
    /\ visitors[c] \in Visitor /\ visitors[c].count = Limit /\ now <= visitors[c].expires
    /\ request'[s] = [op |-> "refused", client |-> c,
                      until |-> clock + RetryAfter(visitors[c]), so |-> Len(admitted[c])]
    /\ visitors'[c] = visitors[c]
    /\ UNCHANGED <<clock, admitted>>

\* What a step makes of one request.
LEMMA StepOfOneRequest ==
    ASSUME TypeOK, Timely, [Next]_limiterVars, NEW s \in Slot
    PROVE  \/ request'[s] = request[s] /\ (clock' # clock => Tick)
           \/ request'[s] = Idle
           \/ Arrives(s)
           \/ \E c \in Client, now \in 0 .. MaxTime : IsRefused(s, c, now)
<1>1. DOMAIN request = Slot
  BY DEF TypeOK
<1>2. CASE Tick
  BY <1>2 DEF Tick
<1>3. ASSUME NEW t \in Slot, Arrive(t)
      PROVE  (request'[s] = request[s] /\ clock' = clock) \/ Arrives(s)
  BY <1>1, <1>3 DEF Arrive, Arrives
<1>4. ASSUME NEW t \in Slot, Leave(t)
      PROVE  (request'[s] = request[s] /\ clock' = clock) \/ request'[s] = Idle
  BY <1>1, <1>4 DEF Leave
<1>5. ASSUME NEW t \in Slot, Allow(t)
      PROVE  \/ request'[s] = request[s] /\ clock' = clock
             \/ request'[s] = Idle
             \/ \E c \in Client, now \in 0 .. MaxTime : IsRefused(s, c, now)
  <2>1. PICK now : now = request[t].now
    OBVIOUS
  <2>2. PICK c : c = request[t].client
    OBVIOUS
  <2>3. c \in Client /\ now \in 0 .. MaxTime
    BY <1>5, <2>1, <2>2, AllowRefusesOrAdmits
  <2>4. clock' = clock /\ request[t].op = "waiting"
    BY <1>5 DEF Allow
  <2>5. CASE t # s
    BY <1>1, <1>5, <2>1, <2>2, <2>4, <2>5, AllowRefusesOrAdmits
  <2>6. CASE t = s
    <3>1. CASE request' = [request EXCEPT ![t] = Idle]
      BY <1>1, <2>6, <3>1
    <3>2. CASE request' # [request EXCEPT ![t] = Idle]
      <4>1. IsRefused(t, c, now)
        BY <1>1, <1>5, <2>1, <2>2, <2>4, <3>2, AllowRefusesOrAdmits DEF IsRefused
      <4>. QED  BY <2>3, <2>6, <4>1
    <3>. QED  BY <3>1, <3>2
  <2>. QED  BY <2>5, <2>6
<1>6. CASE UNCHANGED limiterVars
  BY <1>6 DEF limiterVars
<1>. QED  BY <1>2, <1>3, <1>4, <1>5, <1>6 DEF Next

\* A refusal is well-formed, and its wait is enough.
LEMMA RefusedIsRefused ==
    ASSUME TypeOK, NEW s \in Slot, NEW c \in Client, NEW now \in 0 .. MaxTime,
           IsRefused(s, c, now)
    PROVE  /\ request'[s] \in Refused
           /\ request'[s].client = c /\ request'[s].so = Len(admitted[c])
           /\ visitors[c].expires <= request'[s].until
<1>1. clock \in Nat /\ Len(admitted[c]) \in Nat
  BY LimiterAssumption DEF TypeOK
<1>2. RetryAfter(visitors[c]) \in Nat /\ visitors[c].expires <= clock + RetryAfter(visitors[c])
  BY <1>1, RetryIsEnough DEF IsRefused
<1>. QED  BY <1>1, <1>2 DEF IsRefused, Refused

\* The requests stay well-formed and timely.
LEMMA StepRequests ==
    ASSUME TypeOK, Timely, [Next]_limiterVars
    PROVE  /\ request' \in [Slot -> {Idle} \cup Waiting \cup Refused]
           /\ Timely'
<1>0. clock \in 0 .. MaxTime /\ clock \in Nat
  BY LimiterAssumption DEF TypeOK
<1>1. DOMAIN request' = Slot /\ request' = [s \in Slot |-> request'[s]]
  <2>1. DOMAIN request = Slot /\ request = [s \in Slot |-> request[s]]
    BY DEF TypeOK
  <2>. QED  BY <2>1 DEF Next, Tick, Arrive, Allow, Leave, limiterVars
<1>2. ASSUME NEW s \in Slot
      PROVE  /\ request'[s] \in {Idle} \cup Waiting \cup Refused
             /\ request'[s].op = "waiting" =>
                   request'[s].now <= clock' /\ clock' <= request'[s].now + MaxDelay
  <2>1. CASE request'[s] = request[s] /\ (clock' # clock => Tick)
    <3>1. request[s] \in {Idle} \cup Waiting \cup Refused
      BY DEF TypeOK
    <3>2. ASSUME request[s].op = "waiting"
          PROVE  request[s].now <= clock' /\ clock' <= request[s].now + MaxDelay
      <4>1. request[s].now \in Nat /\ MaxDelay \in Nat
        BY <3>1, <3>2, LimiterAssumption DEF Idle, Waiting, Refused
      <4>2. request[s].now <= clock /\ clock <= request[s].now + MaxDelay
        BY <3>2 DEF Timely
      <4>3. CASE clock' = clock
        BY <4>2, <4>3
      <4>4. CASE Tick
        <5>1. clock' = clock + 1 /\ clock < request[s].now + MaxDelay
          BY <3>2, <4>4 DEF Tick
        <5>. QED  BY <1>0, <4>1, <4>2, <5>1
      <4>. QED  BY <2>1, <4>3, <4>4
    <3>. QED  BY <2>1, <3>1, <3>2
  <2>2. CASE request'[s] = Idle
    BY <2>2 DEF Idle
  <2>3. CASE Arrives(s)
    BY <1>0, <2>3, LimiterAssumption DEF Arrives, Waiting
  <2>4. ASSUME NEW c \in Client, NEW now \in 0 .. MaxTime, IsRefused(s, c, now)
        PROVE  request'[s] \in Refused /\ request'[s].op # "waiting"
    BY <2>4, RefusedIsRefused DEF Refused
  <2>. QED  BY <2>1, <2>2, <2>3, <2>4, StepOfOneRequest
<1>. QED  BY <1>1, <1>2 DEF Timely

\* An admission makes more of them.
LEMMA StepOfOneCount ==
    ASSUME TypeOK, Timely, [Next]_limiterVars, NEW c \in Client
    PROVE  /\ Len(admitted[c]) \in Nat /\ Len(admitted'[c]) \in Nat
           /\ \/ Len(admitted'[c]) = Len(admitted[c]) + 1
              \/ /\ admitted'[c] = admitted[c]
                 /\ visitors'[c] = visitors[c] \/ visitors'[c] = NoVisitor
<1>1. admitted[c] \in Seq(0 .. MaxTime) /\ clock \in 0 .. MaxTime
  BY DEF TypeOK
<1>2. CASE admitted'[c] = Append(admitted[c], clock)
  BY <1>1, <1>2
<1>3. CASE Rests(c) \/ Drops(c)
  BY <1>1, <1>3 DEF Rests, Drops
<1>. QED  BY <1>2, <1>3, StepOfOneClient DEF ClientStep, Opens, Counts

\* What a refusal has been told stays true.
LEMMA StepRefusals ==
    TypeOK /\ Timely /\ Refusals /\ RetryHonoured /\ [Next]_limiterVars
        => Refusals' /\ RetryHonoured'
<1>. SUFFICES ASSUME TypeOK, Timely, Refusals, RetryHonoured, [Next]_limiterVars,
                     NEW s \in Slot, request'[s].op = "refused"
              PROVE  /\ request'[s].so <= Len(admitted'[request'[s].client])
                     /\ \/ Len(admitted'[request'[s].client]) > request'[s].so
                        \/ visitors'[request'[s].client] = NoVisitor
                        \/ visitors'[request'[s].client].expires <= request'[s].until
  BY DEF Refusals, RetryHonoured
<1>1. CASE request'[s] = request[s]
  <2>1. PICK r : r = request[s]
    OBVIOUS
  <2>2. r.op = "refused" /\ r \in Refused /\ r.client \in Client /\ r.so \in Nat
    BY <1>1, <2>1 DEF TypeOK, Idle, Waiting, Refused
  <2>3. /\ r.so <= Len(admitted[r.client])
        /\ \/ Len(admitted[r.client]) > r.so
           \/ visitors[r.client] = NoVisitor
           \/ visitors[r.client].expires <= r.until
    BY <2>1, <2>2 DEF Refusals, RetryHonoured
  <2>4. CASE Len(admitted'[r.client]) = Len(admitted[r.client]) + 1
    <3>1. Len(admitted[r.client]) \in Nat
      BY <2>2, StepOfOneCount
    <3>2. r.so < Len(admitted'[r.client])
      BY <2>2, <2>3, <2>4, <3>1
    <3>. QED  BY <1>1, <2>1, <2>2, <2>4, <3>1, <3>2
  <2>5. CASE /\ admitted'[r.client] = admitted[r.client]
             /\ visitors'[r.client] = visitors[r.client] \/ visitors'[r.client] = NoVisitor
    BY <1>1, <2>1, <2>3, <2>5
  <2>. QED  BY <2>2, <2>4, <2>5, StepOfOneCount
<1>2. ASSUME NEW c \in Client, NEW now \in 0 .. MaxTime, IsRefused(s, c, now)
      PROVE  /\ request'[s].so <= Len(admitted'[request'[s].client])
             /\ visitors'[request'[s].client].expires <= request'[s].until
  <2>1. /\ request'[s].client = c /\ request'[s].so = Len(admitted[c])
        /\ visitors[c].expires <= request'[s].until
    BY <1>2, RefusedIsRefused
  <2>2. admitted' = admitted /\ visitors'[c] = visitors[c] /\ Len(admitted[c]) \in Nat
    BY <1>2 DEF IsRefused, TypeOK
  <2>. QED  BY <2>1, <2>2
<1>3. request'[s] # Idle /\ ~Arrives(s)
  <2>1. request'[s] # Idle
    BY DEF Idle
  <2>2. ASSUME NEW c \in Client
        PROVE  request'[s] # [op |-> "waiting", client |-> c, now |-> clock]
    OBVIOUS
  <2>. QED  BY <2>1, <2>2 DEF Arrives
<1>4. \/ request'[s] = request[s]
      \/ \E c \in Client, now \in 0 .. MaxTime : IsRefused(s, c, now)
  BY <1>3, StepOfOneRequest
<1>5. CASE \E c \in Client, now \in 0 .. MaxTime : IsRefused(s, c, now)
  BY <1>2, <1>5
<1>. QED  BY <1>1, <1>4, <1>5

-----------------------------------------------------------------------------
(* The sweep *)

\* What a sweep leaves in the map has not ended.
LEMMA SweptHasNotEnded ==
    ASSUME TypeOK, Windows, NEW now \in 0 .. MaxTime, now <= clock,
           NEW c \in Client, Swept(now)[c] # NoVisitor
    PROVE  (IF now - lastSweep > Window THEN now ELSE lastSweep) <= Swept(now)[c].expires
<1>1. /\ Swept(now)[c] = visitors[c] /\ visitors[c] \in Visitor /\ visitors[c].expires \in Nat
      /\ lastSweep <= visitors[c].expires
  BY SweptOfOne DEF TypeOK, Visitor, Windows
<1>2. now - lastSweep > Window => ~Ended(visitors[c], now)
  BY <1>1 DEF Swept
<1>3. now \in Nat
  BY LimiterAssumption
<1>. QED  BY <1>1, <1>2, <1>3 DEF Ended

\* Serving a request sweeps the map, if it is time to.
LEMMA AllowSweeps ==
    ASSUME TypeOK, Timely, Windows, NEW s \in Slot, Allow(s)
    PROVE  /\ lastSweep' \in 0 .. clock
           /\ lastSweep' >= request[s].now - Window
           /\ \A c \in Client : visitors'[c] # NoVisitor => lastSweep' <= visitors'[c].expires
<1>1. PICK now : now = request[s].now
  OBVIOUS
<1>2. PICK c : c = request[s].client
  OBVIOUS
<1>3. /\ c \in Client /\ now \in 0 .. MaxTime /\ now <= clock /\ clock <= now + MaxDelay
      /\ \/ visitors' = Swept(now)
         \/ /\ \A d \in Client : d # c => visitors'[d] = Swept(now)[d]
            /\ Opens(c, now) \/ (Counts(c) /\ now <= visitors[c].expires)
  BY <1>1, <1>2, AllowRefusesOrAdmits
<1>4. /\ now \in Nat /\ clock \in Nat /\ lastSweep \in 0 .. clock
      /\ MaxDelay \in Nat /\ Window \in Nat /\ MaxDelay <= Window
  BY <1>3, LimiterAssumption DEF TypeOK
<1>5. lastSweep' = IF now - lastSweep > Window THEN now ELSE lastSweep
  BY <1>1 DEF Allow
<1>6. ASSUME NEW d \in Client, visitors'[d] # NoVisitor
      PROVE  lastSweep' <= visitors'[d].expires
  <2>1. CASE visitors'[d] = Swept(now)[d]
    BY <1>3, <1>5, <1>6, <2>1, SweptHasNotEnded
  <2>2. CASE d = c /\ Opens(c, now)
    BY <1>3, <1>4, <1>5, <2>2 DEF Opens
  <2>3. CASE d = c /\ Counts(c) /\ now <= visitors[c].expires
    <3>1. visitors'[c].expires = visitors[c].expires /\ visitors[c] # NoVisitor
      BY <2>3, LimiterAssumption DEF Counts, Visitor
    <3>2. lastSweep <= visitors[c].expires
      BY <1>3, <3>1 DEF Windows
    <3>. QED  BY <1>5, <2>3, <3>1, <3>2
  <2>. QED  BY <1>3, <2>1, <2>2, <2>3
<1>7. lastSweep' \in 0 .. clock /\ lastSweep' >= now - Window
  BY <1>3, <1>4, <1>5
<1>. QED  BY <1>1, <1>6, <1>7

\* The windows in the map reach beyond the last sweep, and the types are kept.
LEMMA StepWindows ==
    TypeOK /\ Timely /\ Windows /\ [Next]_limiterVars => TypeOK' /\ Windows'
<1>. SUFFICES ASSUME TypeOK, Timely, Windows, [Next]_limiterVars
              PROVE  TypeOK' /\ Windows'
  OBVIOUS
<1>0. clock \in 0 .. MaxTime /\ clock \in Nat /\ MaxTime \in Nat /\ lastSweep \in 0 .. clock
  BY LimiterAssumption DEF TypeOK
<1>1. CASE \E s \in Slot : Allow(s)
  <2>1. clock' = clock
    BY <1>1 DEF Allow
  <2>2. lastSweep' \in 0 .. clock /\ Windows'
    BY <1>1, AllowSweeps DEF Windows
  <2>. QED  BY <1>0, <2>1, <2>2, StepTables, StepRequests DEF TypeOK
<1>2. CASE UNCHANGED <<visitors, lastSweep>> /\ clock' \in clock .. MaxTime
  <2>1. lastSweep' \in 0 .. clock' /\ clock' \in 0 .. MaxTime
    BY <1>0, <1>2
  <2>2. Windows'
    BY <1>2 DEF Windows
  <2>. QED  BY <2>1, <2>2, StepTables, StepRequests DEF TypeOK
<1>3. Tick => clock' \in clock .. MaxTime
  BY <1>0 DEF Tick
<1>4. clock \in clock .. MaxTime
  BY <1>0
<1>. QED  BY <1>1, <1>2, <1>3, <1>4 DEF Next, Tick, Arrive, Leave, limiterVars

\* A request that no longer waits has been served.
LEMMA ServedByAllow ==
    ASSUME TypeOK, [Next]_limiterVars, NEW s \in Slot,
           request[s].op = "waiting", request'[s].op # "waiting"
    PROVE  Allow(s)
<1>1. DOMAIN request = Slot
  BY DEF TypeOK
<1>2. ASSUME NEW t \in Slot, Arrive(t) \/ Allow(t) \/ Leave(t)
      PROVE  Allow(s)
  <2>1. CASE t = s
    BY <1>2, <2>1 DEF Arrive, Leave, Idle
  <2>2. CASE t # s
    BY <1>1, <1>2, <2>2 DEF Arrive, Allow, Leave
  <2>. QED  BY <2>1, <2>2
<1>. QED  BY <1>2 DEF Next, Tick, limiterVars

-----------------------------------------------------------------------------
(* The theorems *)

\* The inductive invariant of the limiter.
LimiterInvariant == TypeOK /\ Timely /\ Clients /\ Windows /\ Refusals /\ RetryHonoured

\* The empty limiter has admitted nobody.
LEMMA LimiterInitially == Init => LimiterInvariant
<1>. SUFFICES ASSUME Init
              PROVE  LimiterInvariant
  OBVIOUS
<1>1. TypeOK
  BY LimiterAssumption DEF Init, TypeOK
<1>2. Timely /\ Windows /\ Refusals /\ RetryHonoured
  BY DEF Init, Timely, Windows, Refusals, RetryHonoured, Idle
<1>3. Clients
  <2>. SUFFICES ASSUME NEW c \in Client
                PROVE  ClientSound(visitors[c], admitted[c], clock)
    BY DEF Clients
  <2>1. visitors[c] = NoVisitor /\ DOMAIN admitted[c] = {}
    BY DEF Init
  <2>. QED  BY <2>1 DEF ClientSound, Ordered, Bounded, Away
<1>. QED  BY <1>1, <1>2, <1>3 DEF LimiterInvariant

\* The invariant holds at all times.
LEMMA LimiterAlways == Spec => []LimiterInvariant
<1>1. LimiterInvariant /\ [Next]_limiterVars => LimiterInvariant'
  BY StepWindows, StepRequests, StepClients, StepRefusals DEF LimiterInvariant
<1>. QED  BY <1>1, LimiterInitially, PTL DEF Spec

\* The map, the clock and the requests are well-formed, and no window admits
\* more than the limit (RateLimiter.Allow).
THEOREM TypeCorrect == Spec => []TypeOK
<1>1. LimiterInvariant => TypeOK
  BY DEF LimiterInvariant
<1>. QED  BY <1>1, LimiterAlways, PTL

\* No client is admitted more than twice the limit in a stretch of time of a
\* window's length, but for the delay between a request's time and the lock
\* (RateLimitMiddleware, Allow).
THEOREM AdmissionsAreBounded == Spec => []AdmissionBound
<1>1. LimiterInvariant => AdmissionBound
  BY DEF LimiterInvariant, Clients, ClientSound, Bounded, AdmissionBound
<1>. QED  BY <1>1, LimiterAlways, PTL

\* The Retry-After of a refusal reaches to the end of the window that refused
\* (the rounding in RateLimitMiddleware).
THEOREM RetryIsHonoured == Spec => []RetryHonoured
<1>1. LimiterInvariant => RetryHonoured
  BY DEF LimiterInvariant
<1>. QED  BY <1>1, LimiterAlways, PTL

\* Whoever is refused was admitted as often as the limit allows, within the
\* last window, give or take the delay (Allow).
THEOREM RefusalsAreJustified == Spec => RefusalJustified
<1>1. ASSUME LimiterInvariant, [Next]_limiterVars, NEW s \in Slot,
             request[s].op = "waiting", request'[s].op = "refused"
      PROVE  LET times == admitted[request[s].client] IN
             /\ Len(times) >= Limit
             /\ clock - times[Len(times) - Limit + 1] <= Window + MaxDelay
  <2>. USE DEF LimiterInvariant
  <2>1. request'[s] # request[s] /\ request'[s] # Idle
    BY <1>1 DEF Idle
  <2>2. ~Arrives(s)
    <3>1. ASSUME NEW c \in Client
          PROVE  request'[s] # [op |-> "waiting", client |-> c, now |-> clock]
      BY <1>1
    <3>. QED  BY <3>1 DEF Arrives
  <2>3. PICK c \in Client, now \in 0 .. MaxTime : IsRefused(s, c, now)
    BY <1>1, <2>1, <2>2, StepOfOneRequest
  <2>. DEFINE times == admitted[c]
              visitor == visitors[c]
              n == Len(times) - Limit + 1
  <2>4. /\ times \in Seq(0 .. MaxTime) /\ clock \in Nat /\ now \in Nat
        /\ now <= clock /\ clock <= now + MaxDelay
        /\ visitor \in Visitor /\ visitor # NoVisitor /\ visitor.count = Limit
        /\ visitor.expires \in Nat /\ now <= visitor.expires
        /\ Limit \in Nat \ {0} /\ Window \in Nat /\ MaxDelay \in Nat /\ MaxTime \in Nat
    BY <1>1, <2>3, LimiterAssumption DEF IsRefused, TypeOK, Visitor
  <2>5. Open(visitor, times)
    BY <1>1, <2>4 DEF Clients, ClientSound
  <2>6. /\ Len(times) \in Nat /\ DOMAIN times = 1 .. Len(times)
        /\ \A i \in 1 .. Len(times) : times[i] \in 0 .. MaxTime
    BY <2>4, ElementsOf
  <2>7. /\ Limit <= Len(times)
        /\ \A j \in DOMAIN times : j > Len(times) - Limit => visitor.expires - Window <= times[j]
    BY <2>4, <2>5 DEF Open, Before
  <2>. HIDE DEF times, visitor
  <2>8. n \in 1 .. Len(times) /\ n > Len(times) - Limit
    BY <2>4, <2>6, <2>7
  <2>. HIDE DEF n
  <2>9. visitor.expires - Window <= times[n] /\ times[n] \in Nat
    <3>1. times[n] \in 0 .. MaxTime /\ n \in DOMAIN times
      BY <2>6, <2>8
    <3>. QED  BY <2>4, <2>7, <2>8, <3>1
  <2>10. clock - times[n] <= Window + MaxDelay
    BY <2>4, <2>9
  <2>11. request[s].client = c
    BY <2>3 DEF IsRefused
  <2>. QED  BY <2>7, <2>4, <2>6, <2>10, <2>11 DEF n, times
<1>2. LimiterInvariant /\ [Next]_limiterVars => [RefusalJustifiedStep]_limiterVars
  BY <1>1 DEF RefusalJustifiedStep
<1>. QED  BY <1>2, LimiterAlways, PTL DEF Spec, RefusalJustified

\* A served request leaves no window in the map that had ended when the map
\* was last swept, which is not long ago (the sweep in Allow).
THEOREM StaleVisitorsAreSwept == Spec => StaleVisitorsSwept
<1>1. ASSUME LimiterInvariant, [Next]_limiterVars, NEW s \in Slot,
             request[s].op = "waiting", request'[s].op # "waiting"
      PROVE  /\ lastSweep' >= request[s].now - Window
             /\ \A c \in Client : visitors'[c] # NoVisitor =>
                   visitors'[c].expires >= lastSweep'
  <2>1. Allow(s)
    BY <1>1, ServedByAllow DEF LimiterInvariant
  <2>2. /\ lastSweep' >= request[s].now - Window
        /\ \A c \in Client : visitors'[c] # NoVisitor => lastSweep' <= visitors'[c].expires
    BY <1>1, <2>1, AllowSweeps DEF LimiterInvariant
  <2>. QED  BY <2>2
<1>2. LimiterInvariant /\ [Next]_limiterVars => [StaleVisitorsSweptStep]_limiterVars
  BY <1>1 DEF StaleVisitorsSweptStep
<1>. QED  BY <1>2, LimiterAlways, PTL DEF Spec, StaleVisitorsSwept

=============================================================================

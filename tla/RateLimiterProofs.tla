-------------------------- MODULE RateLimiterProofs --------------------------
(***************************************************************************)
(* Proofs about RateLimiter, for every limit, window length and set of     *)
(* clients.  All clients share one address, so that there is one window.   *)
(***************************************************************************)
EXTENDS RateLimiter, FiniteSetTheorems, TLAPS

\* Requests served in the window that is open, which are the last ones.
Open == IF Loopback \in DOMAIN window THEN window[Loopback].count ELSE 0

Opened == IF Loopback \in DOMAIN window THEN window[Loopback].start ELSE 0

\* The order of time, which nothing is served before the first window in.
TimesInv ==
  /\ Opened <= clock /\ (Loopback \notin DOMAIN window => served = <<>>)
  /\ \A i \in DOMAIN served : served[i].at <= clock
  /\ \A r \in refused : r.at <= clock

\* The open window has the last Open requests.  Those before are not later than
\* its opening, and those of the window before the last one a window's length
\* before it.
WindowInv ==
  /\ Open <= Len(served) /\ Open <= MaxRequests
  /\ \A i \in DOMAIN served :
       /\ i > Len(served) - Open => served[i].at >= Opened
       /\ i <= Len(served) - Open => served[i].at <= Opened
       /\ i + MaxRequests <= Len(served) - Open => served[i].at + WindowSecs <= Opened

LimiterInv == LimiterTypeOK /\ TimesInv /\ WindowInv /\ AtMostTwiceMax /\ RefusedOnlyWhenBusy

-----------------------------------------------------------------------------

\* What Check finds: the open window, or a new one.
LEMMA CurrentFacts ==
  ASSUME LimiterTypeOK, TimesInv, WindowInv
  PROVE  LET w == Current(Loopback)
         IN  /\ w \in Window /\ w.count <= MaxRequests /\ w.start <= clock
             /\ \/ w.count = Open /\ w.start = Opened /\ clock - w.start < WindowSecs
                \/ w.count = 0 /\ w.start = clock /\ Opened + WindowSecs <= clock
                \/ w.count = 0 /\ w.start = clock /\ Open = 0 /\ served = <<>>
<1>1. clock \in Nat /\ clock \in 0..MaxClock /\ MaxRequests \in Nat /\ WindowSecs \in Nat \ {0}
  BY LimitAssumption DEF LimiterTypeOK
<1>2. CASE Loopback \in DOMAIN window
  <2>1. /\ window[Loopback] \in Window /\ window[Loopback].start <= clock
        /\ window[Loopback].count <= MaxRequests
    BY <1>2 DEF LimiterTypeOK
  <2>2. CASE clock - window[Loopback].start < WindowSecs
    <3>1. Current(Loopback) = window[Loopback]
      BY <1>2, <2>2 DEF Current
    <3>2. QED
      BY <1>2, <2>1, <2>2, <3>1 DEF Open, Opened
  <2>3. CASE ~(clock - window[Loopback].start < WindowSecs)
    <3>1. Current(Loopback) = [count |-> 0, start |-> clock]
      BY <2>3 DEF Current
    <3>2. window[Loopback].start \in Nat
      BY <2>1, LimitAssumption DEF Window
    <3>3. Opened + WindowSecs <= clock
      BY <1>1, <1>2, <2>3, <3>2 DEF Opened
    <3>4. QED
      BY <1>1, <3>1, <3>3 DEF Window
  <2>4. QED
    BY <2>2, <2>3
<1>3. CASE Loopback \notin DOMAIN window
  <2>1. Current(Loopback) = [count |-> 0, start |-> clock]
    BY <1>3 DEF Current
  <2>2. QED
    BY <1>1, <1>3, <2>1 DEF Window, Open, TimesInv
<1>4. QED
  BY <1>2, <1>3

\* What Check leaves in the window.
LEMMA CheckWindow ==
  ASSUME LimiterTypeOK, NEW c \in Clients, Check(c), Current(Loopback) \in Window
  PROVE  LET w == Current(Loopback)
         IN  /\ Loopback \in DOMAIN window' /\ Opened' = w.start
             /\ Open' = IF Full(w) THEN w.count ELSE w.count + 1
             /\ DOMAIN window' = DOMAIN window \cup {Loopback}
             /\ window'[Loopback] \in Window
             /\ \A a \in DOMAIN window \ {Loopback} : window'[a] = window[a]
<1> DEFINE w == Current(Loopback)
           n == [w EXCEPT !.count = IF Full(w) THEN @ ELSE @ + 1]
<1>1. n \in Window /\ n.start = w.start /\ n.count = IF Full(w) THEN w.count ELSE w.count + 1
  BY DEF Window
<1>2. window' = [x \in DOMAIN window \cup {Loopback} |-> IF x # Loopback THEN window[x] ELSE n]
  BY DEF Check, AddressOf
<1> HIDE DEF n, w
<1>3. /\ DOMAIN window' = DOMAIN window \cup {Loopback} /\ window'[Loopback] = n
      /\ \A a \in DOMAIN window \ {Loopback} : window'[a] = window[a]
  BY <1>2
<1>4. QED
  BY <1>1, <1>3 DEF Open, Opened, w

\* Types.
LEMMA NextType == ASSUME LimiterTypeOK, TimesInv, WindowInv, LimiterNext PROVE LimiterTypeOK'
<1> DEFINE w == Current(Loopback)
<1>0. clock \in 0..MaxClock /\ MaxClock \in Nat /\ MaxRequests \in Nat
  BY LimitAssumption DEF LimiterTypeOK
<1>1. CASE Tick
  BY <1>0, <1>1 DEF Tick, LimiterTypeOK, Request, Window
<1>2. ASSUME NEW c \in Clients, Check(c) PROVE LimiterTypeOK'
  <2>1. w \in Window /\ w.count <= MaxRequests /\ w.start <= clock
    BY CurrentFacts
  <2> HIDE DEF w
  <2>2. /\ DOMAIN window' = DOMAIN window \cup {Loopback} /\ window'[Loopback] \in Window
        /\ window'[Loopback].start = w.start
        /\ window'[Loopback].count = IF Full(w) THEN w.count ELSE w.count + 1
        /\ \A a \in DOMAIN window \ {Loopback} : window'[a] = window[a]
    BY <1>2, <2>1, CheckWindow DEF w, Open, Opened
  <2>3. window'[Loopback].count <= MaxRequests
    BY <1>0, <2>1, <2>2 DEF Full, Window
  <2>4. clock' = clock /\ Loopback \in Addresses
    BY <1>2 DEF Check, Addresses, AddressOf
  <2>5. \A a \in DOMAIN window' :
          window'[a] \in Window /\ window'[a].start <= clock' /\ window'[a].count <= MaxRequests
    BY <2>1, <2>2, <2>3, <2>4 DEF LimiterTypeOK
  <2>6. [client |-> c, at |-> clock] \in Request
    BY <1>0 DEF Request
  <2>7. served' \in Seq(Request) /\ refused' \subseteq Request
    <3>1. served \in Seq(Request) /\ refused \subseteq Request
      BY DEF LimiterTypeOK
    <3>2. \/ served' = served /\ refused' = refused \cup {[client |-> c, at |-> clock]}
          \/ served' = Append(served, [client |-> c, at |-> clock]) /\ refused' = refused
      BY <1>2 DEF Check
    <3> DEFINE q == [client |-> c, at |-> clock]
    <3>3. q \in Request /\ (served' = served \/ served' = Append(served, q))
          /\ (refused' = refused \/ refused' = refused \cup {q})
      BY <2>6, <3>2
    <3> HIDE DEF q
    <3>4. QED
      BY <3>1, <3>3
  <2>8. QED
    BY <2>2, <2>4, <2>5, <2>7 DEF LimiterTypeOK
<1>3. QED
  BY <1>1, <1>2 DEF LimiterNext

\* A request that is served goes last.
LEMMA ServedFacts ==
  ASSUME LimiterTypeOK, NEW c \in Clients, Check(c)
  PROVE  LET k == Len(served) IN
         \/ /\ Full(Current(Loopback)) /\ served' = served
            /\ refused' = refused \cup {[client |-> c, at |-> clock]}
         \/ /\ ~Full(Current(Loopback)) /\ refused' = refused /\ Len(served') = k + 1
            /\ DOMAIN served' = 1..(k + 1) /\ DOMAIN served = 1..k /\ k \in Nat
            /\ \A i \in 1..k : served'[i] = served[i]
            /\ served'[k + 1] = [client |-> c, at |-> clock]
<1> DEFINE q == [client |-> c, at |-> clock]
<1>1. q \in Request /\ served \in Seq(Request)
  BY DEF LimiterTypeOK, Request
<1>2. \/ Full(Current(Loopback)) /\ refused' = refused \cup {q} /\ served' = served
      \/ ~Full(Current(Loopback)) /\ refused' = refused /\ served' = Append(served, q)
  BY DEF Check, AddressOf
<1> HIDE DEF q
<1>3. QED
  BY <1>1, <1>2 DEF q

\* The windows keep their order, and twice the maximum spans a window.
LEMMA NextWindows ==
  ASSUME LimiterTypeOK, TimesInv, WindowInv, AtMostTwiceMax, LimiterNext
  PROVE  TimesInv' /\ WindowInv' /\ AtMostTwiceMax'
<1> DEFINE w == Current(Loopback)
           k == Len(served)
<1>0. /\ clock \in Nat /\ MaxRequests \in Nat /\ WindowSecs \in Nat \ {0}
      /\ k \in Nat /\ DOMAIN served = 1..k /\ Open \in Nat /\ Opened \in Nat
      /\ \A i \in 1..k : served[i].at \in Nat
      /\ \A r \in refused : r.at \in Nat
  <2>1. /\ served \in Seq(Request) /\ refused \subseteq Request
        /\ \A r \in Request : r.at \in Nat
    BY LimitAssumption DEF LimiterTypeOK, Request
  <2>2. k \in Nat /\ DOMAIN served = 1..k /\ \A i \in 1..k : served[i] \in Request
    BY <2>1
  <2>3. /\ clock \in Nat /\ MaxRequests \in Nat /\ WindowSecs \in Nat \ {0}
        /\ Open \in Nat /\ Opened \in Nat
    BY LimitAssumption DEF LimiterTypeOK, Open, Opened, Window
  <2>4. QED
    BY <2>1, <2>2, <2>3
<1>1. CASE Tick
  <2>1. /\ clock' = clock + 1 /\ served' = served /\ refused' = refused /\ window' = window
        /\ Open' = Open /\ Opened' = Opened
    BY <1>1 DEF Tick, Open, Opened
  <2>2. TimesInv'
    BY <1>0, <2>1 DEF TimesInv
  <2>3. WindowInv' /\ AtMostTwiceMax'
    BY <2>1 DEF WindowInv, AtMostTwiceMax
  <2>4. QED
    BY <2>2, <2>3
<1>2. ASSUME NEW c \in Clients, Check(c) PROVE TimesInv' /\ WindowInv' /\ AtMostTwiceMax'
  <2>1. /\ w \in Window /\ w.count <= MaxRequests /\ w.start <= clock
        /\ \/ w.count = Open /\ w.start = Opened /\ clock - w.start < WindowSecs
           \/ w.count = 0 /\ w.start = clock /\ Opened + WindowSecs <= clock
           \/ w.count = 0 /\ w.start = clock /\ Open = 0 /\ served = <<>>
    BY CurrentFacts
  <2>2. w.count \in Nat /\ w.start \in Nat
    BY <2>1, LimitAssumption DEF Window
  <2>3. /\ Loopback \in DOMAIN window' /\ Opened' = w.start
        /\ Open' = IF Full(w) THEN w.count ELSE w.count + 1
    BY <1>2, <2>1, CheckWindow
  <2>4. clock' = clock
    BY <1>2 DEF Check
  <2>5. \A i \in 1..k : /\ served[i].at <= clock
                        /\ i > k - w.count => served[i].at >= w.start
                        /\ i <= k - w.count => served[i].at <= w.start
                        /\ i + MaxRequests <= k - w.count => served[i].at + WindowSecs <= w.start
    <3>1. CASE w.count = Open /\ w.start = Opened
      BY <1>0, <3>1 DEF WindowInv, TimesInv
    <3>2. CASE w.count = 0 /\ w.start = clock /\ Opened + WindowSecs <= clock
      BY <1>0, <3>2 DEF WindowInv, TimesInv
    <3>3. CASE served = <<>>
      BY <3>3
    <3>4. QED
      BY <2>1, <3>1, <3>2, <3>3
  <2>6. w.count <= k
    BY <1>0, <2>1 DEF WindowInv
  <2>7. \/ /\ Full(w) /\ served' = served
           /\ refused' = refused \cup {[client |-> c, at |-> clock]}
        \/ /\ ~Full(w) /\ refused' = refused /\ Len(served') = k + 1
           /\ DOMAIN served' = 1..(k + 1)
           /\ \A i \in 1..k : served'[i] = served[i]
           /\ served'[k + 1] = [client |-> c, at |-> clock]
    BY <1>2, ServedFacts
  <2> HIDE DEF w
  <2>8. CASE Full(w)
    <3>1. served' = served /\ Open' = w.count /\ Opened' = w.start
      BY <2>3, <2>7, <2>8
    <3>2. \A r \in refused' : r.at <= clock
      BY <1>0, <2>7, <2>8 DEF TimesInv
    <3>3. TimesInv'
      BY <1>0, <2>1, <2>3, <2>4, <3>1, <3>2 DEF TimesInv
    <3>4. WindowInv'
      BY <1>0, <2>1, <2>5, <2>6, <3>1 DEF WindowInv
    <3>5. QED
      BY <3>1, <3>3, <3>4 DEF AtMostTwiceMax
  <2>9. CASE ~Full(w)
    <3>1. /\ Open' = w.count + 1 /\ Opened' = w.start /\ w.count < MaxRequests
          /\ refused' = refused /\ Len(served') = k + 1 /\ DOMAIN served' = 1..(k + 1)
          /\ (\A i \in 1..k : served'[i].at = served[i].at) /\ served'[k + 1].at = clock
      BY <1>0, <2>2, <2>3, <2>7, <2>9 DEF Full
    <3>2. TimesInv'
      BY <1>0, <2>1, <2>3, <2>4, <3>1 DEF TimesInv
    <3>3. \A i \in 1..(k + 1) :
            /\ i > k - w.count => served'[i].at >= w.start
            /\ i <= k - w.count => served'[i].at <= w.start
            /\ i + MaxRequests <= k - w.count => served'[i].at + WindowSecs <= w.start
      <4>1. ASSUME NEW i \in 1..k
            PROVE  /\ i > k - w.count => served'[i].at >= w.start
                   /\ i <= k - w.count => served'[i].at <= w.start
                   /\ i + MaxRequests <= k - w.count => served'[i].at + WindowSecs <= w.start
        BY <2>5, <3>1
      <4>2. ~(k + 1 <= k - w.count) /\ ~(k + 1 + MaxRequests <= k - w.count)
        BY <1>0, <2>2
      <4>3. served'[k + 1].at >= w.start
        BY <1>0, <2>1, <2>2, <3>1
      <4>4. \A i \in 1..(k + 1) : i \in 1..k \/ i = k + 1
        BY <1>0
      <4>5. QED
        BY <4>1, <4>2, <4>3, <4>4
    <3>4. Len(served') - Open' = k - w.count
      <4>1. (k + 1) - (w.count + 1) = k - w.count
        BY <1>0, <2>2
      <4>2. QED
        BY <3>1, <4>1
    <3>5. WindowInv'
      BY <1>0, <2>2, <2>6, <3>1, <3>3, <3>4 DEF WindowInv
    <3>6. ASSUME NEW i \in 1..(k + 1), i + 2 * MaxRequests \in 1..(k + 1)
          PROVE  served'[i + 2 * MaxRequests].at - served'[i].at >= WindowSecs
      <4>1. CASE i + 2 * MaxRequests <= k
        <5>1. i \in 1..k /\ i + 2 * MaxRequests \in 1..k
          BY <1>0, <4>1
        <5>2. served[i + 2 * MaxRequests].at - served[i].at >= WindowSecs
          BY <1>0, <5>1 DEF AtMostTwiceMax
        <5>3. QED
          BY <3>1, <5>1, <5>2
      <4>2. CASE i + 2 * MaxRequests = k + 1
        <5>1. i \in 1..k /\ i + MaxRequests <= k - w.count
          BY <1>0, <2>2, <3>1, <4>2
        <5>2. served[i].at + WindowSecs <= w.start /\ served[i].at \in Nat
          BY <1>0, <2>5, <5>1
        <5>3. served'[i].at = served[i].at /\ served'[i + 2 * MaxRequests].at = clock
          BY <3>1, <4>2, <5>1
        <5>4. clock - served[i].at >= WindowSecs
          BY <1>0, <2>1, <2>2, <5>2
        <5>5. QED
          BY <5>3, <5>4
      <4>3. QED
        BY <1>0, <3>6, <4>1, <4>2
    <3>7. AtMostTwiceMax'
      BY <3>1, <3>6 DEF AtMostTwiceMax
    <3>8. QED
      BY <3>2, <3>5, <3>7
  <2>10. QED
    BY <2>8, <2>9
<1>3. QED
  BY <1>1, <1>2 DEF LimiterNext

-----------------------------------------------------------------------------
(* Refusals. *)

\* A window that is full has the maximum of requests, all within its length.
LEMMA FullIsBusy ==
  ASSUME LimiterTypeOK, TimesInv, WindowInv, Full(Current(Loopback))
  PROVE  Cardinality(ServedBefore(clock, Clients)) >= MaxRequests
<1> DEFINE w == Current(Loopback)
           k == Len(served)
           B == ServedBefore(clock, Clients)
           L == (k - MaxRequests + 1)..k
<1>1. /\ served \in Seq(Request) /\ k \in Nat /\ DOMAIN served = 1..k
      /\ clock \in Nat /\ MaxRequests \in Nat /\ WindowSecs \in Nat \ {0}
  BY LimitAssumption DEF LimiterTypeOK
<1>2. \A i \in 1..k : served[i].at \in Nat /\ served[i].client \in Clients
  <2>1. \A i \in 1..k : served[i] \in Request
    BY <1>1
  <2>2. QED
    BY <2>1, LimitAssumption DEF Request
<1>3. IsFiniteSet(B)
  <2>1. B \subseteq 1..k
    BY <1>1 DEF ServedBefore
  <2>2. IsFiniteSet(1..k)
    BY <1>1, FS_Interval
  <2>3. QED
    BY <2>1, <2>2, FS_Subset
<1>4. CASE MaxRequests = 0
  BY <1>3, <1>4, FS_CardinalityType
<1>5. CASE MaxRequests # 0
  <2>1. /\ w \in Window /\ w.count = MaxRequests
        /\ w.count = Open /\ w.start = Opened /\ clock - w.start < WindowSecs
    <3>1. /\ w \in Window /\ w.count <= MaxRequests
          /\ \/ w.count = Open /\ w.start = Opened /\ clock - w.start < WindowSecs
             \/ w.count = 0
      BY CurrentFacts
    <3>2. w.count >= MaxRequests /\ w.count \in Nat
      BY <3>1 DEF Full, Window
    <3>3. QED
      BY <1>1, <1>5, <3>1, <3>2
  <2>2. w.start \in Nat
    BY <2>1, LimitAssumption DEF Window
  <2> HIDE DEF w
  <2>3. L \subseteq B
    <3>1. ASSUME NEW i \in L
          PROVE  i \in 1..k /\ served[i].at >= Opened /\ served[i].at <= clock
      <4>1. i \in 1..k /\ i > k - Open
        BY <1>1, <2>1 DEF WindowInv
      <4>2. QED
        BY <1>1, <4>1 DEF WindowInv, TimesInv
    <3>2. ASSUME NEW i \in L PROVE clock - served[i].at < WindowSecs
      BY <1>1, <1>2, <2>1, <2>2, <3>1
    <3>3. QED
      BY <1>1, <1>2, <3>1, <3>2 DEF ServedBefore
  <2>4. Cardinality(L) = MaxRequests
    <3>1. /\ Open = MaxRequests /\ Open <= k
          /\ k - MaxRequests + 1 \in Int /\ k \in Int /\ ~(k - MaxRequests + 1 > k)
      BY <1>1, <1>5, <2>1 DEF WindowInv
    <3>2. Cardinality(L) = k - (k - MaxRequests + 1) + 1
      BY <3>1, FS_Interval
    <3>3. QED
      BY <1>1, <3>2
  <2>5. QED
    BY <1>1, <1>3, <2>3, <2>4, FS_Subset, FS_CardinalityType
<1>6. QED
  BY <1>4, <1>5

\* What was served before does not change.
LEMMA ServedGrows ==
  ASSUME LimiterTypeOK, NEW t \in Nat, Len(served) <= Len(served'), served' \in Seq(Request),
         \A i \in 1..Len(served) : served'[i] = served[i]
  PROVE  /\ Cardinality(ServedBefore(t, Clients)') >= Cardinality(ServedBefore(t, Clients))
         /\ Cardinality(ServedBefore(t, Clients)') \in Nat
         /\ Cardinality(ServedBefore(t, Clients)) \in Nat
<1>1. served \in Seq(Request) /\ Len(served) \in Nat /\ Len(served') \in Nat
  BY DEF LimiterTypeOK
<1>2. DOMAIN served = 1..Len(served) /\ DOMAIN served' = 1..Len(served')
  BY <1>1
<1>3. ServedBefore(t, Clients) \subseteq ServedBefore(t, Clients)'
  BY <1>1, <1>2 DEF ServedBefore
<1>4. IsFiniteSet(ServedBefore(t, Clients)')
  <2>1. ServedBefore(t, Clients)' \subseteq 1..Len(served')
    BY <1>2 DEF ServedBefore
  <2>2. IsFiniteSet(1..Len(served'))
    BY <1>1, FS_Interval
  <2>3. QED
    BY <2>1, <2>2, FS_Subset
<1>5. QED
  BY <1>3, <1>4, FS_Subset, FS_CardinalityType

LEMMA NextRefused ==
  ASSUME LimiterTypeOK, TimesInv, WindowInv, RefusedOnlyWhenBusy, LimiterNext, LimiterTypeOK'
  PROVE  RefusedOnlyWhenBusy'
<1>1. /\ clock \in Nat /\ MaxRequests \in Nat /\ Len(served) \in Nat /\ served' \in Seq(Request)
      /\ \A r \in refused : r.at \in Nat
  BY LimitAssumption DEF LimiterTypeOK, Request
<1>2. CASE Tick
  BY <1>2 DEF Tick, RefusedOnlyWhenBusy, ServedBefore
<1>3. ASSUME NEW c \in Clients, Check(c) PROVE RefusedOnlyWhenBusy'
  <2>1. CASE Full(Current(Loopback))
    <3>1. served' = served /\ refused' = refused \cup {[client |-> c, at |-> clock]}
      BY <1>3, <2>1, ServedFacts
    <3>2. Cardinality(ServedBefore(clock, Clients)) >= MaxRequests
      BY <2>1, FullIsBusy
    <3>3. \A r \in refused' : Cardinality(ServedBefore(r.at, Clients)) >= MaxRequests
      BY <3>1, <3>2 DEF RefusedOnlyWhenBusy
    <3>4. QED
      BY <3>1, <3>3 DEF RefusedOnlyWhenBusy, ServedBefore
  <2>2. CASE ~Full(Current(Loopback))
    <3>1. /\ refused' = refused /\ Len(served') = Len(served) + 1
          /\ \A i \in 1..Len(served) : served'[i] = served[i]
      BY <1>3, <2>2, ServedFacts
    <3>2. ASSUME NEW r \in refused
          PROVE  Cardinality(ServedBefore(r.at, Clients)') >= MaxRequests
      <4>1. Cardinality(ServedBefore(r.at, Clients)) >= MaxRequests
        BY DEF RefusedOnlyWhenBusy
      <4>2. Len(served) <= Len(served')
        BY <1>1, <3>1
      <4>3. Cardinality(ServedBefore(r.at, Clients)') >= Cardinality(ServedBefore(r.at, Clients))
        BY <1>1, <3>1, <4>2, ServedGrows
      <4>4. /\ Cardinality(ServedBefore(r.at, Clients)') \in Nat
            /\ Cardinality(ServedBefore(r.at, Clients)) \in Nat
        BY <1>1, <3>1, <4>2, ServedGrows
      <4>5. QED
        BY <1>1, <4>1, <4>3, <4>4
    <3>3. QED
      BY <3>1, <3>2 DEF RefusedOnlyWhenBusy
  <2>3. QED
    BY <2>1, <2>2
<1>4. QED
  BY <1>2, <1>3 DEF LimiterNext

-----------------------------------------------------------------------------

THEOREM LimiterInvHolds == LimiterSpec => []LimiterInv
<1>1. LimiterInit => LimiterInv
  BY LimitAssumption DEF LimiterInit, LimiterInv, LimiterTypeOK, TimesInv, WindowInv,
                         AtMostTwiceMax, RefusedOnlyWhenBusy, Open, Opened
<1>2. LimiterInv /\ [LimiterNext]_limiterVars => LimiterInv'
  <2>1. CASE LimiterNext
    BY <2>1, NextType, NextWindows, NextRefused DEF LimiterInv
  <2>2. CASE UNCHANGED limiterVars
    BY <2>2 DEF limiterVars, LimiterInv, LimiterTypeOK, TimesInv, WindowInv, AtMostTwiceMax,
                RefusedOnlyWhenBusy, ServedBefore, Open, Opened
  <2>3. QED
    BY <2>1, <2>2
<1>3. QED
  BY <1>1, <1>2, PTL DEF LimiterSpec

\* The map and the record of what was answered are well typed, and no window
\* counts more than the maximum (state.rs:60-81).
THEOREM LimiterTypes == LimiterSpec => []LimiterTypeOK
<1>1. LimiterInv => LimiterTypeOK
  BY DEF LimiterInv
<1>2. QED
  BY <1>1, LimiterInvHolds, PTL

\* No more than twice the maximum is served within a window's length
\* (state.rs:60-81).
THEOREM TwiceMaxAtMost == LimiterSpec => []AtMostTwiceMax
<1>1. LimiterInv => AtMostTwiceMax
  BY DEF LimiterInv
<1>2. QED
  BY <1>1, LimiterInvHolds, PTL

\* A request is refused only when the maximum was served within the last
\* window's length (state.rs:65-72).
THEOREM RefusedWhenBusy == LimiterSpec => []RefusedOnlyWhenBusy
<1>1. LimiterInv => RefusedOnlyWhenBusy
  BY DEF LimiterInv
<1>2. QED
  BY <1>1, LimiterInvHolds, PTL
=============================================================================

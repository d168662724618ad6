---------------------------- MODULE RateLimiter -----------------------------
(***************************************************************************)
(* The rate limiter in front of every route of sigimora-server.  The       *)
(* middleware looks requests up by the SocketAddr extension, which nothing *)
(* in the server inserts, so that every client falls back to 127.0.0.1 and *)
(* there is one bucket.  check_with_remaining holds the write lock from    *)
(* the lookup to the increment: a request is one step.  Requests with an   *)
(* admin key do not get here.                                              *)
(***************************************************************************)
EXTENDS Naturals, Sequences, FiniteSets

CONSTANTS
  Clients,      \* client addresses
  MaxRequests,  \* SIGIMORA_RATE_LIMIT
  WindowSecs,   \* 60 in AppState::new, in units of the clock
  MaxClock      \* bound on the monotonic clock

ASSUME LimitAssumption ==
  MaxRequests \in Nat /\ WindowSecs \in Nat \ {0} /\ MaxClock \in Nat

VARIABLES
  window,       \* the entries of the map, by the address a request has
  clock,        \* Instant::now()
  served,       \* requests passed on to their handler, in order
  refused       \* who was answered 429, and when

limiterVars == <<window, clock, served, refused>>

\* The address a request is counted under, whoever sent it.
Loopback == "127.0.0.1"
AddressOf(c) == Loopback
Addresses == {AddressOf(c) : c \in Clients}

Window  == [count : Nat, start : 0..MaxClock]
Request == [client : Clients, at : 0..MaxClock]

\* or_insert, and the reset of a window that is over.
CurrentKeepsStart(a) ==                   \* the count is reset, the start is not
  IF a \notin DOMAIN window THEN [count |-> 0, start |-> clock]
  ELSE IF clock - window[a].start >= WindowSecs THEN [window[a] EXCEPT !.count = 0]
  ELSE window[a]

Current(a) ==
  IF a \in DOMAIN window /\ clock - window[a].start < WindowSecs
    THEN window[a]
    ELSE [count |-> 0, start |-> clock]

FullOneEarly(w) == w.count + 1 >= MaxRequests

Full(w) == w.count >= MaxRequests

CheckCountsRefused(c) ==                  \* the count grows although it refuses
  LET a == AddressOf(c)
      w == Current(a)
  IN  /\ window' = [x \in DOMAIN window \cup {a} |->
                      IF x = a THEN [w EXCEPT !.count = w.count + 1] ELSE window[x]]
      /\ IF Full(w)
           THEN refused' = refused \cup {[client |-> c, at |-> clock]} /\ UNCHANGED served
           ELSE served' = Append(served, [client |-> c, at |-> clock]) /\ UNCHANGED refused
      /\ UNCHANGED clock

Check(c) ==
  LET a == AddressOf(c)
      w == Current(a)
  IN  /\ window' = [x \in DOMAIN window \cup {a} |->
                      IF x # a THEN window[x]
                      ELSE [w EXCEPT !.count = IF Full(w) THEN @ ELSE @ + 1]]
      /\ IF Full(w)
           THEN refused' = refused \cup {[client |-> c, at |-> clock]} /\ UNCHANGED served
           ELSE served' = Append(served, [client |-> c, at |-> clock]) /\ UNCHANGED refused
      /\ UNCHANGED clock

Tick ==
  /\ clock < MaxClock
  /\ clock' = clock + 1
  /\ UNCHANGED <<window, served, refused>>

LimiterInit ==
  /\ window = [a \in {} |-> 0]
  /\ clock = 0 /\ served = <<>> /\ refused = {}

LimiterNext == Tick \/ \E c \in Clients : Check(c)

LimiterSpec == LimiterInit /\ [][LimiterNext]_limiterVars

-----------------------------------------------------------------------------
(* Properties. *)

\* The map holds windows that started in the past, with at most the maximum
\* counted in them.
LimiterTypeOK ==
  /\ DOMAIN window \subseteq Addresses
  /\ \A a \in DOMAIN window :
       window[a] \in Window /\ window[a].start <= clock /\ window[a].count <= MaxRequests
  /\ clock \in 0..MaxClock
  /\ served \in Seq(Request) /\ refused \subseteq Request

\* Two windows may follow each other closely, but no more than twice the
\* maximum is ever served within the length of one window (state.rs:60-81).
AtMostTwiceMax ==
  \A i \in DOMAIN served :
    i + 2 * MaxRequests \in DOMAIN served
      => served[i + 2 * MaxRequests].at - served[i].at >= WindowSecs

\* What is served to who in the length of one window before time t.
ServedBefore(t, who) ==
  {i \in DOMAIN served : served[i].client \in who /\ served[i].at <= t
                                                  /\ t - served[i].at < WindowSecs}

\* A request is refused only when the maximum was served, all in all, within
\* the last window's length: a window that is over never refuses (state.rs:65-72).
RefusedOnlyWhenBusy ==
  \A r \in refused : Cardinality(ServedBefore(r.at, Clients)) >= MaxRequests

\* The limit is per client: a request is refused only when its own client was
\* served the maximum within the last window's length.
LimitPerClient ==
  \A r \in refused : Cardinality(ServedBefore(r.at, {r.client})) >= MaxRequests
=============================================================================

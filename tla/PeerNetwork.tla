----------------------------- MODULE PeerNetwork -----------------------------
(***************************************************************************)
(* network.rs of sigimora-mcp: nodes that dial each other over TCP, keep   *)
(* one map entry per peer and send over the queue of that entry.           *)
(*                                                                         *)
(* A connection has two sides.  On either side a call shakes hands and     *)
(* enters the peer in the map, a writer task drains the queue of the entry *)
(* into the socket, and a reader task passes messages on and, when the     *)
(* connection ends, removes the peer.  The map is behind a tokio RwLock,   *)
(* which is fair: a task that waits to write goes before later readers.    *)
(* A queue lives as long as its sender, which the call holds until the     *)
(* insert and the map entry after it.  Between the handshake and its       *)
(* request for the lock a call may be overtaken by broadcasts.             *)
(*                                                                         *)
(* A connection may break at any time and loses what is under way.         *)
(***************************************************************************)
EXTENDS Naturals, Sequences, FiniteSets

CONSTANTS
  Nodes,       \* ids of nodes
  Conns,       \* connections that may be made
  Dialer,      \* the node that makes each of them
  Acceptor,    \* and the node that is dialled
  None,
  QueueCap,    \* messages in the queue of an entry (64 in the code)
  WireCap,     \* messages a socket holds in one direction
  Scenarios    \* bounds: connections made, messages of each node, breaks

ASSUME PeerAssumption ==
  /\ Dialer \in [Conns -> Nodes] /\ Acceptor \in [Conns -> Nodes]
  /\ \A c \in Conns : Dialer[c] # Acceptor[c]
  /\ None \notin Conns
  /\ QueueCap \in Nat \ {0} /\ WireCap \in Nat \ {0}
  /\ Scenarios \subseteq [conns : SUBSET Conns, messages : [Nodes -> Nat], breaks : Nat]

Sides == Conns \X {"dialer", "acceptor"}

Opposite(s) == <<s[1], IF s[2] = "dialer" THEN "acceptor" ELSE "dialer">>

Owner(s) == IF s[2] = "dialer" THEN Dialer[s[1]] ELSE Acceptor[s[1]]

Peer(s) == Owner(Opposite(s))

VARIABLES
  bounds,      \* the scenario of this behaviour
  started,     \* nodes that listen
  peers,       \* the map of each node: the connection of each entry, or None
  call,        \* connect_to_peer or handle_incoming of each side
  reader,      \* the read loop of each side
  writer,      \* the writer task of each side
  queue,       \* the queue it drains
  wire,        \* what a side has written and the other not read
  broken,      \* connections that broke
  sending,     \* the broadcast or send_to a node is in, or None
  messages,    \* messages each node has sent
  accepted,    \* what each side's queue has accepted,
  delivered    \* and what each side's reader has passed to the subscribers

netVars == <<bounds, started, peers, call, reader, writer, queue, wire, broken, sending, messages,
             accepted, delivered>>

\* Locks of the map.
NotSending(n) == sending[n] = None

WantsWrite(n) ==
  \E s \in Sides : Owner(s) = n /\ (call[s] = "insert" \/ reader[s] = "removing")

\* The sender of a queue, held by the call and then by the entry.
SenderAlive(s) == call[s] \in {"answered", "insert"} \/ peers[Owner(s)][Peer(s)] = s[1]

\* Nothing more comes from the other side.
Ended(s) ==
  \/ s[1] \in broken
  \/ wire[Opposite(s)] = <<>>
       /\ \/ writer[Opposite(s)] = "done"
          \/ writer[Opposite(s)] = "off" /\ call[Opposite(s)] = "done"

-----------------------------------------------------------------------------
(* Handshakes                                                              *)

\* A node proves the key it presents: a signature on its id with that key.
Hello(n) == [from |-> n, public_key |-> <<"key", n>>, proof |-> << <<"key", n>>, n>>]

Unreadable == <<>>                        \* not the bytes of a signature

ProofHolds(hello) == hello.proof = <<hello.public_key, hello.from>>

Listen(n) ==
  /\ n \notin started
  /\ started' = started \cup {n}
  /\ UNCHANGED <<bounds, peers, call, reader, writer, queue, wire, broken, sending, messages,
                 accepted, delivered>>

\* Connect and write the handshake; the acceptor's task starts.
Dial(c) ==
  /\ c \in bounds.conns /\ call[<<c, "dialer">>] = "idle"
  /\ {Dialer[c], Acceptor[c]} \subseteq started
  /\ call' = [call EXCEPT ![<<c, "dialer">>] = "handshake", ![<<c, "acceptor">>] = "handshake"]
  /\ wire' = [wire EXCEPT ![<<c, "dialer">>] = <<Hello(Dialer[c])>>]
  /\ UNCHANGED <<bounds, started, peers, reader, writer, queue, broken, sending, messages,
                 accepted, delivered>>

\* A side that accepts looks at a proof only if it can be read as a signature;
\* the side that dials insists on one.
Admits(s, hello) ==
  \/ ProofHolds(hello)
  \/ s[2] = "acceptor" /\ hello.proof = Unreadable

\* The other side's handshake is read and checked, and tasks are spawned: the
\* acceptor answers and reads only after its insert, the dialer reads at once.
ShakeHands(s) ==
  LET incoming == wire[Opposite(s)]
  IN  /\ call[s] = "handshake" /\ s[1] \notin broken
      /\ incoming # <<>> /\ Admits(s, Head(incoming))
      /\ call' = [call EXCEPT ![s] = "answered"]
      /\ writer' = [writer EXCEPT ![s] = "on"]
      /\ wire' = IF s[2] = "acceptor"
                   THEN [wire EXCEPT ![Opposite(s)] = Tail(incoming),
                                     ![s] = Append(@, Hello(Owner(s)))]
                   ELSE [wire EXCEPT ![Opposite(s)] = Tail(incoming)]
      /\ reader' = IF s[2] = "dialer" THEN [reader EXCEPT ![s] = "reading"] ELSE reader
      /\ UNCHANGED <<bounds, started, peers, queue, broken, sending, messages, accepted, delivered>>

\* The call asks for the lock of the map.
RequestLock(s) ==
  /\ call[s] = "answered"
  /\ call' = [call EXCEPT ![s] = "insert"]
  /\ UNCHANGED <<bounds, started, peers, reader, writer, queue, wire, broken, sending, messages,
                 accepted, delivered>>

\* The call returns an error, and its halves of the socket are dropped.
HandshakeFails(s) ==
  /\ call[s] = "handshake" /\ Ended(s)
  /\ call' = [call EXCEPT ![s] = "done"]
  /\ UNCHANGED <<bounds, started, peers, reader, writer, queue, wire, broken, sending, messages,
                 accepted, delivered>>

\* The entry replaces one that is there, whose sender is dropped.
Insert(s) ==
  /\ call[s] = "insert" /\ NotSending(Owner(s))
  /\ peers' = [peers EXCEPT ![Owner(s)][Peer(s)] = s[1]]
  /\ call' = [call EXCEPT ![s] = "done"]
  /\ reader' = IF s[2] = "acceptor" THEN [reader EXCEPT ![s] = "reading"] ELSE reader
  /\ UNCHANGED <<bounds, started, writer, queue, wire, broken, sending, messages, accepted,
                 delivered>>

-----------------------------------------------------------------------------
(* Readers and writers                                                     *)

ReadMessage(s) ==
  LET incoming == wire[Opposite(s)]
  IN  /\ reader[s] = "reading" /\ s[1] \notin broken /\ incoming # <<>>
      /\ delivered' = [delivered EXCEPT ![s] = Append(@, Head(incoming))]
      /\ wire' = [wire EXCEPT ![Opposite(s)] = Tail(incoming)]
      /\ UNCHANGED <<bounds, started, peers, call, reader, writer, queue, broken, sending, messages,
                     accepted>>

ReadEnd(s) ==
  /\ reader[s] = "reading" /\ Ended(s)
  /\ reader' = [reader EXCEPT ![s] = "removing"]
  /\ UNCHANGED <<bounds, started, peers, call, writer, queue, wire, broken, sending, messages,
                 accepted, delivered>>

RemovePeerDialled(s) ==                   \* only the entries with an address
  /\ reader[s] = "removing" /\ NotSending(Owner(s))
  /\ peers' = IF s[2] = "dialer" THEN [peers EXCEPT ![Owner(s)][Peer(s)] = None] ELSE peers
  /\ reader' = [reader EXCEPT ![s] = "done"]
  /\ UNCHANGED <<bounds, started, call, writer, queue, wire, broken, sending, messages,
                 accepted, delivered>>


\* By id: whichever connection the entry has.
RemovePeer(s) ==
  /\ reader[s] = "removing" /\ NotSending(Owner(s))
  /\ peers' = [peers EXCEPT ![Owner(s)][Peer(s)] = None]
  /\ reader' = [reader EXCEPT ![s] = "done"]
  /\ UNCHANGED <<bounds, started, call, writer, queue, wire, broken, sending, messages,
                 accepted, delivered>>

Write(s) ==
  /\ writer[s] = "on" /\ queue[s] # <<>>
  /\ s[1] \notin broken /\ Len(wire[s]) < WireCap
  /\ wire' = [wire EXCEPT ![s] = Append(@, Head(queue[s]))]
  /\ queue' = [queue EXCEPT ![s] = Tail(@)]
  /\ UNCHANGED <<bounds, started, peers, call, reader, writer, broken, sending, messages,
                 accepted, delivered>>

WriterEndsUnsent(s) ==                    \* as soon as the entry is gone
  /\ writer[s] = "on"
  /\ ~SenderAlive(s)
  /\ writer' = [writer EXCEPT ![s] = "done"]
  /\ queue' = [queue EXCEPT ![s] = <<>>]
  /\ UNCHANGED <<bounds, started, peers, call, reader, wire, broken, sending, messages,
                 accepted, delivered>>

\* The loop ends when the sender is gone and the queue empty, or on an error.
\* Either way this half of the socket is shut.
WriterEnds(s) ==
  /\ writer[s] = "on"
  /\ \/ queue[s] = <<>> /\ ~SenderAlive(s)
     \/ queue[s] # <<>> /\ s[1] \in broken
  /\ writer' = [writer EXCEPT ![s] = "done"]
  /\ queue' = [queue EXCEPT ![s] = <<>>]
  /\ UNCHANGED <<bounds, started, peers, call, reader, wire, broken, sending, messages,
                 accepted, delivered>>

Break(c) ==
  /\ call[<<c, "dialer">>] # "idle" /\ c \notin broken
  /\ Cardinality(broken) < bounds.breaks
  /\ broken' = broken \cup {c}
  /\ wire' = [s \in Sides |-> IF s[1] = c THEN <<>> ELSE wire[s]]
  /\ UNCHANGED <<bounds, started, peers, call, reader, writer, queue, sending, messages,
                 accepted, delivered>>

-----------------------------------------------------------------------------
(* broadcast and send_to                                                   *)

EntriesOf(n) == {p \in Nodes : peers[n][p] # None}

\* The read lock is taken; send_to names one peer, broadcast means all.
Begin(n, targets) ==
  /\ n \in started /\ NotSending(n) /\ ~WantsWrite(n)
  /\ messages[n] < bounds.messages[n]
  /\ messages' = [messages EXCEPT ![n] = @ + 1]
  /\ sending' = [sending EXCEPT ![n] = targets]
  /\ UNCHANGED <<bounds, started, peers, call, reader, writer, queue, wire, broken,
                 accepted, delivered>>

Broadcast(n) == Begin(n, EntriesOf(n))

SendTo(n, p) == p \in EntriesOf(n) /\ Begin(n, {p})

SideOf(n, c) == <<c, IF Dialer[c] = n THEN "dialer" ELSE "acceptor">>

\* Waits for room; a queue whose writer is gone refuses the message.
SendNext(n, p) ==
  LET s == SideOf(n, peers[n][p])
  IN  /\ ~NotSending(n) /\ p \in sending[n]
      /\ \/ /\ writer[s] = "on" /\ Len(queue[s]) < QueueCap
            /\ queue' = [queue EXCEPT ![s] = Append(@, messages[n])]
            /\ accepted' = [accepted EXCEPT ![s] = Append(@, messages[n])]
         \/ writer[s] = "done" /\ UNCHANGED <<queue, accepted>>
      /\ sending' = [sending EXCEPT ![n] = @ \ {p}]
      /\ UNCHANGED <<bounds, started, peers, call, reader, writer, wire, broken, messages,
                     delivered>>

\* The lock is released.
Finish(n) ==
  /\ sending[n] = {}
  /\ sending' = [sending EXCEPT ![n] = None]
  /\ UNCHANGED <<bounds, started, peers, call, reader, writer, queue, wire, broken, messages,
                 accepted, delivered>>

-----------------------------------------------------------------------------

NetInit ==
  /\ bounds \in Scenarios
  /\ started = {}
  /\ peers = [n \in Nodes |-> [p \in Nodes |-> None]]
  /\ call = [s \in Sides |-> "idle"]
  /\ reader = [s \in Sides |-> "off"] /\ writer = [s \in Sides |-> "off"]
  /\ queue = [s \in Sides |-> <<>>] /\ wire = [s \in Sides |-> <<>>]
  /\ broken = {}
  /\ sending = [n \in Nodes |-> None] /\ messages = [n \in Nodes |-> 0]
  /\ accepted = [s \in Sides |-> <<>>] /\ delivered = [s \in Sides |-> <<>>]

SideStep(s) ==
  \/ ShakeHands(s) \/ HandshakeFails(s) \/ RequestLock(s) \/ Insert(s)
  \/ ReadMessage(s) \/ ReadEnd(s) \/ RemovePeer(s)
  \/ Write(s) \/ WriterEnds(s)

SendStep(n) == Finish(n) \/ \E p \in Nodes : SendNext(n, p)

NetNext ==
  \/ \E n \in Nodes : Listen(n) \/ Broadcast(n) \/ SendStep(n)
  \/ \E n, p \in Nodes : SendTo(n, p)
  \/ \E c \in Conns : Dial(c) \/ Break(c)
  \/ \E s \in Sides : SideStep(s)

\* Every spawned task is polled as long as it can go on; the tasks of a side
\* are separate, and a lock that is free goes to the one that waits.
NetFairness ==
  /\ \A s \in Sides :
       /\ WF_netVars(ShakeHands(s) \/ HandshakeFails(s) \/ RequestLock(s) \/ Insert(s))
       /\ WF_netVars(ReadMessage(s) \/ ReadEnd(s) \/ RemovePeer(s))
       /\ WF_netVars(Write(s) \/ WriterEnds(s))
  /\ \A n \in Nodes : WF_netVars(SendStep(n))

NetSpec == NetInit /\ [][NetNext]_netVars /\ NetFairness

-----------------------------------------------------------------------------
(* Properties. *)

\* What a queue has accepted reaches the other node's subscribers once and in
\* order, also over a connection that loses its entry to another one: nothing
\* is lost but what a broken connection had under way (network.rs:187-211,
\* 350-380).
NothingLostUnbroken ==
  \A s \in Sides :
    LET out == IF call[Opposite(s)] = "handshake" /\ wire[s] # <<>>
                 THEN Tail(wire[s]) ELSE wire[s]
    IN  \/ accepted[s] = delivered[Opposite(s)] \o out \o queue[s]
        \/ s[1] \in broken
             /\ \E k \in 0..Len(accepted[s]) : delivered[Opposite(s)] = SubSeq(accepted[s], 1, k)

\* The entry an incoming connection left has a reader that will remove it
\* (network.rs:360-380).  The reader of a dialled connection may have ended
\* before the insert (network.rs:197-221); its entry then stays without one,
\* but only after the connection broke or lost its entry on the other side.
EntriesHaveReaders ==
  \A c \in Conns :
    /\ peers[Acceptor[c]][Dialer[c]] = c
         => reader[<<c, "acceptor">>] \in {"reading", "removing"}
    /\ peers[Dialer[c]][Acceptor[c]] = c /\ reader[<<c, "dialer">>] = "done"
         => c \in broken \/ peers[Acceptor[c]][Dialer[c]] # c


\* A broadcast sends to all connected peers, and so it ends: when the callers
\* have no more messages, no broadcast stays under way.  It waits for room in
\* full queues with the lock in hand, while the calls of incoming connections,
\* which will read what makes the room, wait for that lock (network.rs:6,
\* 230-242, 360-376).
BroadcastEnds == <>[](\A n \in Nodes : NotSending(n))
=============================================================================

--------------------------- MODULE WebServerProofs ---------------------------
(***************************************************************************)
(* Proofs about WebServer, for any clients, of which any may be rude, have *)
(* flaky peers or be misread, any limits on descriptors, and messages of   *)
(* any number of parts.                                                    *)
(***************************************************************************)
EXTENDS WebServer, TLAPS, FiniteSetTheorems, WellFoundedInduction

Held ==
    [at : Stages, sock : Fds \cup {NoFd}, to : Fds \cup {NoFd},
     from : Fds \cup {NoFd}, left : Int, status : Status \cup {0},
     request : Clients \cup {NoClient}]

\* What belongs to the one that waits on fd with the table hs.
Owns(hs, fd) == IF fd = Acceptor THEN {Acceptor} ELSE Captured(hs[fd])

\* A continuation waits on the descriptor its stage says, and that, its
\* connection and what it will read from belong to one client.
WaitsRight(h, fd, table) ==
    /\ fd \in Fds
    /\ fd = Acceptor <=> h.at = "accept"
    /\ fd # Acceptor =>
          /\ h.sock # NoFd /\ h.sock # Acceptor
          /\ table[fd].c \in Clients
          /\ table[h.sock] = [kind |-> "client", c |-> table[fd].c]
    /\ h.at \in {"request", "response"} => fd = h.sock /\ h.to = NoFd /\ h.from = NoFd
    /\ h.at = "to_cgi" => fd = h.to /\ h.from # NoFd /\ table[h.from].c = table[fd].c
    /\ h.at = "to_proxy" => fd = h.to /\ h.from = NoFd
    /\ h.at \in {"from_cgi", "from_proxy"} => fd = h.from /\ h.to = NoFd

\* A peer that behaves does not answer or leave before it has its request.
Ready(c, is, has) == is[c] = "live" /\ has[c] = Units
PeerWaits(h, c, is, has) ==
    h.at \in {"to_cgi", "to_proxy"} /\ c \notin Flaky => Ready(c, is, has)

Tables ==
    /\ limit \in Limits
    /\ lpc \in {"block", "serve", "aborted", "killed"}
    /\ interest = DOMAIN handlers
    /\ \A fd \in interest : handlers[fd] \in Held /\ WaitsRight(handlers[fd], fd, endpoint)

\* What DescriptorsAccounted says, which holds when the process is down too.
Accounted ==
    /\ Acceptor \in interest
    /\ \A fd \in interest : fd \in Owns(handlers, fd) /\ Owns(handlers, fd) \cap leaked = {}
    /\ \A f, g \in interest : f # g => Owns(handlers, f) \cap Owns(handlers, g) = {}
    /\ DOMAIN endpoint = leaked \cup UNION {Owns(handlers, fd) : fd \in interest}

\* What the loop has not come to is registered, each descriptor with one event.
BatchInv ==
    /\ lpc = "block" => batch = {}
    /\ \A e \in batch : e[1] \in interest
    /\ \A d, e \in batch : d[1] = e[1] => d = e

Environment ==
    /\ client \in [Clients -> {"new", "backlog", "open", "fin", "reset"}]
    /\ peer \in [Clients -> {"none", "live", "gone"}]
    /\ peerUnsent \in [Clients -> Int]
    /\ \A c \in Clients \ Rude : client[c] \notin {"fin", "reset"}

PeersWait ==
    \A fd \in interest : PeerWaits(handlers[fd], endpoint[fd].c, peer, peerUnsent)

\* The inductive invariant of the server.
ServerInv == Tables /\ Accounted /\ BatchInv /\ Environment /\ PeersWait

\* What a handler may do to clients and peers.
PeersKept ==
    /\ Environment'
    /\ \A c \in Clients : Ready(c, peer, peerUnsent) => Ready(c, peer', peerUnsent')

-----------------------------------------------------------------------------
(* Numbers and tables.                                                      *)

\* The kernel hands out a number that is free.
LEMMA LowestIn ==
    ASSUME NEW S \in SUBSET Nat, S # {}
    PROVE  Lowest(S) \in S
  <1>1. \E x \in S : \A y \in S : ~ (<<y, x>> \in OpToRel(<, Nat))
    BY NatLessThanWellFounded, WFMin
  <1>2. S \subseteq Nat
    OBVIOUS
  <1>3. \E x \in S : \A y \in S : ~ (y < x)
    BY <1>1, <1>2 DEF OpToRel
  <1>4. \E x \in S : \A y \in S : x <= y
    BY <1>2, <1>3
  <1> QED
    BY <1>4 DEF Lowest

\* Free numbers are those of descriptors, and nobody's.
LEMMA FreeNumbers ==
    ASSUME ServerInv
    PROVE  /\ Free \subseteq Fds /\ Free \subseteq Nat /\ IsFiniteSet(Free)
           /\ NoFd \notin Fds /\ Acceptor \notin Free /\ Free \cap leaked = {}
           /\ \A fd \in interest : Owns(handlers, fd) \cap Free = {}
           /\ \A fd \in interest : Owns(handlers, fd) \subseteq DOMAIN endpoint
  <1>1. limit \in Nat /\ limit \in Limits
    BY ServerAssumption DEF ServerInv, Tables
  <1>2. Free \subseteq 1..limit
    BY DEF Free
  <1>3. IsFiniteSet(1..limit)
    <2>1. 1 \in Int /\ limit \in Int
      BY <1>1
    <2> QED
      BY <2>1, FS_Interval
  <1>4. Free \subseteq Nat /\ Free \subseteq Fds /\ IsFiniteSet(Free)
    <2>1. IsFiniteSet(Free)
      BY <1>2, <1>3, FS_Subset
    <2>2. Free \subseteq Fds
      BY <1>1, <1>2 DEF Fds
    <2>3. Free \subseteq Nat
      BY <1>1, <1>2
    <2> QED
      BY <2>1, <2>2, <2>3
  <1>5. NoFd \notin Fds
    BY ServerAssumption DEF NoFd, Fds
  <1>6. \A fd \in interest : Owns(handlers, fd) \subseteq DOMAIN endpoint
    BY DEF ServerInv, Accounted
  <1>7. Acceptor \in Owns(handlers, Acceptor)
    BY DEF Owns
  <1>8. leaked \subseteq DOMAIN endpoint /\ Acceptor \in DOMAIN endpoint
    BY <1>6, <1>7 DEF ServerInv, Accounted
  <1> QED
    BY <1>4, <1>5, <1>6, <1>8 DEF Free

\* A table of one entry, and one without some.
LEMMA Single ==
    ASSUME NEW d, NEW e
    PROVE  DOMAIN (d :> e) = {d} /\ (d :> e)[d] = e
  BY DEF :>

LEMMA Less ==
    ASSUME NEW f, NEW S
    PROVE  /\ DOMAIN Without(f, S) = DOMAIN f \ S
           /\ \A x \in DOMAIN f \ S : Without(f, S)[x] = f[x]
  BY DEF Without

\* What waits right captures what it waits on.
LEMMA OwnsItself ==
    ASSUME NoFd \notin Fds, NEW hs, NEW fd, NEW table,
           hs[fd] \in Held, WaitsRight(hs[fd], fd, table)
    PROVE  fd \in Owns(hs, fd) /\ Owns(hs, fd) \subseteq Fds
  <1>1. hs[fd].at \in Stages
    BY DEF Held
  <1>2. hs[fd].sock \in Fds \cup {NoFd} /\ hs[fd].to \in Fds \cup {NoFd}
        /\ hs[fd].from \in Fds \cup {NoFd}
    BY DEF Held
  <1>3. fd \in Fds /\ fd # NoFd
    BY DEF WaitsRight
  <1>4. Owns(hs, fd) \subseteq Fds
    BY <1>2, <1>3 DEF Owns, Captured
  <1>5. fd # Acceptor => fd \in Captured(hs[fd])
    BY <1>1, <1>3 DEF WaitsRight, Captured, Stages
  <1> QED
    BY <1>4, <1>5 DEF Owns

-----------------------------------------------------------------------------
(* Continuations.                                                           *)

\* The next continuation of a pipeline that goes on with other descriptors,
Turned(h, a, t, f, n) == [h EXCEPT !.at = a, !.to = t, !.from = f, !.left = n]

LEMMA TurnedHeld ==
    ASSUME NEW h \in Held, NEW a \in Stages, NEW t \in Fds \cup {NoFd},
           NEW f \in Fds \cup {NoFd}, NEW n \in Int
    PROVE  LET next == Turned(h, a, t, f, n)
           IN  /\ next \in Held /\ next.at = a /\ next.sock = h.sock
               /\ next.to = t /\ next.from = f
  BY DEF Held, Turned

LEMMA TurnedToProxy ==
    ASSUME NEW h \in Held, NEW up \in Fds, "to_proxy" \in Stages, Units \in Int
    PROVE  LET next == Turned(h, "to_proxy", up, NoFd, Units)
           IN  /\ next \in Held /\ next.at = "to_proxy" /\ next.sock = h.sock
               /\ next.to = up /\ next.from = NoFd
  BY TurnedHeld

LEMMA TurnedToRead ==
    ASSUME NEW h \in Held, NEW a \in Stages, NEW f \in Fds, Units \in Int
    PROVE  LET next == Turned(h, a, NoFd, f, Units)
           IN  /\ next \in Held /\ next.at = a /\ next.sock = h.sock
               /\ next.to = NoFd /\ next.from = f
  BY DEF Held, Turned

\* The acceptor's continuation,
LEMMA AcceptingHeld == Accepting \in Held /\ Accepting.at = "accept"
  BY DEF Accepting, Held, Stages

\* that of a new connection,
LEMMA ReadingHeld ==
    ASSUME NEW conn \in Fds
    PROVE  LET r == Reading(conn)
           IN  r \in Held /\ r.at = "request" /\ r.sock = conn /\ r.to = NoFd /\ r.from = NoFd
  <1> DEFINE Made(h, n) == [h EXCEPT !.at = "request", !.sock = conn, !.left = n]
  <1>1. \A h \in Held, n \in Int :
           /\ Made(h, n) \in Held /\ Made(h, n).at = "request" /\ Made(h, n).sock = conn
           /\ Made(h, n).to = h.to /\ Made(h, n).from = h.from
    BY DEF Held, Stages
  <1>2. Units \in Int
    BY ServerAssumption
  <1>3. Accepting.to = NoFd /\ Accepting.from = NoFd
    BY DEF Accepting
  <1>4. Reading(conn) = Made(Accepting, Units)
    BY DEF Reading
  <1> HIDE DEF Made
  <1> QED
    BY <1>1, <1>2, <1>3, <1>4, AcceptingHeld

\* and that of a response.
LEMMA RespondingHeld ==
    ASSUME NEW h, h.sock \in Fds, h.request \in Clients \cup {NoClient}, NEW code \in Status
    PROVE  LET r == Responding(h, code)
           IN  r \in Held /\ r.at = "response" /\ r.sock = h.sock /\ r.to = NoFd /\ r.from = NoFd
  <1> DEFINE Made(g, n, s, q) == [g EXCEPT !.at = "response", !.sock = s, !.left = n,
                                           !.status = code, !.request = q]
  <1>1. ASSUME NEW g \in Held, NEW n \in Int, NEW s \in Fds, NEW q \in Clients \cup {NoClient}
        PROVE  /\ Made(g, n, s, q) \in Held /\ Made(g, n, s, q).at = "response"
               /\ Made(g, n, s, q).sock = s
               /\ Made(g, n, s, q).to = g.to /\ Made(g, n, s, q).from = g.from
    <2>1. "response" \in Stages /\ code \in Status \cup {0} /\ s \in Fds \cup {NoFd}
      BY DEF Stages
    <2> QED
      BY <2>1 DEF Held
  <1>2. Units \in Int
    BY ServerAssumption
  <1>3. Accepting.to = NoFd /\ Accepting.from = NoFd
    BY DEF Accepting
  <1>4. Responding(h, code) = Made(Accepting, Units, h.sock, h.request)
    BY DEF Responding
  <1> HIDE DEF Made
  <1> QED
    BY <1>1, <1>2, <1>3, <1>4, AcceptingHeld

-----------------------------------------------------------------------------
(* What all handlers share.                                                 *)

\* The table after a handler, when it registered nothing that is registered.
LEMMA AfterLeaves ==
    ASSUME ServerInv, NEW fd, NEW new, NEW table, Leaves(fd, new, table),
           DOMAIN new \cap (interest \ {fd}) = {}
    PROVE  /\ DOMAIN handlers' = DOMAIN new \cup (interest \ {fd})
           /\ \A f \in DOMAIN new : handlers'[f] = new[f]
           /\ \A f \in interest \ {fd} : handlers'[f] = handlers[f]
  <1> DEFINE rest == Without(handlers, {fd})
  <1>1. /\ DOMAIN rest = interest \ {fd}
        /\ \A f \in interest \ {fd} : rest[f] = handlers[f]
    BY Less DEF ServerInv, Tables
  <1>2. handlers' = new @@ rest
    BY DEF Leaves
  <1> HIDE DEF rest
  <1>3. /\ DOMAIN (new @@ rest) = DOMAIN new \cup DOMAIN rest
        /\ \A f \in DOMAIN new : (new @@ rest)[f] = new[f]
        /\ \A f \in DOMAIN rest \ DOMAIN new : (new @@ rest)[f] = rest[f]
    BY DEF @@
  <1> QED
    BY <1>1, <1>2, <1>3

\* A handler that registers continuations for what it had or what was free, and
\* closes the rest of what it had, keeps the accounts, does not make
\* add_event() throw, and leaves the events that are still in the batch theirs.
LEMMA LeavesKeeps ==
    ASSUME ServerInv, NEW fd \in Fds, NEW ev, NEW new, NEW table,
           Takes(fd, ev), Leaves(fd, new, table), PeersKept,
           fd = Acceptor => Acceptor \in DOMAIN new,
           \A f \in DOMAIN new :
              /\ new[f] \in Held /\ WaitsRight(new[f], f, table)
              /\ Owns(new, f) \subseteq (Owns(handlers, fd) \cup Free) \ leaked'
              /\ PeerWaits(new[f], table[f].c, peer', peerUnsent'),
           \A f, g \in DOMAIN new : f # g => Owns(new, f) \cap Owns(new, g) = {},
           leaked \subseteq leaked', leaked' \subseteq leaked \cup Free,
           DOMAIN table = leaked' \cup (DOMAIN endpoint \ Owns(handlers, fd))
                            \cup UNION {Owns(new, f) : f \in DOMAIN new},
           \A g \in DOMAIN endpoint \cap DOMAIN table : table[g] = endpoint[g]
    PROVE  ServerInv'
  <1> DEFINE others == interest \ {fd}
             news == DOMAIN new
  <1> USE DEF ServerInv
  <1>1. /\ lpc = "serve" /\ <<fd, ev>> \in batch /\ batch' = batch \ {<<fd, ev>>}
        /\ fd \in interest /\ limit' = limit
    BY DEF Takes
  <1>2. /\ interest' = others \cup news
        /\ handlers' = new @@ Without(handlers, {fd})
        /\ endpoint' = table
        /\ lpc' = IF news \cap others # {} THEN "threw" ELSE "serve"
    BY DEF Leaves
  <1>3. NoFd \notin Fds /\ \A f \in interest : /\ Owns(handlers, f) \cap Free = {}
                                              /\ Owns(handlers, f) \subseteq DOMAIN endpoint
    BY FreeNumbers
  <1>4. \A f \in news : f \in Owns(new, f)
    BY <1>3, OwnsItself
  <1>5. \A f \in others : f \in Owns(handlers, f) /\ Owns(handlers, f) \cap Owns(handlers, fd) = {}
    BY <1>1 DEF Accounted
  <1>6. \A f \in others : \A g \in news : Owns(handlers, f) \cap Owns(new, g) = {}
    BY <1>3, <1>5
  <1>7. news \cap others = {}
    BY <1>4, <1>5, <1>6
  <1>8. /\ DOMAIN handlers' = news \cup others
        /\ \A f \in news : handlers'[f] = new[f]
        /\ \A f \in others : handlers'[f] = handlers[f]
    BY <1>7, AfterLeaves
  <1>9. /\ \A f \in news : Owns(handlers', f) = Owns(new, f)
        /\ \A f \in others : Owns(handlers', f) = Owns(handlers, f)
    BY <1>8 DEF Owns
  <1>10. Acceptor \in interest'
    BY <1>2 DEF Accounted
  <1>11. \A f \in others : Owns(handlers, f) \subseteq DOMAIN endpoint \ Owns(handlers, fd)
    BY <1>3, <1>5
  <1>12. \A f \in others : /\ f \in DOMAIN endpoint /\ table[f] = endpoint[f]
                           /\ \A x \in Owns(handlers, f) : table[x] = endpoint[x]
    BY <1>5, <1>11
  <1>13. Accounted'
    <2>1. \A f \in others : Owns(handlers, f) \cap leaked' = {}
      BY <1>3 DEF Accounted
    <2>2. \A f \in interest' : f \in Owns(handlers', f) /\ Owns(handlers', f) \cap leaked' = {}
      BY <1>2, <1>4, <1>5, <1>9, <2>1
    <2>3. \A f, g \in interest' : f # g => Owns(handlers', f) \cap Owns(handlers', g) = {}
      <3> SUFFICES ASSUME NEW f \in interest', NEW g \in interest', f # g
                   PROVE  Owns(handlers', f) \cap Owns(handlers', g) = {}
        OBVIOUS
      <3>1. CASE f \in others /\ g \in others
        BY <1>9, <3>1 DEF Accounted
      <3>2. CASE f \in news /\ g \in news
        BY <1>9, <3>2
      <3>3. CASE f \in others /\ g \in news
        BY <1>6, <1>9, <3>3
      <3>4. CASE f \in news /\ g \in others
        BY <1>6, <1>9, <3>4
      <3> QED
        BY <1>2, <3>1, <3>2, <3>3, <3>4
    <2>4. DOMAIN endpoint \ Owns(handlers, fd) =
             (leaked \cup UNION {Owns(handlers, f) : f \in others}) \ Owns(handlers, fd)
      BY <1>1 DEF Accounted
    <2>5. DOMAIN endpoint \ Owns(handlers, fd) =
             leaked \cup UNION {Owns(handlers, f) : f \in others}
      BY <1>1, <1>5, <2>4 DEF Accounted
    <2>6. \A x : x \in UNION {Owns(handlers', f) : f \in interest'} <=>
                   \/ x \in UNION {Owns(new, f) : f \in news}
                   \/ x \in UNION {Owns(handlers, f) : f \in others}
      <3>1. \A x : \A f \in interest' : x \in Owns(handlers', f) =>
               \/ f \in news /\ x \in Owns(new, f)
               \/ f \in others /\ x \in Owns(handlers, f)
        BY <1>2, <1>9
      <3>2. \A x : \A f \in news : x \in Owns(new, f) => f \in interest' /\ x \in Owns(handlers', f)
        BY <1>2, <1>9
      <3>3. \A x : \A f \in others : x \in Owns(handlers, f) =>
               f \in interest' /\ x \in Owns(handlers', f)
        BY <1>2, <1>9
      <3> QED
        BY <3>1, <3>2, <3>3
    <2>7. DOMAIN endpoint' = leaked' \cup UNION {Owns(handlers', f) : f \in interest'}
      <3>1. \A x : x \in DOMAIN table <=> \/ x \in leaked'
                                           \/ x \in UNION {Owns(new, f) : f \in news}
                                           \/ x \in UNION {Owns(handlers, f) : f \in others}
        BY <2>5
      <3> QED
        BY <1>2, <2>6, <3>1
    <2> QED
      BY <1>10, <2>2, <2>3, <2>7 DEF Accounted
  <1>14. \A f \in others : handlers[f] \in Held /\ WaitsRight(handlers[f], f, table)
    <2> TAKE f \in others
    <2>1. handlers[f] \in Held /\ WaitsRight(handlers[f], f, endpoint)
      BY DEF Tables
    <2>2. f # Acceptor => handlers[f].sock \in Owns(handlers, f)
      BY <2>1 DEF WaitsRight, Owns, Captured
    <2>3. table[f] = endpoint[f]
      BY <1>12
    <2>4. f # Acceptor => table[handlers[f].sock] = endpoint[handlers[f].sock]
      BY <1>12, <2>2
    <2>5. handlers[f].at = "to_cgi" => table[handlers[f].from] = endpoint[handlers[f].from]
      <3>1. handlers[f].at = "to_cgi" => handlers[f].from \in Owns(handlers, f)
        BY <2>1 DEF WaitsRight, Owns, Captured
      <3> QED
        BY <1>12, <3>1
    <2> QED
      BY <2>1, <2>3, <2>4, <2>5 DEF WaitsRight
  <1>15. Tables'
    BY <1>1, <1>2, <1>7, <1>8, <1>14 DEF Tables
  <1>16. BatchInv'
    <2>1. \A e \in batch : e # <<fd, ev>> => e[1] # fd
      BY <1>1 DEF BatchInv
    <2> QED
      BY <1>1, <1>2, <1>7, <2>1 DEF BatchInv
  <1>17. PeersWait'
    <2>1. ASSUME NEW f \in others PROVE PeerWaits(handlers[f], table[f].c, peer', peerUnsent')
      <3>1. CASE f = Acceptor
        <4>1. handlers[f].at = "accept"
          BY <3>1 DEF Tables, WaitsRight
        <4> QED
          BY <1>8, <2>1, <4>1 DEF PeerWaits
      <3>2. CASE f # Acceptor
        <4>1. endpoint[f].c \in Clients /\ PeerWaits(handlers[f], endpoint[f].c, peer, peerUnsent)
          BY <3>2 DEF Tables, WaitsRight, PeersWait
        <4> QED
          BY <1>8, <1>12, <2>1, <4>1 DEF PeerWaits, PeersKept
      <3> QED
        BY <3>1, <3>2
    <2> QED
      BY <1>2, <1>8, <2>1 DEF PeersWait
  <1> QED
    BY <1>13, <1>15, <1>16, <1>17 DEF PeersKept

-----------------------------------------------------------------------------
(* How a handler may leave.                                                 *)

\* The same but for its progress and whose request it read.
Alike(h, g) == h.at = g.at /\ h.sock = g.sock /\ h.to = g.to /\ h.from = g.from

\* A continuation other than the acceptor's that is served.
LEMMA Served ==
    ASSUME ServerInv, NEW fd \in Fds, NEW ev, Takes(fd, ev), handlers[fd].at # "accept"
    PROVE  LET h == handlers[fd]
           IN  /\ fd \in interest /\ fd # Acceptor /\ fd \in Captured(h)
               /\ Owns(handlers, fd) = Captured(h) /\ Captured(h) \subseteq DOMAIN endpoint
               /\ h \in Held /\ h.sock \in Captured(h) /\ h.sock \in Fds
               /\ Captured(h) \subseteq Fds /\ Captured(h) \cap leaked = {}
               /\ Acceptor \notin Captured(h)
               /\ WaitsRight(h, fd, endpoint) /\ PeerWaits(h, endpoint[fd].c, peer, peerUnsent)
               /\ endpoint[fd].c \in Clients
               /\ endpoint[h.sock] = [kind |-> "client", c |-> endpoint[fd].c]
  <1> USE DEF ServerInv
  <1> DEFINE h == handlers[fd]
  <1>1. fd \in interest
    BY DEF Takes
  <1>2. h \in Held /\ WaitsRight(h, fd, endpoint)
    BY <1>1 DEF Tables
  <1>3. fd # Acceptor
    BY <1>2 DEF WaitsRight
  <1>4. Owns(handlers, fd) = Captured(h)
    BY <1>3 DEF Owns
  <1>5. fd \in Captured(h) /\ Captured(h) \subseteq Fds
    BY <1>2, <1>4, OwnsItself, FreeNumbers
  <1>6. h.sock \in Captured(h)
    BY <1>2, <1>3 DEF WaitsRight, Captured
  <1>7. Captured(h) \cap leaked = {} /\ Captured(h) \subseteq DOMAIN endpoint
    BY <1>1, <1>4, FreeNumbers DEF Accounted
  <1>8. Acceptor \notin Captured(h)
    <2>1. Acceptor \in Owns(handlers, Acceptor) /\ Acceptor \in interest
      BY DEF Owns, Accounted
    <2> QED
      BY <1>1, <1>3, <1>4, <2>1 DEF Accounted
  <1>9. PeerWaits(h, endpoint[fd].c, peer, peerUnsent)
    BY <1>1 DEF PeersWait
  <1> QED
    BY <1>1, <1>2, <1>3, <1>4, <1>5, <1>6, <1>7, <1>8, <1>9 DEF WaitsRight

\* The pipeline ends.
LEMMA EndsKeeps ==
    ASSUME ServerInv, NEW fd \in Fds, NEW ev, Takes(fd, ev), handlers[fd].at # "accept",
           NEW h, Captured(h) = Captured(handlers[fd]), Ends(fd, h), PeersKept,
           leaked' = leaked
    PROVE  ServerInv'
  <1> DEFINE table == Without(endpoint, Captured(h))
             new == <<>>
  <1>1. Leaves(fd, new, table)
    BY DEF Ends
  <1>2. DOMAIN new = {}
    OBVIOUS
  <1>3. /\ DOMAIN table = DOMAIN endpoint \ Captured(h)
        /\ \A x \in DOMAIN table : table[x] = endpoint[x]
    BY DEF Without
  <1>4. leaked \cap Captured(h) = {} /\ leaked \subseteq DOMAIN endpoint
    BY Served DEF ServerInv, Accounted
  <1>5. DOMAIN table = leaked' \cup (DOMAIN endpoint \ Owns(handlers, fd))
                         \cup UNION {Owns(new, f) : f \in DOMAIN new}
    BY <1>2, <1>3, <1>4, Served
  <1>6. fd # Acceptor
    BY Served
  <1> HIDE DEF new, table
  <1> QED
    BY <1>1, <1>2, <1>3, <1>5, <1>6, LeavesKeeps

\* A handler registers one continuation, for something it had.
LEMMA OneKeeps ==
    ASSUME ServerInv, NEW fd \in Fds, NEW ev, Takes(fd, ev), handlers[fd].at # "accept",
           NEW f, NEW h \in Held, f # Acceptor,
           Captured(h) \subseteq Captured(handlers[fd]),
           NEW table,
           DOMAIN table = DOMAIN endpoint \ (Captured(handlers[fd]) \ Captured(h)),
           \A x \in DOMAIN table : table[x] = endpoint[x],
           WaitsRight(h, f, table), PeerWaits(h, table[f].c, peer', peerUnsent'),
           Leaves(fd, f :> h, table), PeersKept, leaked' = leaked
    PROVE  ServerInv'
  <1> DEFINE new == f :> h
  <1>1. DOMAIN new = {f} /\ new[f] = h
    BY DEF :>
  <1>2. Owns(new, f) = Captured(h)
    BY <1>1 DEF Owns
  <1>3. /\ Owns(handlers, fd) = Captured(handlers[fd]) /\ fd # Acceptor
        /\ Captured(handlers[fd]) \cap leaked = {}
        /\ Captured(handlers[fd]) \subseteq DOMAIN endpoint
        /\ leaked \subseteq DOMAIN endpoint
    BY Served DEF ServerInv, Accounted
  <1>4. UNION {Owns(new, g) : g \in DOMAIN new} = Captured(h)
    BY <1>1, <1>2
  <1>5. DOMAIN table = leaked' \cup (DOMAIN endpoint \ Owns(handlers, fd))
                         \cup UNION {Owns(new, g) : g \in DOMAIN new}
    BY <1>3, <1>4
  <1>6. Leaves(fd, new, table)
    OBVIOUS
  <1> HIDE DEF new
  <1> QED
    BY <1>1, <1>2, <1>3, <1>5, <1>6, LeavesKeeps

\* The same is waited for again.
LEMMA MoreKeeps ==
    ASSUME ServerInv, NEW fd \in Fds, NEW ev, Takes(fd, ev), handlers[fd].at # "accept",
           NEW n \in Int, More(fd, handlers[fd], n), PeersKept, leaked' = leaked
    PROVE  ServerInv'
  <1> DEFINE h == [handlers[fd] EXCEPT !.left = @ - n]
  <1>1. /\ h \in Held /\ h.at = handlers[fd].at /\ h.sock = handlers[fd].sock
        /\ h.to = handlers[fd].to /\ h.from = handlers[fd].from
    <2>1. handlers[fd] \in Held
      BY Served
    <2>2. handlers[fd].left - n \in Int
      BY <2>1 DEF Held
    <2> QED
      BY <2>1, <2>2 DEF Held
  <1>2. Captured(h) = Captured(handlers[fd])
    BY <1>1 DEF Captured
  <1>3. WaitsRight(h, fd, endpoint) /\ fd # Acceptor
    BY <1>1, Served DEF WaitsRight
  <1>4. PeerWaits(h, endpoint[fd].c, peer', peerUnsent')
    <2>1. endpoint[fd].c \in Clients
          /\ PeerWaits(handlers[fd], endpoint[fd].c, peer, peerUnsent)
      BY Served
    <2> QED
      BY <1>1, <2>1 DEF PeerWaits, PeersKept
  <1>5. Leaves(fd, fd :> h, endpoint)
    BY DEF More
  <1> HIDE DEF h
  <1> QED
    BY <1>1, <1>2, <1>3, <1>4, <1>5, OneKeeps

\* send_response(): what belonged to a peer is closed.
LEMMA AnswerKeeps ==
    ASSUME ServerInv, NEW fd \in Fds, NEW ev, Takes(fd, ev), handlers[fd].at # "accept",
           NEW h \in Held, h.sock = handlers[fd].sock, Captured(h) = Captured(handlers[fd]),
           NEW code \in Status, Answer(fd, h, code), PeersKept, leaked' = leaked
    PROVE  ServerInv'
  <1> DEFINE r == Responding(h, code)
             s == h.sock
             table == Without(endpoint, Captured(h) \ {s})
  <1>1. s \in Fds /\ h.request \in Clients \cup {NoClient}
    <2>1. s \in Fds
      BY Served
    <2> QED
      BY <2>1 DEF Held
  <1>2. r \in Held /\ r.at = "response" /\ r.sock = s /\ r.to = NoFd /\ r.from = NoFd
    BY <1>1, RespondingHeld
  <1>3. s # NoFd /\ s # Acceptor /\ s \in Captured(h) /\ s \in DOMAIN endpoint
    BY Served DEF WaitsRight
  <1>4. Captured(r) = {s}
    BY <1>2, <1>3 DEF Captured
  <1>5. /\ DOMAIN table = DOMAIN endpoint \ (Captured(handlers[fd]) \ Captured(r))
        /\ \A x \in DOMAIN table : table[x] = endpoint[x]
        /\ s \in DOMAIN table
    BY <1>3, <1>4 DEF Without
  <1>6. WaitsRight(r, s, table)
    <2>1. table[s] = [kind |-> "client", c |-> endpoint[fd].c] /\ endpoint[fd].c \in Clients
      BY <1>5, Served
    <2>2. table[s].c = endpoint[fd].c
      BY <2>1
    <2> QED
      BY <1>1, <1>2, <1>3, <2>1, <2>2 DEF WaitsRight
  <1>7. PeerWaits(r, table[s].c, peer', peerUnsent')
    BY <1>2 DEF PeerWaits
  <1>8. Leaves(fd, s :> r, table)
    BY DEF Answer
  <1>9. Captured(r) \subseteq Captured(handlers[fd])
    BY <1>3, <1>4
  <1> HIDE DEF r, s, table
  <1> QED
    BY <1>2, <1>3, <1>5, <1>6, <1>7, <1>8, <1>9, OneKeeps

\* The process ends: nothing is registered or closed.
LEMMA DownKeeps ==
    ASSUME ServerInv, NEW fd \in Fds, NEW ev, Takes(fd, ev), Aborts \/ Killed, PeersKept,
           leaked' = leaked
    PROVE  ServerInv'
  <1>1. /\ UNCHANGED <<interest, handlers, endpoint, leaked, limit>>
        /\ batch' = batch \ {<<fd, ev>>}
        /\ lpc' \in {"aborted", "killed"}
    BY DEF Aborts, Killed, Takes
  <1>2. Tables'
    BY <1>1 DEF ServerInv, Tables
  <1>3. Accounted'
    BY <1>1 DEF ServerInv, Accounted
  <1>4. BatchInv'
    BY <1>1 DEF ServerInv, BatchInv
  <1>5. PeersWait'
    <2>1. \A f \in interest : handlers[f].at \in {"to_cgi", "to_proxy"} => endpoint[f].c \in Clients
      BY DEF ServerInv, Tables, WaitsRight
    <2> QED
      BY <1>1, <2>1 DEF ServerInv, PeersWait, PeerWaits, PeersKept
  <1> QED
    BY <1>2, <1>3, <1>4, <1>5 DEF ServerInv, PeersKept

-----------------------------------------------------------------------------
(* The handlers, one by one.                                                *)

\* accept(): the acceptor waits for the next, and the connection for its request.
LEMMA AcceptKeeps ==
    ASSUME ServerInv, NEW fd \in Fds, NEW ev, Accept(fd, ev)
    PROVE  ServerInv'
  <1> USE DEF ServerInv
  <1>1. /\ Takes(fd, ev) /\ handlers[fd].at = "accept" /\ fd \in interest
        /\ leaked' = leaked /\ UNCHANGED peers
    BY DEF Accept, Takes
  <1>2. fd = Acceptor
    BY <1>1 DEF Tables, WaitsRight
  <1>3. /\ Owns(handlers, fd) = {fd} /\ fd \in DOMAIN endpoint /\ leaked \subseteq DOMAIN endpoint
        /\ fd \notin leaked
    BY <1>1, <1>2 DEF Owns, Accounted
  <1>4. Accepting \in Held /\ Accepting.at = "accept"
    BY AcceptingHeld
  <1>5. PeersKept
    <2>1. client' = client \/ \E c \in Clients : client' = [client EXCEPT ![c] = "open"]
      BY DEF Accept
    <2> QED
      BY <1>1, <2>1 DEF PeersKept, Environment, peers
  <1>6. CASE Free # {}
    <2> DEFINE conn == Lowest(Free)
               new == fd :> Accepting @@ conn :> Reading(conn)
    <2>1. PICK c \in Clients :
             Leaves(fd, new, endpoint @@ (conn :> [kind |-> "client", c |-> c]))
      BY <1>6 DEF Accept
    <2> DEFINE table == endpoint @@ (conn :> [kind |-> "client", c |-> c])
    <2>2. /\ conn \in Free /\ conn \in Fds /\ conn # NoFd /\ conn # Acceptor
          /\ conn \notin DOMAIN endpoint /\ conn \notin leaked
      BY <1>6, FreeNumbers, LowestIn DEF Free
    <2>3. /\ DOMAIN new = {fd, conn} /\ new[fd] = Accepting /\ new[conn] = Reading(conn)
      BY <1>2, <2>2 DEF @@, :>
    <2>4. /\ DOMAIN table = DOMAIN endpoint \cup {conn}
          /\ table[conn] = [kind |-> "client", c |-> c]
          /\ \A x \in DOMAIN endpoint : table[x] = endpoint[x]
      BY <2>2 DEF @@, :>
    <2>5. /\ Reading(conn) \in Held /\ Reading(conn).at = "request"
          /\ Reading(conn).sock = conn /\ Reading(conn).to = NoFd /\ Reading(conn).from = NoFd
      BY <2>2, ReadingHeld
    <2>6. Owns(new, fd) = {fd} /\ Owns(new, conn) = {conn}
      BY <1>2, <2>2, <2>3, <2>5 DEF Owns, Captured
    <2>7. WaitsRight(Accepting, fd, table)
      BY <1>2, <1>4 DEF WaitsRight
    <2>8. WaitsRight(Reading(conn), conn, table)
      BY <2>2, <2>4, <2>5 DEF WaitsRight
    <2>9. \A f \in DOMAIN new :
             /\ new[f] \in Held /\ WaitsRight(new[f], f, table)
             /\ Owns(new, f) \subseteq (Owns(handlers, fd) \cup Free) \ leaked'
             /\ PeerWaits(new[f], table[f].c, peer', peerUnsent')
      BY <1>1, <1>3, <1>4, <2>2, <2>3, <2>5, <2>6, <2>7, <2>8 DEF PeerWaits
    <2>10. \A f, g \in DOMAIN new : f # g => Owns(new, f) \cap Owns(new, g) = {}
      BY <2>3, <2>6
    <2>11. DOMAIN table = leaked' \cup (DOMAIN endpoint \ Owns(handlers, fd))
                            \cup UNION {Owns(new, f) : f \in DOMAIN new}
      <3>1. UNION {Owns(new, f) : f \in DOMAIN new} = {fd, conn}
        BY <2>3, <2>6
      <3> QED
        BY <1>1, <1>3, <2>4, <3>1
    <2>12. Acceptor \in DOMAIN new /\ leaked \subseteq leaked' /\ leaked' \subseteq leaked \cup Free
      BY <1>1, <1>2, <2>3
    <2>13. Leaves(fd, new, table)
      BY <2>1
    <2> HIDE DEF new, table, conn
    <2> QED
      BY <1>1, <1>5, <2>4, <2>9, <2>10, <2>11, <2>12, <2>13, LeavesKeeps
  <1>7. CASE Free = {}
    <2> DEFINE new == fd :> Accepting
    <2>1. Leaves(fd, new, endpoint)
      BY <1>7 DEF Accept
    <2>2. DOMAIN new = {fd} /\ new[fd] = Accepting
      BY DEF :>
    <2>3. Owns(new, fd) = {fd}
      BY <1>2 DEF Owns
    <2>4. \A f \in DOMAIN new :
             /\ new[f] \in Held /\ WaitsRight(new[f], f, endpoint)
             /\ Owns(new, f) \subseteq (Owns(handlers, fd) \cup Free) \ leaked'
             /\ PeerWaits(new[f], endpoint[f].c, peer', peerUnsent')
      BY <1>1, <1>2, <1>3, <1>4, <2>2, <2>3 DEF PeerWaits, WaitsRight
    <2>5. UNION {Owns(new, f) : f \in DOMAIN new} = {fd}
      BY <2>2, <2>3
    <2>6. DOMAIN endpoint = leaked' \cup (DOMAIN endpoint \ Owns(handlers, fd))
                             \cup UNION {Owns(new, f) : f \in DOMAIN new}
      BY <1>1, <1>3, <2>5
    <2>7. \A f, g \in DOMAIN new : f # g => Owns(new, f) \cap Owns(new, g) = {}
      BY <2>2
    <2>8. Acceptor \in DOMAIN new
      BY <1>2, <2>2
    <2> HIDE DEF new
    <2> QED
      BY <1>1, <1>5, <2>1, <2>4, <2>6, <2>7, <2>8, LeavesKeeps
  <1> QED
    BY <1>6, <1>7

\* The second and the third number of two pipes: free, and two.
LEMMA FourFree ==
    ASSUME ServerInv, Cardinality(Free) >= 4
    PROVE  LET r1 == Lowest(Free)
               w1 == Lowest(Free \ {r1})
               r2 == Lowest(Free \ {r1, w1})
           IN  w1 \in Free /\ r2 \in Free /\ r2 # w1
  <1> DEFINE r1 == Lowest(Free)
             w1 == Lowest(Free \ {r1})
             r2 == Lowest(Free \ {r1, w1})
             F1 == Free \ {r1}
             F2 == Free \ {r1, w1}
  <1>1. IsFiniteSet(Free) /\ Free \subseteq Nat /\ Cardinality(Free) \in Nat
    BY FreeNumbers, FS_CardinalityType
  <1>2. IsFiniteSet(F1) /\ Cardinality(F1) \in Nat /\ Cardinality(F1) >= 3
    <2>1. /\ IsFiniteSet(F1)
          /\ Cardinality(F1) = IF r1 \in Free THEN Cardinality(Free) - 1 ELSE Cardinality(Free)
      BY <1>1, FS_RemoveElement
    <2> QED
      BY <1>1, <2>1
  <1>3. Cardinality(F2) \in Nat /\ Cardinality(F2) >= 2
    <2>1. F2 = F1 \ {w1}
      OBVIOUS
    <2>2. Cardinality(F1 \ {w1}) = IF w1 \in F1 THEN Cardinality(F1) - 1 ELSE Cardinality(F1)
      BY <1>2, FS_RemoveElement
    <2> HIDE DEF F1, F2
    <2> QED
      BY <1>2, <2>1, <2>2
  <1>4. F1 # {} /\ F2 # {}
    <2>1. Cardinality({}) = 0
      BY FS_EmptySet
    <2> HIDE DEF F1, F2
    <2> QED
      BY <1>2, <1>3, <2>1
  <1>5. w1 \in F1
    BY <1>1, <1>4, LowestIn
  <1>6. r2 \in F2
    BY <1>1, <1>4, LowestIn
  <1> QED
    BY <1>5, <1>6

\* send_request() to a CGI: two ends stay open, or nothing does.
LEMMA StartCgiKeeps ==
    ASSUME ServerInv, NEW fd \in Fds, NEW ev, Takes(fd, ev), handlers[fd].at = "request",
           NEW h \in Held, Alike(h, handlers[fd]),
           StartCgi(fd, h, endpoint[fd].c), UNCHANGED client
    PROVE  ServerInv'
  <1> DEFINE c == endpoint[fd].c
  <1>1. /\ handlers[fd] \in Held /\ WaitsRight(handlers[fd], fd, endpoint) /\ c \in Clients
        /\ endpoint[handlers[fd].sock] = [kind |-> "client", c |-> c] /\ fd # Acceptor
    BY Served
  <1>2. /\ h.at = "request" /\ h.sock = fd /\ h.to = NoFd /\ h.from = NoFd
        /\ handlers[fd].sock = fd /\ Captured(h) = Captured(handlers[fd])
    BY <1>1 DEF Alike, WaitsRight, Captured
  <1>3. leaked' = leaked
    BY DEF StartCgi
  <1>4. CASE Answer(fd, h, 503) /\ UNCHANGED <<peer, peerUnsent>>
    <2>1. PeersKept
      BY <1>4 DEF PeersKept, ServerInv, Environment, Ready
    <2>2. 503 \in Status /\ handlers[fd].at # "accept" /\ h.sock = handlers[fd].sock
      BY <1>2 DEF Status
    <2> QED
      BY <1>2, <1>3, <1>4, <2>1, <2>2, AnswerKeeps
  <1>5. CASE ~ (Answer(fd, h, 503) /\ UNCHANGED <<peer, peerUnsent>>)
    <2> DEFINE r1 == Lowest(Free)
               w1 == Lowest(Free \ {r1})
               r2 == Lowest(Free \ {r1, w1})
               next == [h EXCEPT !.at = "to_cgi", !.to = w1, !.from = r2, !.left = Units]
               new == w1 :> next
               table == endpoint @@ (w1 :> [kind |-> "cgi", c |-> c])
                                 @@ (r2 :> [kind |-> "cgi", c |-> c])
    <2>1. /\ Cardinality(Free) >= 4
          /\ peer' = [peer EXCEPT ![c] = "live"]
          /\ peerUnsent' = [peerUnsent EXCEPT ![c] = Units]
          /\ Leaves(fd, new, table)
      BY <1>5 DEF StartCgi
    <2>2. /\ w1 \in Free /\ r2 \in Free /\ r2 # w1
      BY <2>1, FourFree
    <2> HIDE DEF w1, r2
    <2>3. /\ w1 \in Fds /\ r2 \in Fds /\ w1 # NoFd /\ r2 # NoFd /\ w1 # Acceptor
          /\ w1 \notin leaked /\ r2 \notin leaked
          /\ w1 \notin DOMAIN endpoint /\ r2 \notin DOMAIN endpoint
      BY <2>2, FreeNumbers DEF Free
    <2>4. /\ next \in Held /\ next.at = "to_cgi" /\ next.sock = fd /\ next.to = w1
          /\ next.from = r2
      <3>1. "to_cgi" \in Stages /\ Units \in Int
        BY ServerAssumption DEF Stages
      <3>2. next = Turned(h, "to_cgi", w1, r2, Units)
        BY DEF Turned
      <3>3. w1 \in Fds \cup {NoFd} /\ r2 \in Fds \cup {NoFd} /\ h \in Held
        BY <2>3
      <3> HIDE DEF next
      <3>4. /\ next \in Held /\ next.at = "to_cgi" /\ next.sock = h.sock /\ next.to = w1
            /\ next.from = r2
        BY <3>1, <3>2, <3>3, TurnedHeld
      <3> QED
        BY <1>2, <3>4
    <2>5. DOMAIN new = {w1} /\ new[w1] = next
      BY DEF :>
    <2>6. /\ DOMAIN table = DOMAIN endpoint \cup {w1, r2}
          /\ table[w1] = [kind |-> "cgi", c |-> c] /\ table[r2] = [kind |-> "cgi", c |-> c]
          /\ \A x \in DOMAIN endpoint : table[x] = endpoint[x]
      BY <2>2, <2>3 DEF @@, :>
    <2> HIDE DEF next, new, table
    <2>7. /\ Owns(handlers, fd) = {fd} /\ fd \in DOMAIN endpoint /\ fd \notin leaked
          /\ leaked \subseteq DOMAIN endpoint
      <3>1. Captured(handlers[fd]) = {fd}
        BY <1>1, <1>2 DEF Captured, WaitsRight
      <3> QED
        BY <3>1, Served DEF ServerInv, Accounted
    <2>8. Owns(new, w1) = {fd, w1, r2}
      BY <1>1, <1>2, <2>3, <2>4, <2>5, <2>7 DEF Owns, Captured, WaitsRight
    <2>9. WaitsRight(next, w1, table)
      <3>1. table[w1].c = c /\ table[r2].c = c /\ table[fd] = [kind |-> "client", c |-> c]
        BY <1>1, <1>2, <2>6, <2>7
      <3> QED
        BY <1>1, <1>2, <2>3, <2>4, <3>1 DEF WaitsRight
    <2>10. PeersKept
      BY <1>1, <2>1, ServerAssumption DEF PeersKept, ServerInv, Environment, Ready
    <2>11. PeerWaits(next, c, peer', peerUnsent')
      BY <1>1, <2>1 DEF PeerWaits, Ready, ServerInv, Environment
    <2>12. \A f \in DOMAIN new :
              /\ new[f] \in Held /\ WaitsRight(new[f], f, table)
              /\ Owns(new, f) \subseteq (Owns(handlers, fd) \cup Free) \ leaked'
              /\ PeerWaits(new[f], table[f].c, peer', peerUnsent')
      <3>1. table[w1].c = c
        BY <2>6
      <3> QED
        BY <1>3, <2>2, <2>3, <2>4, <2>5, <2>7, <2>8, <2>9, <2>11, <3>1
    <2>13. DOMAIN table = leaked' \cup (DOMAIN endpoint \ Owns(handlers, fd))
                            \cup UNION {Owns(new, f) : f \in DOMAIN new}
      <3>1. UNION {Owns(new, f) : f \in DOMAIN new} = {fd, w1, r2}
        BY <2>5, <2>8
      <3> QED
        BY <1>3, <2>6, <2>7, <3>1
    <2>14. \A f, g \in DOMAIN new : f # g => Owns(new, f) \cap Owns(new, g) = {}
      BY <2>5
    <2> QED
      BY <1>1, <1>3, <2>1, <2>6, <2>10, <2>12, <2>13, <2>14, LeavesKeeps
  <1> QED
    BY <1>4, <1>5

\* Client::from(): a socket that is connected stays open, one that is not is lost.
LEMMA StartProxyKeeps ==
    ASSUME ServerInv, NEW fd \in Fds, NEW ev, Takes(fd, ev), handlers[fd].at = "request",
           NEW h \in Held, Alike(h, handlers[fd]),
           StartProxy(fd, h, endpoint[fd].c), UNCHANGED client
    PROVE  ServerInv'
  <1> DEFINE c == endpoint[fd].c
             up == Lowest(Free)
  <1>1. /\ handlers[fd] \in Held /\ WaitsRight(handlers[fd], fd, endpoint) /\ c \in Clients
        /\ endpoint[handlers[fd].sock] = [kind |-> "client", c |-> c] /\ fd # Acceptor
    BY Served
  <1>2. /\ h.at = "request" /\ h.sock = fd /\ h.to = NoFd /\ h.from = NoFd
        /\ handlers[fd].sock = fd /\ Captured(h) = Captured(handlers[fd])
    BY <1>1 DEF Alike, WaitsRight, Captured
  <1>3. /\ Owns(handlers, fd) = {fd} /\ fd \in DOMAIN endpoint /\ fd \notin leaked
        /\ leaked \subseteq DOMAIN endpoint /\ fd # NoFd
    <2>1. Captured(handlers[fd]) = {fd} /\ fd # NoFd
      BY <1>1, <1>2 DEF Captured, WaitsRight
    <2> QED
      BY <2>1, Served DEF ServerInv, Accounted
  <1>4. Free # {} => /\ up \in Free /\ up \in Fds /\ up # NoFd /\ up # Acceptor
                     /\ up \notin DOMAIN endpoint /\ up \notin leaked
    BY FreeNumbers, LowestIn DEF Free
  <1> HIDE DEF up
  <1>5. ASSUME Free # {},
               peer' = [peer EXCEPT ![c] = "live"],
               peerUnsent' = [peerUnsent EXCEPT ![c] = Units],
               Leaves(fd, up :> Turned(h, "to_proxy", up, NoFd, Units),
                      endpoint @@ (up :> [kind |-> "upstream", c |-> c])),
               leaked' = leaked
        PROVE  ServerInv'
    <2> DEFINE next == Turned(h, "to_proxy", up, NoFd, Units)
               new == up :> next
               table == endpoint @@ (up :> [kind |-> "upstream", c |-> c])
    <2>1. /\ next \in Held /\ next.at = "to_proxy" /\ next.sock = h.sock /\ next.to = up
          /\ next.from = NoFd
      <3>1. "to_proxy" \in Stages /\ Units \in Int
        BY ServerAssumption DEF Stages
      <3>2. up \in Fds
        BY <1>4, <1>5
      <3> QED
        BY <3>1, <3>2, TurnedToProxy
    <2> HIDE DEF next
    <2>2. DOMAIN new = {up} /\ new[up] = next
      BY DEF :>
    <2>3. /\ DOMAIN table = DOMAIN endpoint \cup {up}
          /\ table[up] = [kind |-> "upstream", c |-> c]
          /\ \A x \in DOMAIN endpoint : table[x] = endpoint[x]
      BY <1>4, <1>5 DEF @@, :>
    <2>4. Leaves(fd, new, table)
      BY <1>5 DEF next
    <2> HIDE DEF new, table
    <2>5. Owns(new, up) = {fd, up}
      BY <1>2, <1>3, <1>4, <1>5, <2>1, <2>2 DEF Owns, Captured
    <2>6. table[up].c = c /\ table[fd] = [kind |-> "client", c |-> c]
      BY <1>1, <1>2, <1>3, <2>3
    <2>7. WaitsRight(next, up, table)
      BY <1>1, <1>2, <1>3, <1>4, <1>5, <2>1, <2>6 DEF WaitsRight
    <2>8. PeersKept
      BY <1>1, <1>5, ServerAssumption DEF PeersKept, ServerInv, Environment, Ready
    <2>9. PeerWaits(next, c, peer', peerUnsent')
      BY <1>1, <1>5 DEF PeerWaits, Ready, ServerInv, Environment
    <2>10. \A f \in DOMAIN new :
              /\ new[f] \in Held /\ WaitsRight(new[f], f, table)
              /\ Owns(new, f) \subseteq (Owns(handlers, fd) \cup Free) \ leaked'
              /\ PeerWaits(new[f], table[f].c, peer', peerUnsent')
      BY <1>3, <1>4, <1>5, <2>1, <2>2, <2>5, <2>6, <2>7, <2>9
    <2>11. DOMAIN table = leaked' \cup (DOMAIN endpoint \ Owns(handlers, fd))
                            \cup UNION {Owns(new, f) : f \in DOMAIN new}
      <3>1. UNION {Owns(new, f) : f \in DOMAIN new} = {fd, up}
        BY <2>2, <2>5
      <3> QED
        BY <1>3, <1>5, <2>3, <3>1
    <2>12. \A f, g \in DOMAIN new : f # g => Owns(new, f) \cap Owns(new, g) = {}
      BY <2>2
    <2> QED
      BY <1>1, <1>5, <2>3, <2>4, <2>8, <2>10, <2>11, <2>12, LeavesKeeps
  <1>6. ASSUME Free # {}, leaked' = leaked \cup {up},
               Leaves(fd, h.sock :> Responding(h, 502),
                      endpoint @@ (up :> [kind |-> "failed", c |-> c])),
               UNCHANGED <<peer, peerUnsent>>
        PROVE  ServerInv'
    <2> DEFINE r == Responding(h, 502)
               new == fd :> r
               table == endpoint @@ (up :> [kind |-> "failed", c |-> c])
    <2>1. r \in Held /\ r.at = "response" /\ r.sock = fd /\ r.to = NoFd /\ r.from = NoFd
      <3>1. h.sock \in Fds /\ h.request \in Clients \cup {NoClient} /\ 502 \in Status
        BY <1>2 DEF Held, Status
      <3> QED
        BY <1>2, <3>1, RespondingHeld
    <2>2. Leaves(fd, new, table)
      BY <1>2, <1>6
    <2> HIDE DEF r
    <2>3. DOMAIN new = {fd} /\ new[fd] = r
      BY DEF :>
    <2>4. /\ DOMAIN table = DOMAIN endpoint \cup {up}
          /\ \A x \in DOMAIN endpoint : table[x] = endpoint[x]
      BY <1>4, <1>6 DEF @@, :>
    <2> HIDE DEF new, table
    <2>5. Owns(new, fd) = {fd}
      BY <1>1, <1>3, <2>1, <2>3 DEF Owns, Captured
    <2>6. WaitsRight(r, fd, table)
      <3>1. table[fd] = [kind |-> "client", c |-> c]
        BY <1>1, <1>2, <1>3, <2>4
      <3>2. table[fd].c = c
        BY <3>1
      <3> QED
        BY <1>1, <1>3, <2>1, <3>1, <3>2 DEF WaitsRight
    <2>7. PeersKept
      BY <1>6 DEF PeersKept, ServerInv, Environment, Ready
    <2>8. \A f \in DOMAIN new :
              /\ new[f] \in Held /\ WaitsRight(new[f], f, table)
              /\ Owns(new, f) \subseteq (Owns(handlers, fd) \cup Free) \ leaked'
              /\ PeerWaits(new[f], table[f].c, peer', peerUnsent')
      <3>1. PeerWaits(r, table[fd].c, peer', peerUnsent')
        BY <2>1 DEF PeerWaits
      <3>2. fd \notin leaked'
        BY <1>3, <1>4, <1>6
      <3> QED
        BY <1>3, <2>1, <2>3, <2>5, <2>6, <3>1, <3>2
    <2>9. DOMAIN table = leaked' \cup (DOMAIN endpoint \ Owns(handlers, fd))
                            \cup UNION {Owns(new, f) : f \in DOMAIN new}
      <3>1. UNION {Owns(new, f) : f \in DOMAIN new} = {fd}
        BY <2>3, <2>5
      <3> QED
        BY <1>3, <1>6, <2>4, <3>1
    <2>10. \A f, g \in DOMAIN new : f # g => Owns(new, f) \cap Owns(new, g) = {}
      BY <2>3
    <2>11. leaked \subseteq leaked' /\ leaked' \subseteq leaked \cup Free
      BY <1>4, <1>6
    <2> QED
      BY <1>1, <2>2, <2>4, <2>7, <2>8, <2>9, <2>10, <2>11, LeavesKeeps
  <1>7. ASSUME Answer(fd, h, 502), UNCHANGED <<leaked, peer, peerUnsent>>
        PROVE  ServerInv'
    <2>1. PeersKept
      BY <1>7 DEF PeersKept, ServerInv, Environment, Ready
    <2>2. 502 \in Status /\ handlers[fd].at # "accept" /\ h.sock = handlers[fd].sock
      BY <1>2 DEF Status
    <2> QED
      BY <1>2, <1>7, <2>1, <2>2, AnswerKeeps
  <1>8. [h EXCEPT !.at = "to_proxy", !.to = up, !.left = Units]
           = Turned(h, "to_proxy", up, NoFd, Units)
    BY <1>2 DEF Turned, Held
  <1> QED
    BY <1>5, <1>6, <1>7, <1>8 DEF StartProxy, up

\* What is alike has captured the same.
LEMMA AlikeCaptures ==
    ASSUME NEW h, NEW g, Alike(h, g)
    PROVE  Captured(h) = Captured(g) /\ h.sock = g.sock
  BY DEF Alike, Captured

\* Whatever the location, the request was served right.
LEMMA DispatchKeeps ==
    ASSUME ServerInv, NEW fd \in Fds, NEW ev, Takes(fd, ev), handlers[fd].at = "request",
           NEW h \in Held, Alike(h, handlers[fd]),
           Dispatch(fd, h, endpoint[fd].c), UNCHANGED client
    PROVE  ServerInv'
  <1>1. /\ handlers[fd].at # "accept" /\ Captured(h) = Captured(handlers[fd])
        /\ h.sock = handlers[fd].sock
    BY AlikeCaptures
  <1>2. ASSUME UNCHANGED <<leaked, peer, peerUnsent>>,
               NEW code \in Status, Answer(fd, h, code)
        PROVE  ServerInv'
    <2>1. PeersKept /\ leaked' = leaked
      BY <1>2 DEF PeersKept, ServerInv, Environment, Ready
    <2> QED
      BY <1>1, <1>2, <2>1, AnswerKeeps
  <1>3. {404, 500} \cup (IF Free # {} THEN {200} ELSE {}) \subseteq Status
    BY DEF Status
  <1>4. CASE StartCgi(fd, h, endpoint[fd].c)
    BY <1>4, StartCgiKeeps
  <1>5. CASE StartProxy(fd, h, endpoint[fd].c)
    BY <1>5, StartProxyKeeps
  <1> QED
    BY <1>2, <1>3, <1>4, <1>5 DEF Dispatch

\* One read of a request.
LEMMA ReadRequestKeeps ==
    ASSUME ServerInv, NEW fd \in Fds, NEW ev, ReadRequest(fd, ev)
    PROVE  ServerInv'
  <1> DEFINE h == handlers[fd]
             c == endpoint[fd].c
             asks == [h EXCEPT !.request = c]
  <1>1. /\ Takes(fd, ev) /\ h.at = "request" /\ h.at # "accept" /\ UNCHANGED client
    BY DEF ReadRequest
  <1>2. ASSUME UNCHANGED <<leaked, peer, peerUnsent>>,
               Ends(fd, h) \/ Aborts \/ \E n \in Int : More(fd, h, n)
        PROVE  ServerInv'
    <2>1. PeersKept /\ leaked' = leaked
      BY <1>1, <1>2 DEF PeersKept, ServerInv, Environment, Ready
    <2>2. CASE Ends(fd, h)
      BY <1>1, <2>1, <2>2, EndsKeeps
    <2>3. ASSUME NEW n \in Int, More(fd, h, n)
          PROVE  ServerInv'
      BY <1>1, <2>1, <2>3, MoreKeeps
    <2>4. CASE Aborts
      BY <1>1, <2>1, <2>4, DownKeeps
    <2> QED
      BY <1>2, <2>2, <2>3, <2>4
  <1>3. ASSUME Dispatch(fd, asks, c)
        PROVE  ServerInv'
    <2>1. asks \in Held /\ Alike(asks, h)
      <3>1. h \in Held /\ c \in Clients
        BY <1>1, Served
      <3>2. ASSUME NEW g \in Held, NEW d \in Clients
            PROVE  [g EXCEPT !.request = d] \in Held /\ Alike([g EXCEPT !.request = d], g)
        BY DEF Held, Alike
      <3> HIDE DEF h, c
      <3> QED
        BY <3>1, <3>2
    <2> HIDE DEF asks
    <2> QED
      BY <1>1, <1>3, <2>1, DispatchKeeps
  <1>4. \/ UNCHANGED <<leaked, peer, peerUnsent>> /\ Ends(fd, h)
        \/ UNCHANGED <<leaked, peer, peerUnsent>> /\ More(fd, h, 0)
        \/ \E n \in 1..unread[c] : UNCHANGED <<leaked, peer, peerUnsent>> /\ More(fd, h, n)
        \/ Dispatch(fd, asks, c)
        \/ Refuse(fd, h)
    BY Zenon DEF ReadRequest
  <1>5. 0 \in Int /\ \A n \in 1..unread[c] : n \in Int
    OBVIOUS
  <1>6. ASSUME Refuse(fd, h)
        PROVE  ServerInv'
    BY <1>2, <1>6 DEF Refuse
  <1> HIDE DEF asks
  <1> QED
    BY <1>2, <1>3, <1>4, <1>5, <1>6

\* One write of a request to a peer, or the last.
LEMMA WritePeerKeeps ==
    ASSUME ServerInv, NEW fd \in Fds, NEW ev, WritePeer(fd, ev)
    PROVE  ServerInv'
  <1> DEFINE h == handlers[fd]
             c == endpoint[fd].c
             next == IF h.at = "to_cgi"
                     THEN [h EXCEPT !.at = "from_cgi", !.to = NoFd, !.left = Units]
                     ELSE [h EXCEPT !.at = "from_proxy", !.to = NoFd, !.from = h.to,
                                    !.left = Units]
             table == Without(endpoint, Captured(h) \ Captured(next))
  <1>1. /\ Takes(fd, ev) /\ h.at \in {"to_cgi", "to_proxy"}
        /\ UNCHANGED <<leaked, clients, peers>>
    BY DEF WritePeer
  <1>2. PeersKept /\ leaked' = leaked /\ h.at # "accept"
    BY <1>1 DEF PeersKept, ServerInv, Environment, Ready, clients, peers
  <1>3. /\ h \in Held /\ WaitsRight(h, fd, endpoint) /\ c \in Clients
        /\ endpoint[h.sock] = [kind |-> "client", c |-> c] /\ fd \in Captured(h)
        /\ fd # Acceptor /\ Acceptor \notin Captured(h) /\ h.sock \in Captured(h)
        /\ Captured(h) \subseteq DOMAIN endpoint /\ Captured(h) \subseteq Fds
    BY <1>1, <1>2, Served
  <1>4. ASSUME Leaves(fd, next.from :> next, table)
        PROVE  ServerInv'
    <2> DEFINE at == IF h.at = "to_cgi" THEN "from_cgi" ELSE "from_proxy"
               from == IF h.at = "to_cgi" THEN h.from ELSE h.to
    <2>1. next = Turned(h, at, NoFd, from, Units)
      <3>1. ASSUME NEW g \in Held, NEW a, NEW n
            PROVE  [g EXCEPT !.at = a, !.to = NoFd, !.left = n] = Turned(g, a, NoFd, g.from, n)
        BY DEF Held, Turned
      <3>2. CASE h.at = "to_cgi"
        BY <1>3, <3>1, <3>2
      <3>3. CASE h.at # "to_cgi"
        BY <3>3 DEF Turned
      <3> QED
        BY <3>2, <3>3
    <2>2. /\ from \in Fds /\ from # NoFd /\ from # Acceptor /\ from \in Captured(h)
          /\ endpoint[from].c = c
      BY <1>1, <1>3, FreeNumbers DEF WaitsRight, Captured
    <2>3. at \in Stages /\ at \in {"from_cgi", "from_proxy"} /\ Units \in Int
      BY ServerAssumption DEF Stages
    <2> HIDE DEF at, from, next
    <2>4. /\ next \in Held /\ next.at = at /\ next.sock = h.sock /\ next.to = NoFd
          /\ next.from = from
      BY <1>3, <2>1, <2>2, <2>3, TurnedToRead
    <2>5. Captured(next) \subseteq Captured(h) /\ from \in Captured(next)
          /\ h.sock \in Captured(next)
      BY <1>3, <2>2, <2>4, FreeNumbers DEF Captured
    <2>6. /\ DOMAIN table = DOMAIN endpoint \ (Captured(h) \ Captured(next))
          /\ \A x \in DOMAIN table : table[x] = endpoint[x]
      BY DEF Without
    <2>7. table[from] = endpoint[from] /\ table[h.sock] = endpoint[h.sock]
      BY <1>3, <2>5, <2>6
    <2>8. WaitsRight(next, from, table)
      BY <1>3, <2>2, <2>3, <2>4, <2>7 DEF WaitsRight
    <2>9. PeerWaits(next, table[from].c, peer', peerUnsent')
      BY <2>3, <2>4 DEF PeerWaits
    <2>10. Leaves(fd, from :> next, table)
      BY <1>4, <2>4
    <2> HIDE DEF table
    <2> QED
      BY <1>1, <1>2, <2>2, <2>4, <2>5, <2>6, <2>8, <2>9, <2>10, OneKeeps
  <1>5. ASSUME NEW n \in Int, More(fd, h, n)
        PROVE  ServerInv'
    BY <1>1, <1>2, <1>5, MoreKeeps
  <1>6. CASE Killed
    BY <1>1, <1>2, <1>6, DownKeeps
  <1>7. ASSUME NEW code \in Status, Answer(fd, h, code)
        PROVE  ServerInv'
    BY <1>1, <1>2, <1>3, <1>7, AnswerKeeps
  <1>8. {502, 503} \subseteq Status /\ {0, 1} \subseteq Int
    BY DEF Status
  <1>9. \/ More(fd, h, 1) \/ More(fd, h, 0) \/ Killed
        \/ Leaves(fd, next.from :> next, table)
        \/ \E code \in {502, 503} : Answer(fd, h, code)
    BY ZenonT(60) DEF WritePeer
  <1> HIDE DEF next, table, h
  <1> QED
    BY <1>4, <1>5, <1>6, <1>7, <1>8, <1>9

\* One read of an answer.
LEMMA ReadPeerKeeps ==
    ASSUME ServerInv, NEW fd \in Fds, NEW ev, ReadPeer(fd, ev)
    PROVE  ServerInv'
  <1> DEFINE h == handlers[fd]
             c == endpoint[fd].c
  <1>1. /\ Takes(fd, ev) /\ h.at \in {"from_cgi", "from_proxy"}
        /\ UNCHANGED <<leaked, clients, peer, peerUnsent>>
    BY DEF ReadPeer
  <1>2. PeersKept /\ leaked' = leaked /\ h.at # "accept"
    BY <1>1 DEF PeersKept, ServerInv, Environment, Ready, clients
  <1>3. ASSUME NEW n \in Int, More(fd, h, n)
        PROVE  ServerInv'
    BY <1>1, <1>2, <1>3, MoreKeeps
  <1>4. CASE Aborts
    BY <1>1, <1>2, <1>4, DownKeeps
  <1>5. ASSUME NEW code \in Status, Answer(fd, h, code)
        PROVE  ServerInv'
    <2>1. h \in Held
      BY <1>1, <1>2, Served
    <2> QED
      BY <1>1, <1>2, <1>5, <2>1, AnswerKeeps
  <1>6. {200, 502, 503} \subseteq Status /\ 0 \in Int /\ \A n \in 1..peerUnread[c] : n \in Int
    BY DEF Status
  <1>7. \/ More(fd, h, 0) \/ Aborts
        \/ \E n \in 1..peerUnread[c] : More(fd, h, n)
        \/ \E code \in {200, 502, 503} : Answer(fd, h, code)
    <2> DEFINE failure == IF h.at = "from_cgi" THEN 503 ELSE 502
    <2>1. \/ More(fd, h, 0) \/ Aborts
          \/ \E n \in 1..peerUnread[c] : More(fd, h, n)
          \/ Answer(fd, h, 200) \/ Answer(fd, h, failure)
      BY Zenon DEF ReadPeer
    <2>2. failure \in {200, 502, 503} /\ 200 \in {200, 502, 503}
      OBVIOUS
    <2> HIDE DEF failure
    <2> QED
      BY <2>1, <2>2
  <1> HIDE DEF h
  <1> QED
    BY <1>3, <1>4, <1>5, <1>6, <1>7

\* One write of a response.
LEMMA WriteResponseKeeps ==
    ASSUME ServerInv, NEW fd \in Fds, NEW ev, WriteResponse(fd, ev)
    PROVE  ServerInv'
  <1> DEFINE h == handlers[fd]
             c == endpoint[fd].c
  <1>1. /\ Takes(fd, ev) /\ h.at = "response" /\ leaked' = leaked /\ UNCHANGED peers
    BY DEF WriteResponse
  <1>2. PeersKept /\ h.at # "accept"
    <2>1. \/ UNCHANGED client \/ UNCHANGED <<client, reply>>
          \/ client[c] = "fin" /\ client' = [client EXCEPT ![c] = "reset"]
      BY Zenon DEF WriteResponse
    <2>2. client \in [Clients -> {"new", "backlog", "open", "fin", "reset"}]
          /\ \A d \in Clients \ Rude : client[d] \notin {"fin", "reset"}
      BY DEF ServerInv, Environment
    <2>3. \/ client' = client
          \/ c \notin Clients \ Rude /\ client' = [client EXCEPT ![c] = "reset"]
      BY <2>1, <2>2
    <2>4. client' \in [Clients -> {"new", "backlog", "open", "fin", "reset"}]
          /\ \A d \in Clients \ Rude : client'[d] \notin {"fin", "reset"}
      <3> HIDE DEF c
      <3> QED
        BY <2>2, <2>3
    <2> QED
      BY <1>1, <2>4 DEF PeersKept, ServerInv, Environment, Ready, peers
  <1>3. ASSUME NEW n \in Int, More(fd, h, n)
        PROVE  ServerInv'
    BY <1>1, <1>2, <1>3, MoreKeeps
  <1>4. CASE Ends(fd, h)
    BY <1>1, <1>2, <1>4, EndsKeeps
  <1>5. CASE Killed
    BY <1>1, <1>2, <1>5, DownKeeps
  <1>6. More(fd, h, 1) \/ More(fd, h, 0) \/ Ends(fd, h) \/ Killed
    BY Zenon DEF WriteResponse
  <1> HIDE DEF h
  <1> QED
    BY <1>3, <1>4, <1>5, <1>6

-----------------------------------------------------------------------------
(* The loop, clients and peers.                                             *)

\* epoll_wait() reports what is registered, and each descriptor once.
LEMMA BlockKeeps ==
    ASSUME ServerInv, Block
    PROVE  ServerInv'
  <1>1. PICK must \in SUBSET interest, may \in SUBSET interest :
           batch' = {<<fd, EventOf(fd)>> : fd \in must \cup may}
    BY Zenon DEF Block
  <1>2. /\ UNCHANGED <<limit, interest, handlers, endpoint, leaked, clients, peers>>
        /\ lpc' = "serve"
    BY DEF Block
  <1>3. BatchInv'
    BY <1>1, <1>2 DEF BatchInv
  <1>4. Tables' /\ Accounted'
    BY <1>2 DEF ServerInv, Tables, Accounted
  <1>5. Environment' /\ PeersWait'
    BY <1>2 DEF ServerInv, Environment, PeersWait, clients, peers
  <1> QED
    BY <1>3, <1>4, <1>5 DEF ServerInv

\* The batch is at its end: every event in it was still registered.
LEMMA EndBatchKeeps ==
    ASSUME ServerInv, EndBatch
    PROVE  ServerInv' /\ lpc' = "block"
  <1>1. /\ UNCHANGED <<limit, batch, interest, handlers, endpoint, leaked, clients, peers>>
        /\ lpc' = IF batch = {} THEN "block" ELSE "threw"
        /\ \A e \in batch : e[1] \notin interest \cap DOMAIN handlers
    BY DEF EndBatch
  <1>2. batch = {}
    BY <1>1 DEF ServerInv, Tables, BatchInv
  <1>3. lpc' = "block" /\ BatchInv'
    BY <1>1, <1>2 DEF BatchInv
  <1>4. Tables' /\ Accounted'
    BY <1>1, <1>3 DEF ServerInv, Tables, Accounted
  <1>5. Environment' /\ PeersWait'
    BY <1>1 DEF ServerInv, Environment, PeersWait, clients, peers
  <1> QED
    BY <1>3, <1>4, <1>5 DEF ServerInv

\* Clients that are not rude do not hang up.
LEMMA ClientKeeps ==
    ASSUME ServerInv, NEW c \in Clients, Connect(c) \/ SendPart(c) \/ HangUp(c)
    PROVE  ServerInv'
  <1>1. UNCHANGED <<server, peers>>
    BY DEF Connect, SendPart, HangUp
  <1>2. \/ client' = client
        \/ client' = [client EXCEPT ![c] = "backlog"]
        \/ c \in Rude /\ client' = [client EXCEPT ![c] = "fin"]
        \/ c \in Rude /\ client' = [client EXCEPT ![c] = "reset"]
    BY DEF Connect, SendPart, HangUp
  <1>3. Environment'
    BY <1>1, <1>2 DEF ServerInv, Environment, server, peers
  <1>4. Tables' /\ Accounted' /\ BatchInv' /\ PeersWait'
    BY <1>1 DEF ServerInv, Tables, Accounted, BatchInv, PeersWait, server, peers
  <1> QED
    BY <1>3, <1>4 DEF ServerInv

\* Peers that are not flaky wait for their request.
LEMMA PeerKeeps ==
    ASSUME ServerInv, NEW c \in Clients, PeerSend(c) \/ PeerLeave(c)
    PROVE  ServerInv'
  <1>1. UNCHANGED <<server, clients>>
    BY DEF PeerSend, PeerLeave
  <1>2. Environment'
    BY <1>1 DEF ServerInv, Environment, server, clients, PeerSend, PeerLeave
  <1>3. Tables' /\ Accounted' /\ BatchInv'
    BY <1>1 DEF ServerInv, Tables, Accounted, BatchInv, server
  <1>4. PeersWait'
    <2> SUFFICES ASSUME NEW fd \in interest, handlers[fd].at \in {"to_cgi", "to_proxy"},
                        endpoint[fd].c \notin Flaky
                 PROVE  Ready(endpoint[fd].c, peer', peerUnsent')
      BY <1>1 DEF PeersWait, PeerWaits, server
    <2> DEFINE d == endpoint[fd].c
    <2>1. /\ d \in Clients /\ handlers[fd].sock # NoFd
          /\ endpoint[handlers[fd].sock] = [kind |-> "client", c |-> d]
      BY DEF ServerInv, Tables, WaitsRight
    <2>2. Ready(d, peer, peerUnsent)
      BY DEF ServerInv, PeersWait, PeerWaits
    <2>3. d # c
      <3> SUFFICES ASSUME d = c PROVE FALSE
        OBVIOUS
      <3>1. handlers[fd] \in Continuation(c)
        BY <2>1 DEF Continuation, ServerInv, Tables
      <3>2. Running => Awaited(c, Asking) /\ Awaited(c, Asking \cup Answering)
        BY <3>1 DEF Awaited, Asking
      <3>3. ~ PeerSend(c)
        BY <3>2 DEF PeerSend, Awaited
      <3>4. ~ PeerLeave(c)
        BY <2>2, <3>2, ServerAssumption DEF PeerLeave, Ready
      <3> QED
        BY <3>3, <3>4
    <2>4. peer'[d] = peer[d] /\ peerUnsent'[d] = peerUnsent[d]
      BY <2>1, <2>3 DEF ServerInv, Environment, PeerSend, PeerLeave
    <2> QED
      BY <2>2, <2>4 DEF Ready
  <1> QED
    BY <1>2, <1>3, <1>4 DEF ServerInv

-----------------------------------------------------------------------------
(* The theorems.                                                            *)

\* The server starts with its accounts in order.
LEMMA InitServer == Init => ServerInv
  <1> SUFFICES ASSUME Init PROVE ServerInv
    OBVIOUS
  <1>1. /\ limit \in Limits /\ lpc = "block" /\ batch = {} /\ interest = {Acceptor}
        /\ handlers = Acceptor :> Accepting /\ leaked = {}
        /\ endpoint = Acceptor :> [kind |-> "acceptor", c |-> NoClient]
        /\ client = [c \in Clients |-> "new"] /\ peer = [c \in Clients |-> "none"]
        /\ peerUnsent = [c \in Clients |-> 0]
    BY DEF Init
  <1>2. DOMAIN handlers = {Acceptor} /\ handlers[Acceptor] = Accepting
    BY <1>1 DEF :>
  <1>3. DOMAIN endpoint = {Acceptor}
    BY <1>1 DEF :>
  <1>4. Owns(handlers, Acceptor) = {Acceptor}
    BY DEF Owns
  <1>5. Accepting \in Held /\ Accepting.at = "accept"
    BY AcceptingHeld
  <1>6. Acceptor \in Fds
    <2>1. limit \in Nat /\ limit >= 1
      BY <1>1, ServerAssumption
    <2> QED
      BY <1>1, <2>1 DEF Fds, Acceptor
  <1>7. Tables
    <2>1. WaitsRight(Accepting, Acceptor, endpoint)
      BY <1>5, <1>6 DEF WaitsRight
    <2> QED
      BY <1>1, <1>2, <1>5, <2>1 DEF Tables
  <1>8. Accounted
    BY <1>1, <1>3, <1>4 DEF Accounted
  <1>9. BatchInv /\ Environment
    BY <1>1 DEF BatchInv, Environment
  <1>10. PeersWait
    BY <1>1, <1>2, <1>5 DEF PeersWait, PeerWaits
  <1> QED
    BY <1>7, <1>8, <1>9, <1>10 DEF ServerInv

\* Every step keeps them.
LEMMA NextKeepsServer == ServerInv /\ [Next]_vars => ServerInv'
  <1> SUFFICES ASSUME ServerInv, [Next]_vars PROVE ServerInv'
    OBVIOUS
  <1>1. CASE UNCHANGED vars
    <2>1. Tables' /\ Accounted' /\ BatchInv'
      BY <1>1 DEF ServerInv, Tables, Accounted, BatchInv, vars
    <2>2. Environment' /\ PeersWait'
      BY <1>1 DEF ServerInv, Environment, PeersWait, vars
    <2> QED
      BY <2>1, <2>2 DEF ServerInv
  <1>2. ASSUME NEW fd \in Fds, NEW ev \in Events, Serve(fd, ev)
        PROVE  ServerInv'
    BY <1>2, AcceptKeeps, ReadRequestKeeps, WritePeerKeeps, ReadPeerKeeps, WriteResponseKeeps
       DEF Serve
  <1>3. ASSUME NEW c \in Clients,
               Connect(c) \/ SendPart(c) \/ HangUp(c) \/ PeerSend(c) \/ PeerLeave(c)
        PROVE  ServerInv'
    BY <1>3, ClientKeeps, PeerKeeps
  <1> QED
    BY <1>1, <1>2, <1>3, BlockKeeps, EndBatchKeeps DEF Next, Serve

\* Continuations, descriptors, events and peers fit together in every reachable
\* state: the inductive basis of what follows.
THEOREM ServerCorrect == Spec => []ServerInv
  BY InitServer, NextKeepsServer, PTL DEF Spec

\* With any clients, rude or not, and any limit on descriptors, none is lost but
\* by a connect() that failed, none has two owners, and every pipeline waits.
THEOREM DescriptorsAccountedCorrect == Spec => []DescriptorsAccounted
  <1>1. ServerInv => DescriptorsAccounted
    <2> SUFFICES ASSUME ServerInv PROVE DescriptorsAccounted
      OBVIOUS
    <2>1. interest = DOMAIN handlers /\ Accounted
      BY DEF ServerInv, Tables
    <2> QED
      BY <2>1 DEF DescriptorsAccounted, Accounted, Owns
  <1> QED
    BY <1>1, ServerCorrect, PTL

\* What ends a pipeline or goes on with it does not end the process.
LEMMA LeavesRuns ==
    ASSUME NEW fd, NEW new, NEW table, Leaves(fd, new, table)
    PROVE  lpc' \in {"serve", "threw"}
  BY DEF Leaves

LEMMA GoesOn ==
    /\ \A fd, h : Ends(fd, h) => lpc' \in {"serve", "threw"}
    /\ \A fd, h, n : More(fd, h, n) => lpc' \in {"serve", "threw"}
    /\ \A fd, h, code : Answer(fd, h, code) => lpc' \in {"serve", "threw"}
  BY LeavesRuns DEF Ends, More, Answer

\* Aborts and Killed are reached on behalf of the rude, the flaky and the
\* misread only.
LEMMA DownServing ==
    ASSUME ServerInv, NEW fd \in Fds, NEW ev, Serve(fd, ev), lpc' \in {"aborted", "killed"}
    PROVE  endpoint[fd].c \in Rude \cup Flaky \cup Misread
  <1> DEFINE h == handlers[fd]
             c == endpoint[fd].c
  <1>1. Takes(fd, ev)
    BY DEF Serve, Accept, ReadRequest, WritePeer, ReadPeer, WriteResponse
  <1>2. h.at # "accept" => c \in Clients /\ PeerWaits(h, c, peer, peerUnsent)
    BY <1>1, Served
  <1>3. ~ Accept(fd, ev)
    BY LeavesRuns DEF Accept
  <1>4. CASE ReadRequest(fd, ev)
    <2> DEFINE asks == [h EXCEPT !.request = c]
    <2>1. \/ Ends(fd, h) \/ \E n : More(fd, h, n)
          \/ Dispatch(fd, asks, c)
          \/ c \in Misread
      BY Zenon, <1>4 DEF ReadRequest
    <2> HIDE DEF asks, h, c
    <2>2. ~ StartCgi(fd, asks, c) /\ ~ StartProxy(fd, asks, c)
      BY LeavesRuns, GoesOn DEF StartCgi, StartProxy
    <2>3. ~ Dispatch(fd, asks, c)
      BY <2>2, GoesOn DEF Dispatch
    <2> QED
      BY <2>1, <2>3, GoesOn DEF c
  <1>5. CASE WritePeer(fd, ev)
    <2>1. \/ \E n : More(fd, h, n)
          \/ \E f, new, table : Leaves(f, new, table)
          \/ peer[c] = "gone"
      BY Zenon, <1>5 DEF WritePeer
    <2>2. peer[c] = "gone"
      BY <2>1, GoesOn, LeavesRuns
    <2>3. h.at \in {"to_cgi", "to_proxy"}
      BY <1>5 DEF WritePeer
    <2> QED
      BY <1>2, <2>2, <2>3 DEF PeerWaits, Ready
  <1>6. CASE ReadPeer(fd, ev)
    <2>1. \/ \E n : More(fd, h, n)
          \/ \E code : Answer(fd, h, code)
          \/ c \in Misread
      BY Zenon, <1>6 DEF ReadPeer
    <2> QED
      BY <2>1, GoesOn
  <1>7. CASE WriteResponse(fd, ev)
    <2>1. \/ \E n : More(fd, h, n)
          \/ Ends(fd, h)
          \/ client[c] = "reset"
      BY Zenon, <1>7 DEF WriteResponse
    <2>2. client[c] = "reset" /\ h.at = "response"
      BY <1>7, <2>1, GoesOn DEF WriteResponse
    <2> QED
      BY <1>2, <2>2 DEF ServerInv, Environment
  <1> QED
    BY <1>3, <1>4, <1>5, <1>6, <1>7 DEF Serve

\* The loop never throws, and the process goes down only while it serves the
\* connection of a rude client, of a flaky peer, or of one whose request or
\* answer is misread.
THEOREM DownForACauseCorrect == Spec => DownForACause
  <1> DEFINE Cause == Running /\ ~ Running' =>
                        /\ lpc' # "threw"
                        /\ \E e \in batch \ batch' : endpoint[e[1]].c \in Rude \cup Flaky \cup Misread
  <1>1. ServerInv /\ [Next]_vars => Cause
    <2> SUFFICES ASSUME ServerInv, [Next]_vars, Running, ~ Running'
                 PROVE  /\ lpc' # "threw"
                        /\ \E e \in batch \ batch' : endpoint[e[1]].c \in Rude \cup Flaky \cup Misread
      OBVIOUS
    <2>1. lpc' \in {"aborted", "killed"}
      BY NextKeepsServer DEF ServerInv, Tables, Running
    <2>2. \E fd \in Fds, ev \in Events : Serve(fd, ev)
      <3>1. lpc' # lpc
        BY DEF Running
      <3>2. \A c \in Clients : ~ (\/ Connect(c) \/ SendPart(c) \/ HangUp(c)
                                  \/ PeerSend(c) \/ PeerLeave(c))
        BY <3>1 DEF Connect, SendPart, HangUp, PeerSend, PeerLeave, server
      <3>3. ~ Block /\ ~ EndBatch /\ ~ UNCHANGED vars
        BY <2>1, <3>1, EndBatchKeeps DEF Block, vars
      <3> QED
        BY <3>2, <3>3 DEF Next, Serve
    <2>3. PICK fd \in Fds, ev \in Events : Serve(fd, ev)
      BY <2>2
    <2>4. <<fd, ev>> \in batch \ batch'
      BY <2>3 DEF Serve, Accept, ReadRequest, WritePeer, ReadPeer, WriteResponse, Takes
    <2>5. endpoint[fd].c \in Rude \cup Flaky \cup Misread
      BY <2>1, <2>3, DownServing
    <2> QED
      BY <2>1, <2>4, <2>5
  <1> QED
    BY <1>1, ServerCorrect, PTL DEF Spec, DownForACause

-----------------------------------------------------------------------------
(* What clients receive.                                                    *)

\* What a continuation has of its client's request, and has sent of the response.
SaysRight(h, c, said) ==
    /\ h.at \notin {"accept", "request"} => h.request = c
    /\ h.at # "response" => said[c] = <<>>
    /\ h.at = "response" =>
          /\ h.left >= 1 /\ h.left <= Units - Len(said[c])
          /\ c \notin Rude => h.left = Units - Len(said[c])
          /\ \A i \in 1..Len(said[c]) : said[c][i] = <<h.status, c>>

\* A client has one connection, after it was accepted.
OneConnection(table, is) ==
    /\ \A f \in DOMAIN table : table[f].kind = "client" =>
          table[f].c \in Clients /\ is[table[f].c] \notin {"new", "backlog"}
    /\ \A f, g \in DOMAIN table :
          table[f].kind = "client" /\ table[g].kind = "client" /\ table[f].c = table[g].c
             => f = g

\* What a client has received is of one response, and its own.
OneResponse(parts, c) ==
    /\ parts \in Seq((Status \cup {0}) \X Clients) /\ Len(parts) <= Units
    /\ \A i \in 1..Len(parts) : parts[i][2] = c /\ parts[i] = parts[1]

\* The inductive invariant about what clients receive, given ServerInv.
ReplyInv ==
    /\ OneConnection(endpoint, client)
    /\ handlers[Acceptor].sock = NoFd
    /\ \A fd \in interest \ {Acceptor} : SaysRight(handlers[fd], endpoint[fd].c, reply)
    /\ DOMAIN reply = Clients /\ \A c \in Clients : OneResponse(reply[c], c)
    /\ \A c \in Clients : client[c] \in {"new", "backlog"} => reply[c] = <<>>
    /\ \A c \in Clients \ (Rude \cup Misread) : client[c] = "open" /\ Len(reply[c]) < Units =>
          \E fd \in interest \ {Acceptor} : endpoint[fd].c = c

\* What a step on behalf of client c may do to clients and replies.
SaysOn(c) ==
    /\ DOMAIN reply' = Clients
    /\ \A d \in Clients \ {c} : reply'[d] = reply[d] /\ client'[d] = client[d]
    /\ OneResponse(reply'[c], c)
    /\ client'[c] \in {client[c], "reset"}

\* Continuations that wait at the same time have different clients.
LEMMA OthersClients ==
    ASSUME ServerInv, ReplyInv, NEW f \in interest \ {Acceptor}, NEW g \in interest \ {Acceptor},
           endpoint[f].c = endpoint[g].c
    PROVE  f = g
  <1>1. ASSUME NEW x \in interest \ {Acceptor}
        PROVE  /\ handlers[x].sock \in Owns(handlers, x) /\ handlers[x].sock \in DOMAIN endpoint
               /\ endpoint[handlers[x].sock].kind = "client"
               /\ endpoint[handlers[x].sock].c = endpoint[x].c
    <2>1. WaitsRight(handlers[x], x, endpoint)
      BY DEF ServerInv, Tables
    <2>2. handlers[x].sock \in Owns(handlers, x)
      BY <2>1 DEF WaitsRight, Owns, Captured
    <2>3. endpoint[handlers[x].sock] = [kind |-> "client", c |-> endpoint[x].c]
      BY <2>1 DEF WaitsRight
    <2>4. /\ endpoint[handlers[x].sock].kind = "client"
          /\ endpoint[handlers[x].sock].c = endpoint[x].c
      BY <2>3
    <2> QED
      BY <2>2, <2>4, FreeNumbers
  <1>2. /\ endpoint[handlers[f].sock].kind = "client" /\ endpoint[handlers[g].sock].kind = "client"
        /\ endpoint[handlers[f].sock].c = endpoint[handlers[g].sock].c
    BY <1>1
  <1>3. handlers[f].sock = handlers[g].sock
    BY <1>1, <1>2 DEF ReplyInv, OneConnection
  <1> QED
    BY <1>1, <1>3 DEF ServerInv, Accounted

\* A handler that registers only what serves its client, right, keeps what the
\* others are to receive.
LEMMA LeavesSays ==
    ASSUME ServerInv, ServerInv', ReplyInv, NEW fd \in Fds, NEW ev, Takes(fd, ev),
           handlers[fd].at # "accept", NEW new, NEW table, Leaves(fd, new, table),
           NEW c, c = endpoint[fd].c, SaysOn(c),
           \A f \in DOMAIN new : table[f].c = c /\ SaysRight(new[f], c, reply'),
           \A f \in DOMAIN table : table[f].kind = "client" => f \in DOMAIN endpoint,
           \A f \in DOMAIN endpoint \cap DOMAIN table : table[f] = endpoint[f],
           c \notin Rude \cup Misread /\ client'[c] = "open" /\ Len(reply'[c]) < Units
              => DOMAIN new # {}
    PROVE  ReplyInv'
  <1> DEFINE others == interest \ {fd}
             news == DOMAIN new
  <1>1. fd \in interest /\ fd # Acceptor /\ c \in Clients /\ Acceptor \in others
    BY Served DEF ServerInv, Accounted
  <1>2. /\ interest' = others \cup news /\ endpoint' = table /\ news \cap others = {}
    BY DEF Leaves, ServerInv, Tables
  <1>3. /\ \A f \in news : handlers'[f] = new[f]
        /\ \A f \in others : handlers'[f] = handlers[f]
    BY <1>2, AfterLeaves
  <1>4. \A f \in others : f \in DOMAIN endpoint /\ f \in DOMAIN table /\ table[f] = endpoint[f]
    <2>1. \A f \in others : f \in DOMAIN endpoint
      BY DEF ServerInv, Accounted
    <2>2. \A f \in others : f \in DOMAIN endpoint'
      BY <1>2 DEF ServerInv, Accounted
    <2> QED
      BY <1>2, <2>1, <2>2
  <1>5. client[c] \notin {"new", "backlog"}
    <2>1. /\ handlers[fd].sock \in DOMAIN endpoint
          /\ endpoint[handlers[fd].sock] = [kind |-> "client", c |-> c]
      BY Served
    <2>2. /\ endpoint[handlers[fd].sock].kind = "client"
          /\ endpoint[handlers[fd].sock].c = c
      BY <2>1
    <2> QED
      BY <2>1, <2>2 DEF ReplyInv, OneConnection
  <1>6. OneConnection(table, client')
    <2>1. ASSUME NEW f \in DOMAIN table, table[f].kind = "client"
          PROVE  /\ f \in DOMAIN endpoint /\ endpoint[f] = table[f] /\ table[f].c \in Clients
                 /\ client'[table[f].c] \notin {"new", "backlog"}
      <3>1. f \in DOMAIN endpoint /\ endpoint[f] = table[f]
        BY <2>1
      <3>2. table[f].c \in Clients /\ client[table[f].c] \notin {"new", "backlog"}
        BY <2>1, <3>1 DEF ReplyInv, OneConnection
      <3>3. CASE table[f].c = c
        BY <1>5, <3>1, <3>2, <3>3 DEF SaysOn
      <3>4. CASE table[f].c # c
        BY <3>1, <3>2, <3>4 DEF SaysOn
      <3> QED
        BY <3>3, <3>4
    <2>2. ASSUME NEW f \in DOMAIN table, NEW g \in DOMAIN table,
                 table[f].kind = "client", table[g].kind = "client", table[f].c = table[g].c
          PROVE  f = g
      BY <2>1, <2>2 DEF ReplyInv, OneConnection
    <2> QED
      BY <2>1, <2>2 DEF OneConnection
  <1>7. handlers'[Acceptor].sock = NoFd
    BY <1>1, <1>3 DEF ReplyInv
  <1>8. \A f \in others \ {Acceptor} : endpoint[f].c \in Clients /\ endpoint[f].c # c
    BY <1>1, OthersClients DEF ServerInv, Tables, WaitsRight
  <1>9. ASSUME NEW f \in interest' \ {Acceptor}
        PROVE  SaysRight(handlers'[f], table[f].c, reply')
    <2>1. CASE f \in news
      BY <1>3, <2>1
    <2>2. CASE f \in others
      <3>1. SaysRight(handlers[f], endpoint[f].c, reply)
        BY <2>2 DEF ReplyInv
      <3>2. reply'[endpoint[f].c] = reply[endpoint[f].c]
        BY <1>8, <2>2 DEF SaysOn
      <3> QED
        BY <1>3, <1>4, <2>2, <3>1, <3>2 DEF SaysRight
    <2> QED
      BY <1>2, <2>1, <2>2
  <1>10. \A d \in Clients : OneResponse(reply'[d], d)
    <2>1. \A d \in Clients \ {c} : OneResponse(reply'[d], d)
      BY DEF ReplyInv, SaysOn
    <2> QED
      BY <2>1 DEF SaysOn
  <1>11. \A d \in Clients : client'[d] \in {"new", "backlog"} => reply'[d] = <<>>
    BY <1>5 DEF ReplyInv, SaysOn
  <1>12. ASSUME NEW d \in Clients \ (Rude \cup Misread), client'[d] = "open",
                Len(reply'[d]) < Units
         PROVE  \E f \in interest' \ {Acceptor} : table[f].c = d
    <2>1. CASE d = c
      <3>1. PICK f \in news : table[f].c = c
        BY <1>12, <2>1
      <3>2. f # Acceptor
        BY <1>1, <1>2
      <3> QED
        BY <1>2, <2>1, <3>1, <3>2
    <2>2. CASE d # c
      <3>1. client[d] = "open" /\ Len(reply[d]) < Units
        BY <1>12, <2>2 DEF SaysOn
      <3>2. PICK f \in interest \ {Acceptor} : endpoint[f].c = d
        BY <3>1 DEF ReplyInv
      <3>3. f \in others
        BY <2>2, <3>2
      <3> QED
        BY <1>2, <1>4, <3>2, <3>3
    <2> QED
      BY <2>1, <2>2
  <1> QED
    BY <1>2, <1>6, <1>7, <1>9, <1>10, <1>11, <1>12 DEF ReplyInv, SaysOn

\* The pipeline ends.
LEMMA EndsSays ==
    ASSUME ServerInv, ServerInv', ReplyInv, NEW fd \in Fds, NEW ev, Takes(fd, ev),
           handlers[fd].at # "accept", NEW h, Ends(fd, h), SaysOn(endpoint[fd].c),
           \/ endpoint[fd].c \in Rude \cup Misread
           \/ client'[endpoint[fd].c] # "open"
           \/ Len(reply'[endpoint[fd].c]) >= Units
    PROVE  ReplyInv'
  <1> DEFINE c == endpoint[fd].c
             table == Without(endpoint, Captured(h))
             new == <<>>
  <1>1. Leaves(fd, new, table) /\ DOMAIN new = {}
    BY DEF Ends
  <1>2. \A f \in DOMAIN table : f \in DOMAIN endpoint /\ table[f] = endpoint[f]
    BY DEF Without
  <1>3. ~ (c \notin Rude \cup Misread /\ client'[c] = "open" /\ Len(reply'[c]) < Units)
    <2>1. Len(reply'[c]) \in Nat /\ Units \in Nat
      BY ServerAssumption DEF SaysOn, OneResponse
    <2> QED
      BY <2>1
  <1>4. c = endpoint[fd].c
    OBVIOUS
  <1> HIDE DEF new, table, c
  <1> QED
    BY <1>1, <1>2, <1>3, <1>4, LeavesSays

\* A handler registers one continuation.
LEMMA OneSays ==
    ASSUME ServerInv, ServerInv', ReplyInv, NEW fd \in Fds, NEW ev, Takes(fd, ev),
           handlers[fd].at # "accept", NEW f, NEW h, NEW table, Leaves(fd, f :> h, table),
           SaysOn(endpoint[fd].c), table[f].c = endpoint[fd].c,
           SaysRight(h, endpoint[fd].c, reply'),
           \A x \in DOMAIN table : table[x].kind = "client" => x \in DOMAIN endpoint,
           \A x \in DOMAIN endpoint \cap DOMAIN table : table[x] = endpoint[x]
    PROVE  ReplyInv'
  <1> DEFINE new == f :> h
             c == endpoint[fd].c
  <1>1. DOMAIN new = {f} /\ new[f] = h
    BY DEF :>
  <1>2. Leaves(fd, new, table) /\ c = endpoint[fd].c
    OBVIOUS
  <1> HIDE DEF new, c
  <1> QED
    BY <1>1, <1>2, LeavesSays

\* The client of the continuation that is served has not changed.
LEMMA SaysSame ==
    ASSUME ServerInv, ReplyInv, NEW fd \in Fds, NEW ev, Takes(fd, ev),
           handlers[fd].at # "accept", client' = client, reply' = reply
    PROVE  /\ SaysOn(endpoint[fd].c)
           /\ SaysRight(handlers[fd], endpoint[fd].c, reply)
           /\ endpoint[fd].c \in Clients
  <1>1. fd \in interest \ {Acceptor} /\ endpoint[fd].c \in Clients
    BY Served
  <1> QED
    BY <1>1 DEF ReplyInv, SaysOn

\* The same is waited for again.
LEMMA MoreSays ==
    ASSUME ServerInv, ServerInv', ReplyInv, NEW fd \in Fds, NEW ev, Takes(fd, ev),
           handlers[fd].at \notin {"accept", "response"}, NEW n \in Int,
           More(fd, handlers[fd], n), client' = client, reply' = reply
    PROVE  ReplyInv'
  <1> DEFINE h == [handlers[fd] EXCEPT !.left = @ - n]
             c == endpoint[fd].c
  <1>1. h.at = handlers[fd].at /\ h.request = handlers[fd].request
    <2>1. handlers[fd] \in Held
      BY Served
    <2> QED
      BY <2>1 DEF Held
  <1>2. SaysOn(c) /\ SaysRight(handlers[fd], c, reply)
    BY SaysSame
  <1>3. SaysRight(h, c, reply')
    BY <1>1, <1>2 DEF SaysRight
  <1>4. Leaves(fd, fd :> h, endpoint)
    BY DEF More
  <1> HIDE DEF h
  <1> QED
    BY <1>2, <1>3, <1>4, OneSays

\* The fields of a response that begins.
LEMMA RespondingFields ==
    ASSUME NEW h, h.sock \in Fds, h.request \in Clients \cup {NoClient}, NEW code \in Status
    PROVE  LET r == Responding(h, code)
           IN  r.left = Units /\ r.status = code /\ r.request = h.request
  <1> DEFINE Made(g, n, s, q) == [g EXCEPT !.at = "response", !.sock = s, !.left = n,
                                           !.status = code, !.request = q]
  <1>1. ASSUME NEW g \in Held, NEW n, NEW s, NEW q
        PROVE  /\ Made(g, n, s, q).left = n /\ Made(g, n, s, q).status = code
               /\ Made(g, n, s, q).request = q
    BY DEF Held
  <1>2. Responding(h, code) = Made(Accepting, Units, h.sock, h.request)
    BY DEF Responding
  <1> HIDE DEF Made
  <1> QED
    BY <1>1, <1>2, AcceptingHeld

\* A response begins: nothing of it has been received.
LEMMA BeginsRight ==
    ASSUME NEW h, h.sock \in Fds, NEW c \in Clients, h.request = c, NEW code \in Status,
           NEW said, said[c] = <<>>
    PROVE  SaysRight(Responding(h, code), c, said)
  <1> DEFINE r == Responding(h, code)
  <1>1. r.at = "response" /\ r.left = Units /\ r.status = code /\ r.request = c
    BY RespondingHeld, RespondingFields
  <1>2. Units \in Nat /\ Units >= 1 /\ Len(said[c]) = 0
    BY ServerAssumption
  <1> HIDE DEF r
  <1>3. SaysRight(r, c, said)
    BY <1>1, <1>2 DEF SaysRight
  <1> QED
    BY <1>3 DEF r

LEMMA AnswerSays ==
    ASSUME ServerInv, ServerInv', ReplyInv, NEW fd \in Fds, NEW ev, Takes(fd, ev),
           handlers[fd].at \notin {"accept", "response"}, NEW h, h.sock = handlers[fd].sock,
           h.request = endpoint[fd].c, NEW code \in Status, Answer(fd, h, code),
           client' = client, reply' = reply
    PROVE  ReplyInv'
  <1> DEFINE r == Responding(h, code)
             s == h.sock
             c == endpoint[fd].c
             table == Without(endpoint, Captured(h) \ {s})
  <1>1. SaysOn(c) /\ reply[c] = <<>> /\ c \in Clients
    BY SaysSame DEF SaysRight
  <1>2. s \in Fds /\ s \in DOMAIN endpoint /\ endpoint[s] = [kind |-> "client", c |-> c]
    BY Served
  <1>3. \A f \in DOMAIN table : f \in DOMAIN endpoint /\ table[f] = endpoint[f]
    BY DEF Without
  <1>4. table[s].c = c
    BY <1>2 DEF Without
  <1>5. SaysRight(r, c, reply')
    BY <1>1, <1>2, BeginsRight
  <1>6. Leaves(fd, s :> r, table)
    BY DEF Answer
  <1> HIDE DEF r, s, table
  <1> QED
    BY <1>1, <1>3, <1>4, <1>5, <1>6, OneSays

\* The process ends.
LEMMA DownSays ==
    ASSUME ReplyInv, Aborts \/ Killed, client' = client, reply' = reply
    PROVE  ReplyInv'
  BY DEF Aborts, Killed, ReplyInv

\* A continuation for a peer keeps whose request it is.
LEMMA TurnedFields ==
    ASSUME NEW h \in Held, NEW a, NEW t, NEW f, NEW n
    PROVE  Turned(h, a, t, f, n).at = a /\ Turned(h, a, t, f, n).request = h.request
  BY DEF Held, Turned

\* Right for a peer, if it was read and nothing was sent.
LEMMA TurnedRight ==
    ASSUME NEW h \in Held, NEW a, a \notin {"accept", "request", "response"},
           NEW t, NEW f, NEW n, NEW c, h.request = c, NEW said, said[c] = <<>>
    PROVE  SaysRight(Turned(h, a, t, f, n), c, said)
  BY TurnedFields DEF SaysRight

\* accept(): the client had no connection and has received nothing.
LEMMA AcceptSays ==
    ASSUME ServerInv, ServerInv', ReplyInv, NEW fd \in Fds, NEW ev, Accept(fd, ev)
    PROVE  ReplyInv'
  <1> DEFINE others == interest \ {fd}
  <1>1. /\ Takes(fd, ev) /\ handlers[fd].at = "accept" /\ fd \in interest /\ reply' = reply
    BY DEF Accept, Takes
  <1>2. fd = Acceptor /\ lpc' # "threw"
    BY <1>1 DEF ServerInv, Tables, WaitsRight
  <1>3. Accepting.sock = NoFd
    BY DEF Accepting
  <1>4. \A f \in others : f \in DOMAIN endpoint
    BY DEF ServerInv, Accounted
  <1>5. \A f \in others : SaysRight(handlers[f], endpoint[f].c, reply)
    BY <1>2 DEF ReplyInv
  <1>6. CASE Free # {}
    <2> DEFINE conn == Lowest(Free)
               new == fd :> Accepting @@ conn :> Reading(conn)
    <2>1. PICK c \in Clients :
             /\ client[c] = "backlog" /\ client' = [client EXCEPT ![c] = "open"]
             /\ Leaves(fd, new, endpoint @@ (conn :> [kind |-> "client", c |-> c]))
      BY <1>6 DEF Accept
    <2> DEFINE table == endpoint @@ (conn :> [kind |-> "client", c |-> c])
    <2>2. /\ conn \in Free /\ conn \in Fds /\ conn # Acceptor /\ conn \notin DOMAIN endpoint
      BY <1>6, FreeNumbers, LowestIn DEF Free
    <2>3. DOMAIN new = {fd, conn} /\ new[fd] = Accepting /\ new[conn] = Reading(conn)
      BY <1>2, <2>2 DEF @@, :>
    <2>4. /\ DOMAIN table = DOMAIN endpoint \cup {conn}
          /\ table[conn] = [kind |-> "client", c |-> c]
          /\ \A x \in DOMAIN endpoint : table[x] = endpoint[x]
      BY <2>2 DEF @@, :>
    <2>5. table[conn].kind = "client" /\ table[conn].c = c
      BY <2>4
    <2>6. Leaves(fd, new, table)
      BY <2>1
    <2>7. Reading(conn).at = "request"
      BY <2>2, ReadingHeld
    <2> HIDE DEF new, table, conn
    <2>8. interest' = others \cup {fd, conn} /\ endpoint' = table /\ conn \notin others
      BY <1>2, <1>4, <2>2, <2>3, <2>6 DEF Leaves
    <2>9. /\ handlers'[fd] = Accepting /\ handlers'[conn] = Reading(conn)
          /\ \A f \in others : handlers'[f] = handlers[f]
      <3>1. DOMAIN new \cap (interest \ {fd}) = {}
        BY <2>3, <2>8
      <3>2. /\ \A f \in DOMAIN new : handlers'[f] = new[f]
            /\ \A f \in interest \ {fd} : handlers'[f] = handlers[f]
        BY <2>6, <3>1, AfterLeaves
      <3> QED
        BY <2>3, <3>2
    <2>10. client'[c] = "open" /\ \A d \in Clients \ {c} : client'[d] = client[d]
      BY <2>1 DEF ServerInv, Environment
    <2>11. \A f \in DOMAIN endpoint : endpoint[f].kind = "client" =>
              endpoint[f].c \in Clients \ {c} /\ client[endpoint[f].c] \notin {"new", "backlog"}
      BY <2>1 DEF ReplyInv, OneConnection
    <2>12. OneConnection(table, client')
      <3>1. ASSUME NEW f \in DOMAIN table, table[f].kind = "client"
            PROVE  table[f].c \in Clients /\ client'[table[f].c] \notin {"new", "backlog"}
        BY <2>4, <2>5, <2>10, <2>11, <3>1
      <3>2. ASSUME NEW f \in DOMAIN table, NEW g \in DOMAIN table,
                   table[f].kind = "client", table[g].kind = "client", table[f].c = table[g].c
            PROVE  f = g
        <4>1. CASE f = conn \/ g = conn
          BY <2>4, <2>5, <2>11, <3>2, <4>1
        <4>2. CASE f # conn /\ g # conn
          BY <2>4, <3>2, <4>2 DEF ReplyInv, OneConnection
        <4> QED
          BY <4>1, <4>2
      <3> QED
        BY <3>1, <3>2 DEF OneConnection
    <2>13. ASSUME NEW f \in interest' \ {Acceptor}
           PROVE  SaysRight(handlers'[f], table[f].c, reply)
      <3>1. CASE f = conn
        BY <2>1, <2>5, <2>7, <2>9, <3>1 DEF SaysRight, ReplyInv
      <3>2. CASE f \in others
        BY <1>4, <1>5, <2>4, <2>9, <3>2
      <3> QED
        BY <1>2, <2>8, <3>1, <3>2
    <2>14. \A d \in Clients : client'[d] \in {"new", "backlog"} => reply[d] = <<>>
      BY <2>10 DEF ReplyInv
    <2>15. ASSUME NEW d \in Clients \ (Rude \cup Misread), client'[d] = "open",
                  Len(reply[d]) < Units
           PROVE  \E f \in interest' \ {Acceptor} : table[f].c = d
      <3>1. CASE d = c
        BY <2>2, <2>5, <2>8, <3>1
      <3>2. CASE d # c
        <4>1. PICK f \in interest \ {Acceptor} : endpoint[f].c = d
          BY <2>10, <2>15, <3>2 DEF ReplyInv
        <4> QED
          BY <1>2, <1>4, <2>4, <2>8, <4>1
      <3> QED
        BY <3>1, <3>2
    <2> QED
      BY <1>1, <1>2, <1>3, <2>8, <2>9, <2>12, <2>13, <2>14, <2>15 DEF ReplyInv
  <1>7. CASE Free = {}
    <2> DEFINE new == fd :> Accepting
    <2>1. Leaves(fd, new, endpoint) /\ client' = client
      BY <1>7 DEF Accept
    <2>2. DOMAIN new = {fd} /\ new[fd] = Accepting
      BY DEF :>
    <2> HIDE DEF new
    <2>3. interest' = interest /\ endpoint' = endpoint
      BY <1>1, <2>1, <2>2 DEF Leaves
    <2>4. handlers'[fd] = Accepting /\ \A f \in others : handlers'[f] = handlers[f]
      BY <2>1, <2>2, AfterLeaves
    <2> QED
      BY <1>1, <1>2, <1>3, <2>1, <2>3, <2>4 DEF ReplyInv
  <1> QED
    BY <1>6, <1>7

\* Nothing has been sent to a client whose request has been read.
LEMMA DispatchSays ==
    ASSUME ServerInv, ServerInv', ReplyInv, NEW fd \in Fds, NEW ev, Takes(fd, ev),
           handlers[fd].at = "request", NEW h \in Held, Alike(h, handlers[fd]),
           h.request = endpoint[fd].c, Dispatch(fd, h, endpoint[fd].c),
           client' = client, reply' = reply
    PROVE  ReplyInv'
  <1> DEFINE c == endpoint[fd].c
  <1>1. /\ h.sock = handlers[fd].sock /\ handlers[fd].at \notin {"accept", "response"}
    BY DEF Alike
  <1>2. SaysOn(c) /\ reply[c] = <<>> /\ reply'[c] = <<>> /\ c \in Clients
    BY <1>1, SaysSame DEF SaysRight
  <1>3. ASSUME NEW code \in Status, Answer(fd, h, code)
        PROVE  ReplyInv'
    BY <1>1, <1>3, AnswerSays
  <1>6. {200, 404, 500, 502, 503} \subseteq Status
    BY DEF Status
  <1>7. ASSUME StartCgi(fd, h, c), ~ Answer(fd, h, 503)
        PROVE  ReplyInv'
    <2> DEFINE r1 == Lowest(Free)
               w1 == Lowest(Free \ {r1})
               r2 == Lowest(Free \ {r1, w1})
               next == Turned(h, "to_cgi", w1, r2, Units)
               table == endpoint @@ (w1 :> [kind |-> "cgi", c |-> c])
                                 @@ (r2 :> [kind |-> "cgi", c |-> c])
    <2>1. Cardinality(Free) >= 4 /\ Leaves(fd, w1 :> next, table)
      BY <1>7 DEF StartCgi, Turned
    <2>2. w1 \in Free
      BY <2>1, FourFree
    <2> HIDE DEF w1, r2, next
    <2>3. table[w1] = [kind |-> "cgi", c |-> c]
      BY <2>2 DEF @@, :>, Free
    <2>4. /\ \A x \in DOMAIN table : table[x] = IF x \in DOMAIN endpoint THEN endpoint[x]
                                                ELSE [kind |-> "cgi", c |-> c]
          /\ DOMAIN endpoint \subseteq DOMAIN table
      BY DEF @@, :>
    <2> HIDE DEF table
    <2>5. table[w1].c = c
      BY <2>3
    <2>6. \A x \in DOMAIN table : table[x].kind = "client" => x \in DOMAIN endpoint
      BY <2>4
    <2>7. SaysRight(next, c, reply')
      BY <1>2, TurnedRight DEF next
    <2> QED
      BY <1>1, <1>2, <2>1, <2>4, <2>5, <2>6, <2>7, OneSays
  <1>8. ASSUME StartProxy(fd, h, c), ~ Answer(fd, h, 502)
        PROVE  ReplyInv'
    <2> DEFINE up == Lowest(Free)
               next == Turned(h, "to_proxy", up, NoFd, Units)
               failed == Responding(h, 502)
               table(kind) == endpoint @@ (up :> [kind |-> kind, c |-> c])
    <2>1. Free # {} /\ \/ Leaves(fd, up :> next, table("upstream"))
                       \/ Leaves(fd, h.sock :> failed, table("failed"))
      <3>1. [h EXCEPT !.at = "to_proxy", !.to = up, !.left = Units] = next
        <4>1. h.from = NoFd
          BY Served DEF Alike, WaitsRight
        <4> HIDE DEF up
        <4> QED
          BY <4>1 DEF Turned, Held
      <3> QED
        BY <1>8, <3>1 DEF StartProxy
    <2>2. up \in Free
      BY <2>1, FreeNumbers, LowestIn
    <2> HIDE DEF up, next, failed
    <2>3. ASSUME NEW kind \in {"upstream", "failed"}
          PROVE  /\ table(kind)[up].c = c
                 /\ \A x \in DOMAIN endpoint : table(kind)[x] = endpoint[x]
                 /\ \A x \in DOMAIN table(kind) :
                       table(kind)[x].kind = "client" => x \in DOMAIN endpoint
      <3>1. /\ DOMAIN table(kind) = DOMAIN endpoint \cup {up}
            /\ table(kind)[up] = [kind |-> kind, c |-> c]
            /\ \A x \in DOMAIN endpoint : table(kind)[x] = endpoint[x]
        BY <2>2 DEF @@, :>, Free
      <3>2. table(kind)[up].c = c /\ table(kind)[up].kind # "client"
        BY <3>1
      <3> HIDE DEF table
      <3> QED
        BY <3>1, <3>2
    <2>4. SaysRight(next, c, reply')
      BY <1>2, TurnedRight DEF next
    <2>5. SaysRight(failed, c, reply') /\ h.sock \in DOMAIN endpoint
          /\ endpoint[h.sock].c = c
      <3>1. /\ h.sock \in Fds /\ h.sock \in DOMAIN endpoint
            /\ endpoint[h.sock] = [kind |-> "client", c |-> c]
        BY <1>1, Served
      <3>2. SaysRight(failed, c, reply')
        BY <1>2, <1>6, <3>1, BeginsRight DEF failed
      <3>3. endpoint[h.sock].c = c
        BY <3>1
      <3> QED
        BY <3>1, <3>2, <3>3
    <2> HIDE DEF table
    <2>6. CASE Leaves(fd, up :> next, table("upstream"))
      BY <1>1, <1>2, <2>3, <2>4, <2>6, OneSays
    <2>7. CASE Leaves(fd, h.sock :> failed, table("failed"))
      BY <1>1, <1>2, <2>3, <2>5, <2>7, OneSays
    <2> QED
      BY <2>1, <2>6, <2>7
  <1>9. \/ \E code \in {200, 404, 500} : Answer(fd, h, code)
        \/ StartCgi(fd, h, c) \/ StartProxy(fd, h, c)
    BY DEF Dispatch
  <1> QED
    BY <1>3, <1>6, <1>7, <1>8, <1>9

\* Nothing is sent before the request is read.
LEMMA ReadRequestSays ==
    ASSUME ServerInv, ServerInv', ReplyInv, NEW fd \in Fds, NEW ev, ReadRequest(fd, ev)
    PROVE  ReplyInv'
  <1> DEFINE h == handlers[fd]
             c == endpoint[fd].c
             asks == [h EXCEPT !.request = c]
  <1>1. /\ Takes(fd, ev) /\ h.at = "request" /\ h.at \notin {"accept", "response"}
        /\ client' = client /\ reply' = reply
    BY DEF ReadRequest
  <1>2. h \in Held /\ c \in Clients /\ SaysOn(c)
    BY <1>1, Served, SaysSame
  <1>3. ASSUME client[c] = "reset", Ends(fd, h)
        PROVE  ReplyInv'
    BY <1>1, <1>2, <1>3, EndsSays
  <1>4. ASSUME NEW n \in Int, More(fd, h, n)
        PROVE  ReplyInv'
    BY <1>1, <1>4, MoreSays
  <1>5. ASSUME Dispatch(fd, asks, c)
        PROVE  ReplyInv'
    <2>1. asks \in Held /\ Alike(asks, h) /\ asks.request = c
      <3>1. ASSUME NEW g \in Held, NEW d \in Clients
            PROVE  /\ [g EXCEPT !.request = d] \in Held
                   /\ Alike([g EXCEPT !.request = d], g)
                   /\ [g EXCEPT !.request = d].request = d
        BY DEF Held, Alike
      <3> HIDE DEF h, c
      <3> QED
        BY <1>2, <3>1
    <2> HIDE DEF asks
    <2> QED
      BY <1>1, <1>5, <2>1, DispatchSays
  <1>6. \/ client[c] = "reset" /\ Ends(fd, h)
        \/ More(fd, h, 0)
        \/ \E n \in 1..unread[c] : More(fd, h, n)
        \/ Dispatch(fd, asks, c)
        \/ c \in Misread /\ Refuse(fd, h)
    BY Zenon DEF ReadRequest
  <1>7. 0 \in Int /\ \A n \in 1..unread[c] : n \in Int
    OBVIOUS
  <1>8. ASSUME c \in Misread, Refuse(fd, h)
        PROVE  ReplyInv'
    <2>1. CASE Ends(fd, h)
      BY <1>1, <1>2, <1>8, <2>1, EndsSays
    <2>2. CASE Aborts
      BY <1>1, <2>2, DownSays
    <2> QED
      BY <1>8, <2>1, <2>2 DEF Refuse
  <1> HIDE DEF asks, h, c
  <1> QED
    BY <1>3, <1>4, <1>5, <1>6, <1>7, <1>8

\* A continuation goes on with its peer for the client it asked for.
LEMMA WritePeerSays ==
    ASSUME ServerInv, ServerInv', ReplyInv, NEW fd \in Fds, NEW ev, WritePeer(fd, ev)
    PROVE  ReplyInv'
  <1> DEFINE h == handlers[fd]
             c == endpoint[fd].c
             next == IF h.at = "to_cgi"
                     THEN [h EXCEPT !.at = "from_cgi", !.to = NoFd, !.left = Units]
                     ELSE [h EXCEPT !.at = "from_proxy", !.to = NoFd, !.from = h.to,
                                    !.left = Units]
             table == Without(endpoint, Captured(h) \ Captured(next))
  <1>1. /\ Takes(fd, ev) /\ h.at \in {"to_cgi", "to_proxy"}
        /\ h.at \notin {"accept", "response"} /\ client' = client /\ reply' = reply
    BY DEF WritePeer, clients
  <1>2. /\ h \in Held /\ WaitsRight(h, fd, endpoint) /\ Captured(h) \subseteq DOMAIN endpoint
        /\ Captured(h) \subseteq Fds
    BY <1>1, Served
  <1>3. SaysOn(c) /\ reply[c] = <<>> /\ h.request = c
    BY <1>1, SaysSame DEF SaysRight
  <1>4. ASSUME Leaves(fd, next.from :> next, table)
        PROVE  ReplyInv'
    <2> DEFINE at == IF h.at = "to_cgi" THEN "from_cgi" ELSE "from_proxy"
               from == IF h.at = "to_cgi" THEN h.from ELSE h.to
    <2>1. next = Turned(h, at, NoFd, from, Units)
      <3>1. ASSUME NEW g \in Held, NEW a, NEW n
            PROVE  [g EXCEPT !.at = a, !.to = NoFd, !.left = n] = Turned(g, a, NoFd, g.from, n)
        BY DEF Held, Turned
      <3>2. CASE h.at = "to_cgi"
        BY <1>2, <3>1, <3>2
      <3>3. CASE h.at # "to_cgi"
        BY <3>3 DEF Turned
      <3> QED
        BY <3>2, <3>3
    <2>2. from \in Fds /\ from # NoFd /\ from \in Captured(h) /\ endpoint[from].c = c
      BY <1>1, <1>2, FreeNumbers DEF WaitsRight, Captured
    <2>3. /\ at \in Stages /\ at \notin {"accept", "request", "response"} /\ Units \in Int
      BY ServerAssumption DEF Stages
    <2> HIDE DEF at, from, next
    <2>4. next.from = from /\ SaysRight(next, c, reply')
      BY <1>1, <1>2, <1>3, <2>1, <2>2, <2>3, TurnedToRead, TurnedRight
    <2>5. \A x \in DOMAIN table : x \in DOMAIN endpoint /\ table[x] = endpoint[x]
      BY DEF Without
    <2>6. table[from].c = c
      <3>1. from \in Captured(next)
        BY <2>2, <2>4 DEF Captured
      <3> QED
        BY <1>2, <2>2, <3>1 DEF Without
    <2>7. Leaves(fd, from :> next, table)
      BY <1>4, <2>4
    <2> HIDE DEF table, h, c
    <2>8. handlers[fd].at # "accept" /\ c = endpoint[fd].c
      BY <1>1 DEF h, c
    <2> QED
      BY <1>1, <1>3, <2>4, <2>5, <2>6, <2>7, <2>8, OneSays
  <1>5. ASSUME NEW n \in Int, More(fd, h, n)
        PROVE  ReplyInv'
    BY <1>1, <1>5, MoreSays
  <1>6. CASE Killed
    BY <1>1, <1>6, DownSays
  <1>7. ASSUME NEW code \in Status, Answer(fd, h, code)
        PROVE  ReplyInv'
    BY <1>1, <1>3, <1>7, AnswerSays
  <1>8. {502, 503} \subseteq Status /\ {0, 1} \subseteq Int
    BY DEF Status
  <1>9. \/ More(fd, h, 1) \/ More(fd, h, 0) \/ Killed
        \/ Leaves(fd, next.from :> next, table)
        \/ \E code \in {502, 503} : Answer(fd, h, code)
    BY ZenonT(60) DEF WritePeer
  <1> HIDE DEF next, table, h
  <1> QED
    BY <1>4, <1>5, <1>6, <1>7, <1>8, <1>9

\* What a peer answers goes to the client that asked.
LEMMA ReadPeerSays ==
    ASSUME ServerInv, ServerInv', ReplyInv, NEW fd \in Fds, NEW ev, ReadPeer(fd, ev)
    PROVE  ReplyInv'
  <1> DEFINE h == handlers[fd]
             c == endpoint[fd].c
  <1>1. /\ Takes(fd, ev) /\ h.at \in {"from_cgi", "from_proxy"}
        /\ h.at \notin {"accept", "response"} /\ client' = client /\ reply' = reply
    BY DEF ReadPeer, clients
  <1>2. h.request = c
    <2>1. SaysRight(h, c, reply)
      BY <1>1, SaysSame
    <2> HIDE DEF h, c
    <2> QED
      BY <1>1, <2>1 DEF SaysRight
  <1>3. ASSUME NEW n \in Int, More(fd, h, n)
        PROVE  ReplyInv'
    BY <1>1, <1>3, MoreSays
  <1>4. CASE Aborts
    BY <1>1, <1>4, DownSays
  <1>5. ASSUME NEW code \in Status, Answer(fd, h, code)
        PROVE  ReplyInv'
    BY <1>1, <1>2, <1>5, AnswerSays
  <1>6. {200, 502, 503} \subseteq Status /\ 0 \in Int /\ \A n \in 1..peerUnread[c] : n \in Int
    BY DEF Status
  <1>7. \/ More(fd, h, 0) \/ Aborts
        \/ \E n \in 1..peerUnread[c] : More(fd, h, n)
        \/ \E code \in {200, 502, 503} : Answer(fd, h, code)
    <2> DEFINE failure == IF h.at = "from_cgi" THEN 503 ELSE 502
    <2>1. \/ More(fd, h, 0) \/ Aborts
          \/ \E n \in 1..peerUnread[c] : More(fd, h, n)
          \/ Answer(fd, h, 200) \/ Answer(fd, h, failure)
      BY Zenon DEF ReadPeer
    <2>2. failure \in {200, 502, 503} /\ 200 \in {200, 502, 503}
      OBVIOUS
    <2> HIDE DEF failure
    <2> QED
      BY <2>1, <2>2
  <1> HIDE DEF h
  <1> QED
    BY <1>3, <1>4, <1>5, <1>6, <1>7

\* The same response, with less left of it.
LEMMA LessLeft ==
    ASSUME NEW g \in Held, NEW n \in Int
    PROVE  LET r == [g EXCEPT !.left = @ - n]
           IN  r.at = g.at /\ r.status = g.status /\ r.request = g.request /\ r.left = g.left - n
  BY DEF Held

\* One part more of a response that is one's own.
LEMMA PartSaid ==
    ASSUME NEW c \in Clients, NEW said, OneResponse(said, c), Len(said) < Units,
           NEW p \in Status \cup {0}, \A i \in 1..Len(said) : said[i] = <<p, c>>
    PROVE  /\ OneResponse(Append(said, <<p, c>>), c)
           /\ Len(Append(said, <<p, c>>)) = Len(said) + 1
           /\ \A i \in 1..Len(Append(said, <<p, c>>)) : Append(said, <<p, c>>)[i] = <<p, c>>
  <1> DEFINE part == <<p, c>>
             more == Append(said, part)
  <1>1. part \in (Status \cup {0}) \X Clients /\ part[2] = c
    OBVIOUS
  <1>2. /\ said \in Seq((Status \cup {0}) \X Clients) /\ Units \in Nat /\ Len(said) \in Nat
    BY ServerAssumption DEF OneResponse
  <1>3. \A i \in 1..Len(said) : said[i] = part
    OBVIOUS
  <1> HIDE DEF part
  <1>4. /\ more \in Seq((Status \cup {0}) \X Clients) /\ Len(more) = Len(said) + 1
        /\ \A i \in 1..Len(more) : more[i] = part
    BY <1>1, <1>2, <1>3
  <1> HIDE DEF more
  <1>5. OneResponse(more, c)
    BY <1>1, <1>2, <1>4 DEF OneResponse
  <1> QED
    BY <1>4, <1>5 DEF more, part

\* A response goes on, and less is left of it.
LEMMA SendsOn ==
    ASSUME ServerInv, ServerInv', ReplyInv, NEW fd \in Fds, NEW ev, Takes(fd, ev),
           handlers[fd].at = "response", NEW n \in Int, More(fd, handlers[fd], n),
           NEW c, c = endpoint[fd].c, SaysOn(c),
           handlers[fd].left - n >= 1, handlers[fd].left - n <= Units - Len(reply'[c]),
           c \notin Rude => handlers[fd].left - n = Units - Len(reply'[c]),
           \A i \in 1..Len(reply'[c]) : reply'[c][i] = <<handlers[fd].status, c>>
    PROVE  ReplyInv'
  <1> DEFINE h == handlers[fd]
             r == [h EXCEPT !.left = @ - n]
  <1>1. h \in Held /\ h.request = c
    BY Served, SaysSame DEF ReplyInv, SaysRight
  <1>2. r.at = "response" /\ r.status = h.status /\ r.request = c /\ r.left = h.left - n
    BY <1>1, LessLeft
  <1>3. Leaves(fd, fd :> r, endpoint)
    BY DEF More
  <1> HIDE DEF r
  <1>4. SaysRight(r, c, reply')
    BY <1>2 DEF SaysRight
  <1> QED
    BY <1>3, <1>4, OneSays

\* One write of a response: one part more, to the client it is for.
LEMMA WriteResponseSays ==
    ASSUME ServerInv, ServerInv', ReplyInv, NEW fd \in Fds, NEW ev, WriteResponse(fd, ev)
    PROVE  ReplyInv'
  <1> DEFINE h == handlers[fd]
             c == endpoint[fd].c
             said == reply[c]
  <1>1. Takes(fd, ev) /\ h.at = "response" /\ h.at # "accept"
    BY DEF WriteResponse
  <1>2. h \in Held /\ c \in Clients /\ fd \in interest \ {Acceptor}
    BY <1>1, Served
  <1>3. SaysRight(h, c, reply)
    BY <1>2 DEF ReplyInv
  <1>4. /\ h.left \in Int /\ h.status \in Status \cup {0} /\ h.request = c
        /\ h.left >= 1 /\ h.left <= Units - Len(said)
        /\ c \notin Rude => h.left = Units - Len(said)
        /\ \A i \in 1..Len(said) : said[i] = <<h.status, c>>
    BY <1>1, <1>2, <1>3 DEF SaysRight, Held
  <1>5. OneResponse(said, c) /\ Len(said) \in Nat /\ Units \in Nat
    BY <1>2, ServerAssumption DEF ReplyInv, OneResponse
  <1>6. client[c] \in {"fin", "reset"} => c \in Rude
    BY <1>2 DEF ServerInv, Environment
  <1>7. ASSUME reply' = reply, client' = client
        PROVE  SaysOn(c)
    BY <1>1, <1>7, SaysSame
  <1>8. CASE /\ client' = client
             /\ reply' = [reply EXCEPT ![c] = Append(@, <<h.status, h.request>>)]
             /\ \/ h.left > 1 /\ More(fd, h, 1)
                \/ ~ (h.left > 1) /\ Ends(fd, h)
    <2>1. /\ DOMAIN reply' = Clients /\ reply'[c] = Append(said, <<h.status, c>>)
          /\ \A d \in Clients \ {c} : reply'[d] = reply[d]
      BY <1>2, <1>4, <1>8 DEF ReplyInv
    <2>2. /\ OneResponse(reply'[c], c) /\ Len(reply'[c]) = Len(said) + 1
          /\ \A i \in 1..Len(reply'[c]) : reply'[c][i] = <<h.status, c>>
      <3>1. Len(said) < Units
        BY <1>4, <1>5
      <3>2. reply'[c] = Append(said, <<h.status, c>>)
        BY <2>1
      <3> DEFINE p == h.status
                 more == Append(said, <<p, c>>)
      <3>3. p \in Status \cup {0} /\ \A i \in 1..Len(said) : said[i] = <<p, c>>
        BY <1>4
      <3>4. c \in Clients /\ OneResponse(said, c)
        BY <1>2, <1>5
      <3> HIDE DEF h, c, said, p
      <3>5. /\ OneResponse(more, c) /\ Len(more) = Len(said) + 1
            /\ \A i \in 1..Len(more) : more[i] = <<p, c>>
        BY <3>1, <3>3, <3>4, PartSaid
      <3>6. reply'[c] = more
        BY <3>2 DEF p
      <3> HIDE DEF more
      <3>7. /\ OneResponse(reply'[c], c) /\ Len(reply'[c]) = Len(said) + 1
            /\ \A i \in 1..Len(reply'[c]) : reply'[c][i] = <<p, c>>
        BY <3>5, <3>6
      <3> QED
        BY <3>7 DEF p
    <2>3. SaysOn(c)
      BY <1>8, <2>1, <2>2 DEF SaysOn
    <2>4. CASE h.left > 1 /\ More(fd, h, 1)
      <3>1. /\ h.left - 1 >= 1 /\ h.left - 1 <= Units - Len(reply'[c])
            /\ c \notin Rude => h.left - 1 = Units - Len(reply'[c])
        BY <1>4, <1>5, <2>2, <2>4
      <3> QED
        BY <1>1, <2>2, <2>3, <2>4, <3>1, SendsOn
    <2>5. CASE ~ (h.left > 1) /\ Ends(fd, h)
      <3>1. c \in Rude \/ Len(reply'[c]) >= Units
        BY <1>4, <1>5, <2>2, <2>5
      <3> QED
        BY <1>1, <2>3, <2>5, <3>1, EndsSays
    <2> QED
      BY <1>8, <2>4, <2>5
  <1>9. CASE c \in Rude /\ client' = client /\ reply' = reply /\ More(fd, h, 0)
    <2>1. /\ h.left - 0 >= 1 /\ h.left - 0 <= Units - Len(reply'[c])
      BY <1>4, <1>9
    <2> QED
      BY <1>1, <1>4, <1>7, <1>9, <2>1, SendsOn
  <1>10. CASE /\ c \in Rude /\ reply' = reply /\ client' = [client EXCEPT ![c] = "reset"]
              /\ \/ h.left > 1 /\ More(fd, h, 1)
                 \/ ~ (h.left > 1) /\ Ends(fd, h)
    <2>1. SaysOn(c)
      BY <1>2, <1>5, <1>10 DEF SaysOn, ReplyInv, ServerInv, Environment
    <2>2. CASE h.left > 1 /\ More(fd, h, 1)
      <3>1. h.left - 1 >= 1 /\ h.left - 1 <= Units - Len(reply'[c])
        BY <1>4, <1>5, <1>10, <2>2
      <3> QED
        BY <1>1, <1>4, <1>10, <2>1, <2>2, <3>1, SendsOn
    <2>3. CASE Ends(fd, h)
      BY <1>1, <1>10, <2>1, <2>3, EndsSays
    <2> QED
      BY <1>10, <2>2, <2>3
  <1>11. CASE c \in Rude /\ client' = client /\ reply' = reply /\ (Killed \/ Ends(fd, h))
    <2>1. CASE Killed
      BY <1>11, <2>1, DownSays
    <2>2. CASE Ends(fd, h)
      BY <1>1, <1>7, <1>11, <2>2, EndsSays
    <2> QED
      BY <1>11, <2>1, <2>2
  <1>12. \/ /\ client' = client
            /\ reply' = [reply EXCEPT ![c] = Append(@, <<h.status, h.request>>)]
            /\ \/ h.left > 1 /\ More(fd, h, 1)
               \/ ~ (h.left > 1) /\ Ends(fd, h)
         \/ c \in Rude /\ client' = client /\ reply' = reply /\ More(fd, h, 0)
         \/ /\ client[c] = "fin" /\ reply' = reply /\ client' = [client EXCEPT ![c] = "reset"]
            /\ \/ h.left > 1 /\ More(fd, h, 1)
               \/ ~ (h.left > 1) /\ Ends(fd, h)
         \/ /\ client[c] = "reset" /\ client' = client /\ reply' = reply
            /\ (Killed \/ Ends(fd, h))
    BY Zenon DEF WriteResponse
  <1> HIDE DEF h, c, said
  <1> QED
    BY <1>6, <1>8, <1>9, <1>10, <1>11, <1>12

\* Where no handler runs, nothing is said.
LEMMA NothingSaid ==
    ASSUME ReplyInv, UNCHANGED <<interest, handlers, endpoint, client, reply>>
    PROVE  ReplyInv'
  BY DEF ReplyInv

\* A client that connects has no connection yet; one that hangs up is rude.
LEMMA ClientSays ==
    ASSUME ServerInv, ReplyInv, NEW c \in Clients, Connect(c) \/ HangUp(c)
    PROVE  ReplyInv'
  <1>1. UNCHANGED <<interest, handlers, endpoint, reply>>
    BY DEF Connect, HangUp, server
  <1>2. /\ \A d \in Clients \ {c} : client'[d] = client[d]
        /\ \/ client[c] = "new" /\ client'[c] = "backlog"
           \/ /\ c \in Rude /\ client[c] \in {"open", "fin"} /\ client'[c] \in {"fin", "reset"}
    BY DEF Connect, HangUp, ServerInv, Environment
  <1>3. OneConnection(endpoint, client')
    BY <1>2 DEF ReplyInv, OneConnection
  <1>4. \A d \in Clients : client'[d] \in {"new", "backlog"} => reply[d] = <<>>
    BY <1>2 DEF ReplyInv
  <1>5. ASSUME NEW d \in Clients \ (Rude \cup Misread), client'[d] = "open",
               Len(reply[d]) < Units
        PROVE  \E fd \in interest \ {Acceptor} : endpoint[fd].c = d
    BY <1>2, <1>5 DEF ReplyInv
  <1> QED
    BY <1>1, <1>3, <1>4, <1>5 DEF ReplyInv

\* The server starts with no connection.
LEMMA InitReply == Init => ReplyInv
  <1> SUFFICES ASSUME Init PROVE ReplyInv
    OBVIOUS
  <1>1. /\ interest = {Acceptor} /\ handlers = Acceptor :> Accepting
        /\ endpoint = Acceptor :> [kind |-> "acceptor", c |-> NoClient]
        /\ client = [c \in Clients |-> "new"] /\ reply = [c \in Clients |-> <<>>]
    BY DEF Init
  <1>2. handlers[Acceptor] = Accepting /\ Accepting.sock = NoFd
    BY <1>1 DEF :>, Accepting
  <1>3. DOMAIN endpoint = {Acceptor} /\ endpoint[Acceptor].kind = "acceptor"
    BY <1>1 DEF :>
  <1>4. OneConnection(endpoint, client)
    BY <1>3 DEF OneConnection
  <1>5. \A c \in Clients : OneResponse(reply[c], c)
    <2>1. /\ <<>> \in Seq((Status \cup {0}) \X Clients) /\ Len(<<>>) = 0
          /\ Units \in Nat
      BY ServerAssumption
    <2>2. \A c \in Clients : reply[c] = <<>>
      BY <1>1
    <2>3. ASSUME NEW said, said = <<>>, NEW c
          PROVE  OneResponse(said, c)
      <3>1. \A i \in 1..Len(said) : FALSE
        BY <2>1, <2>3
      <3>2. said \in Seq((Status \cup {0}) \X Clients) /\ Len(said) <= Units
        BY <2>1, <2>3
      <3> QED
        BY <3>1, <3>2 DEF OneResponse
    <2> QED
      BY <2>2, <2>3
  <1> QED
    BY <1>1, <1>2, <1>4, <1>5 DEF ReplyInv

\* Every step keeps what clients receive right.
LEMMA NextKeepsReply == ServerInv /\ ReplyInv /\ [Next]_vars => ReplyInv'
  <1> SUFFICES ASSUME ServerInv, ReplyInv, [Next]_vars PROVE ReplyInv'
    OBVIOUS
  <1>1. ServerInv'
    BY NextKeepsServer
  <1>2. CASE UNCHANGED vars \/ Block \/ EndBatch
    BY <1>2, NothingSaid DEF vars, Block, EndBatch, clients
  <1>3. ASSUME NEW fd \in Fds, NEW ev \in Events, Serve(fd, ev)
        PROVE  ReplyInv'
    BY <1>1, <1>3, AcceptSays, ReadRequestSays, WritePeerSays, ReadPeerSays, WriteResponseSays
       DEF Serve
  <1>4. ASSUME NEW c \in Clients, SendPart(c) \/ PeerSend(c) \/ PeerLeave(c)
        PROVE  ReplyInv'
    BY <1>4, NothingSaid DEF SendPart, PeerSend, PeerLeave, server, clients
  <1>5. ASSUME NEW c \in Clients, Connect(c) \/ HangUp(c)
        PROVE  ReplyInv'
    BY <1>5, ClientSays
  <1> QED
    BY <1>2, <1>3, <1>4, <1>5 DEF Next, Serve

\* What a continuation has sent, its client has received, in every reachable state.
THEOREM ReplyCorrect == Spec => [](ServerInv /\ ReplyInv)
  <1>1. Init => ServerInv /\ ReplyInv
    BY InitServer, InitReply
  <1>2. ServerInv /\ ReplyInv /\ [Next]_vars => ServerInv' /\ ReplyInv'
    BY NextKeepsServer, NextKeepsReply
  <1> QED
    BY <1>1, <1>2, PTL DEF Spec

\* With any clients, limits and lengths of messages, a client receives the parts
\* of one response, to its own request, and no more than there are.
THEOREM OwnResponseOnlyCorrect == Spec => []Service!OwnResponseOnly
  <1>1. ReplyInv => Service!OwnResponseOnly
    BY DEF ReplyInv, OneResponse, Service!OwnResponseOnly
  <1> QED
    BY <1>1, ReplyCorrect, PTL

\* A patient client whose request is not misread is served by exactly one
\* continuation until its response is complete, whatever other clients and the
\* peers do.
THEOREM PatientNotDroppedCorrect == Spec => []PatientNotDropped
  <1>1. ServerInv /\ ReplyInv => PatientNotDropped
    <2> SUFFICES ASSUME ServerInv, ReplyInv, NEW c \in Clients \ (Rude \cup Misread),
                        client[c] = "open", Len(reply[c]) < Units
                 PROVE  Cardinality(Continuation(c)) = 1
      BY DEF PatientNotDropped
    <2>1. PICK fd \in interest \ {Acceptor} : endpoint[fd].c = c
      BY DEF ReplyInv
    <2>2. DOMAIN handlers = interest
      BY DEF ServerInv, Tables
    <2>3. ASSUME NEW g \in interest \ {Acceptor}
          PROVE  /\ handlers[g].sock # NoFd
                 /\ endpoint[handlers[g].sock] = [kind |-> "client", c |-> endpoint[g].c]
      BY DEF ServerInv, Tables, WaitsRight
    <2>4. handlers[fd] \in Continuation(c)
      BY <2>1, <2>2, <2>3 DEF Continuation
    <2>5. ASSUME NEW h \in Continuation(c)
          PROVE  h = handlers[fd]
      <3>1. PICK g \in interest : /\ h = handlers[g] /\ h.sock # NoFd
                                  /\ endpoint[h.sock] = [kind |-> "client", c |-> c]
        BY <2>2, <2>5 DEF Continuation
      <3>2. g # Acceptor
        BY <3>1 DEF ReplyInv
      <3>3. [kind |-> "client", c |-> c] = [kind |-> "client", c |-> endpoint[g].c]
        BY <2>3, <3>1, <3>2
      <3>4. endpoint[g].c = c
        BY <3>3
      <3> QED
        BY <2>1, <3>1, <3>2, <3>4, OthersClients
    <2>6. Continuation(c) = {handlers[fd]}
      BY <2>4, <2>5
    <2> QED
      BY <2>6, FS_Singleton
  <1> QED
    BY <1>1, ReplyCorrect, PTL


-----------------------------------------------------------------------------
(* What clients see: WebServer implements HttpService.                      *)

\* What a continuation still has to read is what its client has not sent or
\* what was sent and not read; past the request nothing is.  What is left of a
\* response that a client can receive is what it has not received.
AsksRight(h, c, is, toSend, toRead, said) ==
    /\ h.at = "request" => h.left = toSend[c] + toRead[c]
    /\ h.at # "request" => toSend[c] = 0 /\ toRead[c] = 0
    /\ h.at = "response" =>
          /\ h.status \in Status
          /\ is[c] = "open" => h.left = Units - Len(said[c])

\* The inductive invariant about requests, given ServerInv and ReplyInv.
RequestInv ==
    /\ unsent \in [Clients -> Nat] /\ unread \in [Clients -> Nat]
    /\ \A c \in Clients : unsent[c] + unread[c] <= Units
    /\ \A c \in Clients : client[c] \in {"new", "backlog"} => unsent[c] + unread[c] = Units
    /\ DOMAIN inherited = Clients
    /\ Running => \A fd \in interest \ {Acceptor} :
          AsksRight(handlers[fd], endpoint[fd].c, client, unsent, unread, reply)
    /\ endpoint[Acceptor].kind = "acceptor"
    /\ \A f \in leaked : endpoint[f].kind = "failed"

\* The clients that are served.
Busy == {endpoint[fd].c : fd \in interest \ {Acceptor}}

\* A socket that is open to a client is that of the continuation that serves it.
LEMMA SocketServes ==
    ASSUME ServerInv, ReplyInv, RequestInv, NEW c \in Clients
    PROVE  (\E f \in DOMAIN endpoint : endpoint[f] = [kind |-> "client", c |-> c]) <=> c \in Busy
  <1>1. ASSUME NEW fd \in interest \ {Acceptor}
        PROVE  /\ handlers[fd] \in Held /\ handlers[fd].at \in Stages \ {"accept"}
               /\ WaitsRight(handlers[fd], fd, endpoint)
               /\ endpoint[handlers[fd].sock] = [kind |-> "client", c |-> endpoint[fd].c]
               /\ handlers[fd].sock \in DOMAIN endpoint
    <2>1. handlers[fd] \in Held /\ WaitsRight(handlers[fd], fd, endpoint)
      BY DEF ServerInv, Tables
    <2>2. handlers[fd].sock \in Owns(handlers, fd)
      BY <2>1 DEF WaitsRight, Owns, Captured
    <2>3. handlers[fd].at \in Stages
      BY <2>1 DEF Held
    <2> QED
      BY <2>1, <2>2, <2>3, FreeNumbers DEF WaitsRight
  <1>2. ASSUME c \in Busy
        PROVE  \E f \in DOMAIN endpoint : endpoint[f] = [kind |-> "client", c |-> c]
    BY <1>1, <1>2 DEF Busy
  <1>3. ASSUME NEW f \in DOMAIN endpoint, endpoint[f] = [kind |-> "client", c |-> c]
        PROVE  c \in Busy
    <2>1. endpoint[f].kind = "client" /\ endpoint[f].c = c
      BY <1>3
    <2>2. f \notin leaked /\ f # Acceptor
      BY <2>1 DEF RequestInv
    <2>3. PICK fd \in interest : f \in Owns(handlers, fd)
      BY <2>2 DEF ServerInv, Accounted
    <2>4. fd # Acceptor /\ f \in Captured(handlers[fd])
      BY <2>2, <2>3 DEF Owns
    <2> DEFINE h == handlers[fd]
    <2>5. f \in {h.sock, h.to, h.from} \ {NoFd}
      BY <2>4 DEF Captured
    <2>6. /\ h.at \in Stages \ {"accept"} /\ WaitsRight(h, fd, endpoint)
          /\ endpoint[h.sock].c = endpoint[fd].c
      <3>1. endpoint[h.sock] = [kind |-> "client", c |-> endpoint[fd].c]
        BY <1>1, <2>4
      <3>2. endpoint[h.sock].c = endpoint[fd].c
        BY <3>1
      <3> QED
        BY <1>1, <2>4, <3>2
    <2> HIDE DEF h
    <2>7. f = h.sock \/ f = fd \/ (h.at = "to_cgi" /\ f = h.from)
      BY <2>4, <2>5, <2>6 DEF WaitsRight, Stages
    <2>8. endpoint[f].c = endpoint[fd].c
      BY <2>4, <2>6, <2>7 DEF WaitsRight
    <2> QED
      BY <2>1, <2>4, <2>8 DEF Busy
  <1> QED
    BY <1>2, <1>3

\* A child has the connection of c open, and what c sees of it.
Kept(c) == SomeChildHas("client", c)
Shown(c) ==
    IF client[c] \in {"new", "backlog"} THEN "none"
    ELSE IF Running /\ c \in Busy THEN "open"
    ELSE IF Kept(c) THEN "kept" ELSE "closed"

LEMMA ConnectionShown ==
    ServerInv /\ ReplyInv /\ RequestInv => Connection = [c \in Clients |-> Shown(c)]
  BY SocketServes DEF Connection, Shown, Kept

\* What the steps of handlers and of the environment look like to the clients.
Inv == ServerInv /\ ReplyInv /\ RequestInv
Step == [Service!Next]_(Service!vars)

LEMMA ConnectionThen ==
    Inv' => Connection' = [c \in Clients |-> Shown(c)']
  <1>1. (ServerInv /\ ReplyInv /\ RequestInv => Connection = [c \in Clients |-> Shown(c)])'
    BY ConnectionShown, PTL
  <1> QED
    BY <1>1 DEF Inv

\* What a client that is served may do to itself in a handler: be cut off.
CutOff == \A c \in Clients : client'[c] = client[c] \/ {client[c], client'[c]} = {"fin", "reset"}

\* A child takes a connection when it is open.
KeptOn == \A c \in Clients : Kept(c)' => Kept(c) \/ (Running /\ c \in Busy)

LEMMA SameSeen ==
    ASSUME CutOff
    PROVE  /\ Presence' = Presence
           /\ \A c \in Clients :
                 client'[c] \in {"new", "backlog"} <=> client[c] \in {"new", "backlog"}
  <1>1. \A c \in Clients : client'[c] \in {"new", "backlog"} <=> client[c] \in {"new", "backlog"}
    BY DEF CutOff
  <1>2. \A c \in Clients : client'[c] \in {"fin", "reset"} <=> client[c] \in {"fin", "reset"}
    BY DEF CutOff
  <1>3. Presence' = Presence
    BY <1>2 DEF Presence, CutOff
  <1> QED
    BY <1>1, <1>3

\* The children have what they had.
LEMMA SameKept ==
    ASSUME inherited' = inherited
    PROVE  KeptOn /\ \A c \in Clients : Kept(c)' <=> Kept(c)
  BY DEF KeptOn, Kept, SomeChildHas

\* A child is forked.
LEMMA ForkKeeps ==
    ASSUME ServerInv, ReplyInv, RequestInv, Running, NEW c \in Clients,
           inherited' = [inherited EXCEPT ![c] = Inheritable]
    PROVE  KeptOn /\ DOMAIN inherited' = Clients
  <1>1. DOMAIN inherited = Clients
    BY DEF RequestInv
  <1>2. ASSUME NEW d \in Clients, Kept(d)', ~ Kept(d)
        PROVE  d \in Busy
    <2> DEFINE conn == [kind |-> "client", c |-> d]
    <2>1. PICK x \in Clients : conn \in inherited'[x]
      BY <1>2 DEF Kept, SomeChildHas
    <2>2. conn \notin inherited[x]
      BY <1>2 DEF Kept, SomeChildHas
    <2>3. conn \in Inheritable
      BY <1>1, <2>1, <2>2
    <2>4. DOMAIN handlers \subseteq DOMAIN endpoint
      BY DEF ServerInv, Tables, Accounted
    <2>5. \E f \in DOMAIN endpoint : endpoint[f] = conn
      BY <2>3, <2>4 DEF Inheritable
    <2> QED
      BY <2>5, SocketServes
  <1> QED
    BY <1>1, <1>2 DEF KeptOn

\* The children take no connection: each sees what it saw.
LEMMA ConnectionSame ==
    ASSUME Inv, Inv', Busy' = Busy, Running' = Running, inherited' = inherited,
           \A c \in Clients : client'[c] \in {"new", "backlog"} <=> client[c] \in {"new", "backlog"}
    PROVE  Connection' = Connection
  <1>1. \A c \in Clients : Shown(c)' = Shown(c)
    BY SameKept DEF Shown
  <1> QED
    BY <1>1, ConnectionShown, ConnectionThen DEF Inv

\* Nothing changes but that a client that hung up is cut off, or that children
\* end and with them connections that the server had given up.
LEMMA Quiet ==
    ASSUME Inv, Inv', Busy' = Busy, Running' = Running, reply' = reply, Asked' = Asked,
           KeptOn, CutOff
    PROVE  Step
  <1> DEFINE ended == {c \in Clients : Shown(c) = "kept" /\ Shown(c)' = "closed"}
  <1>1. Connection = [c \in Clients |-> Shown(c)] /\ Connection' = [c \in Clients |-> Shown(c)']
    BY ConnectionShown, ConnectionThen DEF Inv
  <1>2. ASSUME NEW c \in Clients
        PROVE  Shown(c)' = Shown(c) \/ (Shown(c) = "kept" /\ Shown(c)' = "closed")
    BY SameSeen DEF Shown, KeptOn
  <1>3. Connection' = [c \in Clients |-> IF c \in ended THEN "closed" ELSE Connection[c]]
    BY <1>1, <1>2
  <1>4. ended \in SUBSET {c \in Clients : Connection[c] = "kept"}
    BY <1>1
  <1>5. Presence' = Presence
    BY SameSeen
  <1> HIDE DEF ended
  <1>6. Service!Release
    BY <1>3, <1>4, <1>5 DEF Service!Release
  <1> QED
    BY <1>6 DEF Step, Service!Next

\* What a handler on behalf of client c may do to the requests.
AsksOn(c) ==
    /\ unsent' \in [Clients -> Nat] /\ unread' \in [Clients -> Nat]
    /\ unsent'[c] + unread'[c] <= Units
    /\ unsent'[c] = unsent[c] \/ (c \in Misread /\ unsent[c] < Units /\ unsent'[c] = 0)
    /\ \A d \in Clients \ {c} : unsent'[d] = unsent[d] /\ unread'[d] = unread[d]
    /\ DOMAIN inherited' = Clients

\* Who has asked has asked.
LEMMA SameAsked ==
    ASSUME NEW c \in Clients, AsksOn(c)
    PROVE  Asked' = Asked
  <1>1. ASSUME NEW d \in Clients
        PROVE  /\ d \in Misread => (unsent'[d] < Units <=> unsent[d] < Units)
               /\ d \notin Misread => unsent'[d] = unsent[d]
    BY ServerAssumption DEF AsksOn
  <1> QED
    BY <1>1 DEF Asked

\* Who has sent the whole request has asked.
LEMMA AllAsked ==
    ASSUME NEW c \in Clients, unsent[c] = 0
    PROVE  Asked[c]
  <1>1. unsent[c] < Units
    BY ServerAssumption
  <1>2. Asked[c] = IF c \in Misread THEN unsent[c] < Units ELSE unsent[c] = 0
    BY DEF Asked
  <1> QED
    BY <1>1, <1>2

\* A handler that has run and did not end the process.
Went(c) == RequestInv' /\ c \in Busy /\ Running /\ Running'

\* A handler that registers only what serves its client, right, keeps what the
\* others have asked for.
LEMMA LeavesAsks ==
    ASSUME ServerInv, ServerInv', ReplyInv, RequestInv, NEW fd \in Fds, NEW ev, Takes(fd, ev),
           handlers[fd].at # "accept", NEW new, NEW table, Leaves(fd, new, table),
           NEW c, c = endpoint[fd].c, SaysOn(c), AsksOn(c),
           \A f \in DOMAIN new :
              table[f].c = c /\ AsksRight(new[f], c, client', unsent', unread', reply'),
           \A f \in DOMAIN endpoint \cap DOMAIN table : table[f] = endpoint[f],
           \A f \in leaked' : f \in leaked \/ table[f].kind = "failed"
    PROVE  Went(c) /\ Busy' = IF DOMAIN new = {} THEN Busy \ {c} ELSE Busy
  <1> DEFINE others == interest \ {fd}
             news == DOMAIN new
  <1>1. fd \in interest /\ fd # Acceptor /\ c \in Clients /\ Acceptor \in others
    BY Served DEF ServerInv, Accounted
  <1>2. /\ interest' = others \cup news /\ endpoint' = table /\ news \cap others = {}
        /\ lpc' = "serve" /\ lpc = "serve"
    BY DEF Leaves, ServerInv, Tables, Takes
  <1>3. /\ \A f \in news : handlers'[f] = new[f]
        /\ \A f \in others : handlers'[f] = handlers[f]
    BY <1>2, AfterLeaves
  <1>4. \A f \in others : f \in DOMAIN endpoint /\ f \in DOMAIN table /\ table[f] = endpoint[f]
    <2>1. \A f \in others : f \in DOMAIN endpoint
      BY DEF ServerInv, Accounted
    <2>2. \A f \in others : f \in DOMAIN endpoint'
      BY <1>2 DEF ServerInv, Accounted
    <2> QED
      BY <1>2, <2>1, <2>2
  <1>5. client[c] \notin {"new", "backlog"}
    <2>1. /\ handlers[fd].sock \in DOMAIN endpoint
          /\ endpoint[handlers[fd].sock] = [kind |-> "client", c |-> c]
      BY Served
    <2>2. /\ endpoint[handlers[fd].sock].kind = "client"
          /\ endpoint[handlers[fd].sock].c = c
      BY <2>1
    <2> QED
      BY <2>1, <2>2 DEF ReplyInv, OneConnection
  <1>6. \A f \in others \ {Acceptor} : endpoint[f].c \in Clients /\ endpoint[f].c # c
    BY <1>1, OthersClients DEF ServerInv, Tables, WaitsRight
  <1>7. c \in Busy /\ Busy \ {c} = {endpoint[f].c : f \in others \ {Acceptor}}
    BY <1>1, <1>6 DEF Busy
  <1>8. Busy' = IF news = {} THEN Busy \ {c} ELSE Busy
    <2>1. Busy' = {table[f].c : f \in (others \cup news) \ {Acceptor}}
      BY <1>2 DEF Busy
    <2>2. news \cap {Acceptor} = {}
      BY <1>1, <1>2
    <2>3. {table[f].c : f \in others \ {Acceptor}} = Busy \ {c}
      BY <1>4, <1>7
    <2>4. Busy' = (Busy \ {c}) \cup {table[f].c : f \in news}
      BY <2>1, <2>2, <2>3
    <2>5. {table[f].c : f \in news} = IF news = {} THEN {} ELSE {c}
      OBVIOUS
    <2> QED
      BY <1>7, <2>4, <2>5
  <1>9. ASSUME NEW f \in interest' \ {Acceptor}
        PROVE  AsksRight(handlers'[f], table[f].c, client', unsent', unread', reply')
    <2>1. CASE f \in news
      BY <1>3, <2>1
    <2>2. CASE f \in others
      <3>1. AsksRight(handlers[f], endpoint[f].c, client, unsent, unread, reply)
        BY <1>2, <2>2 DEF RequestInv, Running
      <3>2. /\ reply'[endpoint[f].c] = reply[endpoint[f].c]
            /\ client'[endpoint[f].c] = client[endpoint[f].c]
            /\ unsent'[endpoint[f].c] = unsent[endpoint[f].c]
            /\ unread'[endpoint[f].c] = unread[endpoint[f].c]
        BY <1>6, <2>2 DEF SaysOn, AsksOn
      <3> QED
        BY <1>3, <1>4, <2>2, <3>1, <3>2 DEF AsksRight
    <2> QED
      BY <1>2, <2>1, <2>2
  <1>10. \A d \in Clients : client'[d] \in {"new", "backlog"} => unsent'[d] + unread'[d] = Units
    <2>1. client'[c] \notin {"new", "backlog"}
      BY <1>5 DEF SaysOn
    <2> QED
      BY <2>1 DEF RequestInv, SaysOn, AsksOn
  <1>11. table[Acceptor].kind = "acceptor"
    BY <1>1, <1>4 DEF RequestInv
  <1>12. \A f \in leaked' : table[f].kind = "failed"
    <2>1. ASSUME NEW f \in leaked', f \in leaked
          PROVE  f \in DOMAIN endpoint \cap DOMAIN table
      BY <1>2, <2>1 DEF ServerInv, Accounted
    <2> QED
      BY <2>1 DEF RequestInv
  <1>13. RequestInv'
    BY <1>2, <1>9, <1>10, <1>11, <1>12 DEF RequestInv, AsksOn
  <1> QED
    BY <1>2, <1>7, <1>8, <1>13 DEF Went, Running

\* The pipeline ends.
LEMMA EndsAsks ==
    ASSUME ServerInv, ServerInv', ReplyInv, RequestInv, NEW fd \in Fds, NEW ev, Takes(fd, ev),
           handlers[fd].at # "accept", NEW h, Ends(fd, h),
           SaysOn(endpoint[fd].c), AsksOn(endpoint[fd].c), leaked' = leaked
    PROVE  Went(endpoint[fd].c) /\ Busy' = Busy \ {endpoint[fd].c}
  <1> DEFINE c == endpoint[fd].c
             table == Without(endpoint, Captured(h))
             new == <<>>
  <1>1. Leaves(fd, new, table) /\ DOMAIN new = {}
    BY DEF Ends
  <1>2. \A f \in DOMAIN table : f \in DOMAIN endpoint /\ table[f] = endpoint[f]
    BY DEF Without
  <1>3. c = endpoint[fd].c
    OBVIOUS
  <1> HIDE DEF new, table, c
  <1> QED
    BY <1>1, <1>2, <1>3, LeavesAsks

\* A handler registers one continuation, for its client.
LEMMA OneAsks ==
    ASSUME ServerInv, ServerInv', ReplyInv, RequestInv, NEW fd \in Fds, NEW ev, Takes(fd, ev),
           handlers[fd].at # "accept", NEW f, NEW h, NEW table, Leaves(fd, f :> h, table),
           table[f].c = endpoint[fd].c, SaysOn(endpoint[fd].c), AsksOn(endpoint[fd].c),
           AsksRight(h, endpoint[fd].c, client', unsent', unread', reply'),
           \A x \in DOMAIN endpoint \cap DOMAIN table : table[x] = endpoint[x],
           \A x \in leaked' : x \in leaked \/ table[x].kind = "failed"
    PROVE  Went(endpoint[fd].c) /\ Busy' = Busy
  <1> DEFINE new == f :> h
             c == endpoint[fd].c
  <1>1. DOMAIN new = {f} /\ new[f] = h
    BY DEF :>
  <1>2. Leaves(fd, new, table) /\ c = endpoint[fd].c
    OBVIOUS
  <1> HIDE DEF new, c
  <1>3. Went(c) /\ Busy' = IF DOMAIN new = {} THEN Busy \ {c} ELSE Busy
    BY <1>1, <1>2, LeavesAsks
  <1> QED
    BY <1>1, <1>2, <1>3

\* The same is waited for again.
LEMMA MoreAsks ==
    ASSUME ServerInv, ServerInv', ReplyInv, RequestInv, NEW fd \in Fds, NEW ev, Takes(fd, ev),
           handlers[fd].at # "accept", NEW n \in Int, More(fd, handlers[fd], n),
           NEW c, c = endpoint[fd].c, SaysOn(c), AsksOn(c), leaked' = leaked,
           \A r : /\ r.at = handlers[fd].at /\ r.status = handlers[fd].status
                  /\ r.left = handlers[fd].left - n
                  => AsksRight(r, c, client', unsent', unread', reply')
    PROVE  Went(c) /\ Busy' = Busy
  <1> DEFINE r == [handlers[fd] EXCEPT !.left = @ - n]
  <1>1. handlers[fd] \in Held
    BY Served
  <1>2. r.at = handlers[fd].at /\ r.status = handlers[fd].status /\ r.left = handlers[fd].left - n
    BY <1>1, LessLeft
  <1>3. Leaves(fd, fd :> r, endpoint)
    BY DEF More
  <1> HIDE DEF r
  <1>4. AsksRight(r, c, client', unsent', unread', reply')
    BY <1>2
  <1> QED
    BY <1>3, <1>4, OneAsks

\* send_response(), when the whole request was read.
LEMMA AnswerAsks ==
    ASSUME ServerInv, ServerInv', ReplyInv, RequestInv, NEW fd \in Fds, NEW ev, Takes(fd, ev),
           handlers[fd].at \notin {"accept", "response"}, NEW h, h.sock = handlers[fd].sock,
           h.request = endpoint[fd].c, NEW code \in Status, Answer(fd, h, code),
           client' = client, reply' = reply, AsksOn(endpoint[fd].c), leaked' = leaked,
           unsent'[endpoint[fd].c] = 0, unread'[endpoint[fd].c] = 0
    PROVE  Went(endpoint[fd].c) /\ Busy' = Busy
  <1> DEFINE r == Responding(h, code)
             s == h.sock
             c == endpoint[fd].c
             table == Without(endpoint, Captured(h) \ {s})
  <1>1. SaysOn(c) /\ reply[c] = <<>> /\ c \in Clients
    BY SaysSame DEF SaysRight
  <1>2. s \in Fds /\ s \in DOMAIN endpoint /\ endpoint[s] = [kind |-> "client", c |-> c]
    BY Served
  <1>3. \A f \in DOMAIN table : f \in DOMAIN endpoint /\ table[f] = endpoint[f]
    BY DEF Without
  <1>4. table[s].c = c
    BY <1>2 DEF Without
  <1>5. r.at = "response" /\ r.left = Units /\ r.status = code
    BY <1>1, <1>2, RespondingHeld, RespondingFields
  <1>6. Units - Len(<<>>) = Units
    BY ServerAssumption
  <1>7. Leaves(fd, s :> r, table)
    BY DEF Answer
  <1> HIDE DEF r, s, table
  <1>8. AsksRight(r, c, client', unsent', unread', reply')
    BY <1>1, <1>5, <1>6 DEF AsksRight
  <1> QED
    BY <1>1, <1>3, <1>4, <1>7, <1>8, OneAsks

\* Who is served was accepted, and sees an open connection.
LEMMA BusyOpen ==
    ASSUME Inv, NEW c \in Busy
    PROVE  /\ c \in Clients /\ client[c] \notin {"new", "backlog"}
           /\ Running => Connection[c] = "open"
  <1>1. c \in Clients
    <2>1. PICK fd \in interest \ {Acceptor} : c = endpoint[fd].c
      BY DEF Busy
    <2>2. WaitsRight(handlers[fd], fd, endpoint)
      BY DEF Inv, ServerInv, Tables
    <2> QED
      BY <2>1, <2>2 DEF WaitsRight
  <1>2. PICK f \in DOMAIN endpoint : endpoint[f] = [kind |-> "client", c |-> c]
    BY <1>1, SocketServes DEF Inv
  <1>3. endpoint[f].kind = "client" /\ endpoint[f].c = c
    BY <1>2
  <1>4. client[c] \notin {"new", "backlog"}
    BY <1>3 DEF Inv, ReplyInv, OneConnection
  <1> QED
    BY <1>1, <1>4, ConnectionShown DEF Inv, Shown

LEMMA QuietStep ==
    ASSUME Inv, ServerInv', ReplyInv', NEW c, Went(c), Busy' = Busy, reply' = reply,
           AsksOn(c), KeptOn, CutOff
    PROVE  Step
  <1>1. Inv' /\ Running' = Running
    BY DEF Inv, Went, Running
  <1>2. Asked' = Asked
    BY BusyOpen, SameAsked DEF Went
  <1> QED
    BY <1>1, <1>2, Quiet

\* The connection of a client that was served is given up.
LEMMA ClosesOne ==
    ASSUME Inv, Inv', NEW c \in Busy, Busy' = Busy \ {c}, CutOff, Running, Running',
           inherited' = inherited
    PROVE  /\ Connection[c] = "open" /\ c \in Clients
           /\ \E s \in {"kept", "closed"} : Connection' = [Connection EXCEPT ![c] = s]
  <1> DEFINE s == Shown(c)'
  <1>1. c \in Clients /\ client[c] \notin {"new", "backlog"} /\ Connection[c] = "open"
    BY BusyOpen
  <1>2. \A d \in Clients : client'[d] \in {"new", "backlog"} <=> client[d] \in {"new", "backlog"}
    BY SameSeen
  <1>3. s \in {"kept", "closed"}
    BY <1>1, <1>2 DEF Shown
  <1>4. \A d \in Clients \ {c} : Shown(d)' = Shown(d)
    BY <1>2, SameKept DEF Shown
  <1>5. Connection = [d \in Clients |-> Shown(d)] /\ Connection' = [d \in Clients |-> Shown(d)']
    BY ConnectionShown, ConnectionThen DEF Inv
  <1>6. Connection' = [Connection EXCEPT ![c] = s]
    BY <1>1, <1>4, <1>5
  <1> HIDE DEF s
  <1> QED
    BY <1>1, <1>3, <1>6

LEMMA DropStep ==
    ASSUME Inv, ServerInv', ReplyInv', NEW c, Went(c), Busy' = Busy \ {c},
           client[c] \in {"fin", "reset"} \/ (c \in Misread /\ Asked[c] /\ reply[c] = <<>>),
           reply' = reply, AsksOn(c), inherited' = inherited, CutOff
    PROVE  Step
  <1>1. Inv' /\ Running' = Running /\ c \in Busy /\ Running /\ Running'
    BY DEF Inv, Went, Running
  <1>2. /\ Connection[c] = "open" /\ c \in Clients
        /\ \E s \in {"kept", "closed"} : Connection' = [Connection EXCEPT ![c] = s]
    BY <1>1, ClosesOne
  <1>3. Presence' = Presence /\ Asked' = Asked
    BY <1>2, SameSeen, SameAsked
  <1>4. Presence[c] = "gone" \/ (c \in Misread /\ Asked[c] /\ reply[c] = <<>>)
    BY <1>2 DEF Presence
  <1>5. Service!Drop(c)
    BY <1>1, <1>2, <1>3, <1>4 DEF Service!Drop, Service!GivenUp
  <1> QED
    BY <1>2, <1>5 DEF Step, Service!Next

\* The process ends while it serves somebody who has sent the whole request, or
\* what may be taken for it.
LEMMA DownStep ==
    ASSUME Inv, ServerInv', ReplyInv', NEW c \in Busy, Running, Aborts \/ Killed,
           c \in Rude \cup Flaky \cup Misread, Asked[c],
           client' = client, reply' = reply, AsksOn(c), leaked' = leaked, inherited' = inherited
    PROVE  RequestInv' /\ Step
  <1>1. c \in Clients /\ client[c] \notin {"new", "backlog"} /\ Connection[c] = "open"
    BY BusyOpen
  <1>2. /\ UNCHANGED <<interest, handlers, endpoint>> /\ ~ Running'
    BY DEF Aborts, Killed, Running
  <1>3. RequestInv'
    BY <1>1, <1>2 DEF Inv, RequestInv, AsksOn
  <1>4. Busy' = Busy /\ Inv'
    BY <1>2, <1>3 DEF Busy, Inv
  <1> DEFINE kept == {d \in Clients : Kept(d)}
  <1>5. \A d \in Clients : Shown(d)' = IF Shown(d) # "open" THEN Shown(d)
                                       ELSE IF d \in kept THEN "kept" ELSE "closed"
    BY <1>2, <1>4, SameKept DEF Shown
  <1>6. Connection' = [d \in Clients |-> IF Connection[d] # "open" THEN Connection[d]
                                        ELSE IF d \in kept THEN "kept" ELSE "closed"]
    BY <1>4, <1>5, ConnectionShown, ConnectionThen DEF Inv
  <1>7. kept \in SUBSET Clients
    OBVIOUS
  <1> HIDE DEF kept
  <1>8. Presence' = Presence /\ Asked' = Asked
    BY <1>1, SameAsked DEF Presence
  <1>9. Running' = FALSE
    BY <1>2 DEF Running
  <1>10. Service!GoDown(c)
    BY <1>1, <1>6, <1>7, <1>8, <1>9 DEF Service!GoDown
  <1> QED
    BY <1>1, <1>3, <1>10 DEF Step, Service!Next

\* The fields of a connection whose request is to be read.
LEMMA ReadingLeft == \A conn : Reading(conn).at = "request" /\ Reading(conn).left = Units
  <1> DEFINE Made(h, n, s) == [h EXCEPT !.at = "request", !.sock = s, !.left = n]
  <1>1. \A h \in Held : \A n, s : Made(h, n, s).at = "request" /\ Made(h, n, s).left = n
    BY DEF Held
  <1>2. \A conn : Reading(conn) = Made(Accepting, Units, conn)
    BY DEF Reading
  <1> HIDE DEF Made
  <1> QED
    BY <1>1, <1>2, AcceptingHeld

\* accept(): nothing of the request was sent, and the connection is open.
LEMMA AcceptServes ==
    ASSUME Inv, ServerInv', ReplyInv', NEW fd \in Fds, NEW ev, Accept(fd, ev)
    PROVE  RequestInv' /\ Step
  <1> USE DEF Inv
  <1> DEFINE others == interest \ {fd}
  <1>1. /\ Takes(fd, ev) /\ handlers[fd].at = "accept" /\ fd \in interest /\ lpc = "serve"
        /\ UNCHANGED <<leaked, unsent, unread, reply, inherited>> /\ Asked' = Asked
    BY DEF Accept, Takes, peers, Asked
  <1>2. fd = Acceptor /\ lpc' # "threw" /\ Acceptor \in DOMAIN endpoint
    <2>1. Acceptor \in Owns(handlers, Acceptor)
      BY DEF Owns
    <2> QED
      BY <1>1, <2>1, FreeNumbers DEF ServerInv, Tables, WaitsRight
  <1>3. \A f \in others : f \in DOMAIN endpoint
    BY DEF ServerInv, Accounted
  <1>4. \A f \in others :
           AsksRight(handlers[f], endpoint[f].c, client, unsent, unread, reply)
    BY <1>1, <1>2 DEF RequestInv, Running
  <1>5. \A f \in leaked : f \in DOMAIN endpoint
    BY DEF ServerInv, Accounted
  <1>6. CASE Free # {}
    <2> DEFINE conn == Lowest(Free)
               new == fd :> Accepting @@ conn :> Reading(conn)
    <2>1. PICK c \in Clients :
             /\ client[c] = "backlog" /\ client' = [client EXCEPT ![c] = "open"]
             /\ Leaves(fd, new, endpoint @@ (conn :> [kind |-> "client", c |-> c]))
      BY <1>6 DEF Accept
    <2> DEFINE table == endpoint @@ (conn :> [kind |-> "client", c |-> c])
    <2>2. /\ conn \in Free /\ conn # Acceptor /\ conn \notin DOMAIN endpoint
      BY <1>6, FreeNumbers, LowestIn DEF Free
    <2>3. DOMAIN new = {fd, conn} /\ new[fd] = Accepting /\ new[conn] = Reading(conn)
      BY <1>2, <2>2 DEF @@, :>
    <2>4. /\ DOMAIN table = DOMAIN endpoint \cup {conn}
          /\ table[conn] = [kind |-> "client", c |-> c]
          /\ \A x \in DOMAIN endpoint : table[x] = endpoint[x]
      BY <2>2 DEF @@, :>
    <2>5. table[conn].c = c
      BY <2>4
    <2>6. Leaves(fd, new, table)
      BY <2>1
    <2>7. Reading(conn).at = "request" /\ Reading(conn).left = Units
      BY ReadingLeft
    <2> HIDE DEF new, table, conn
    <2>8. interest' = others \cup {fd, conn} /\ endpoint' = table /\ conn \notin others
      BY <1>2, <1>3, <2>2, <2>3, <2>6 DEF Leaves
    <2>9. /\ handlers'[conn] = Reading(conn) /\ lpc' = "serve"
          /\ \A f \in others : handlers'[f] = handlers[f]
      <3>1. DOMAIN new \cap (interest \ {fd}) = {}
        BY <2>3, <2>8
      <3>2. /\ \A f \in DOMAIN new : handlers'[f] = new[f]
            /\ \A f \in interest \ {fd} : handlers'[f] = handlers[f]
        BY <2>6, <3>1, AfterLeaves
      <3> QED
        BY <1>2, <2>3, <2>6, <3>2 DEF Leaves
    <2>10. client'[c] = "open" /\ \A d \in Clients \ {c} : client'[d] = client[d]
      BY <2>1 DEF ServerInv, Environment
    <2>11. c \notin Busy
      BY <2>1, BusyOpen
    <2>12. \A f \in others : endpoint[f].c \in Busy /\ endpoint[f].c # c /\ endpoint[f].c \in Clients
      BY <1>2, <2>11, BusyOpen DEF Busy
    <2>13. Busy' = Busy \cup {c}
      BY <1>2, <1>3, <2>2, <2>4, <2>5, <2>8 DEF Busy
    <2>14. unsent[c] + unread[c] = Units
      BY <2>1 DEF RequestInv
    <2>15. ASSUME NEW f \in interest' \ {Acceptor}
           PROVE  AsksRight(handlers'[f], table[f].c, client', unsent, unread, reply)
      <3>1. CASE f = conn
        BY <2>5, <2>7, <2>9, <2>14, <3>1 DEF AsksRight
      <3>2. CASE f \in others
        <4>1. client'[endpoint[f].c] = client[endpoint[f].c]
          BY <2>10, <2>12, <3>2
        <4> QED
          BY <1>3, <1>4, <2>4, <2>9, <3>2, <4>1 DEF AsksRight
      <3> QED
        BY <1>2, <2>8, <3>1, <3>2
    <2>16. RequestInv'
      <3>1. table[Acceptor].kind = "acceptor" /\ \A f \in leaked : table[f].kind = "failed"
        BY <1>2, <1>5, <2>4 DEF RequestInv
      <3>2. \A d \in Clients : client'[d] \in {"new", "backlog"} => unsent[d] + unread[d] = Units
        BY <2>10 DEF RequestInv
      <3> QED
        BY <1>1, <2>8, <2>15, <3>1, <3>2 DEF RequestInv
    <2>17. Running /\ Running'
      BY <1>1, <2>9 DEF Running
    <2>18. Connection' = [Connection EXCEPT ![c] = "open"]
      <3>1. Shown(c)' = "open" /\ \A d \in Clients \ {c} : Shown(d)' = Shown(d)
        BY <1>1, <2>10, <2>13, <2>17, SameKept DEF Shown
      <3> QED
        BY <2>16, <3>1, ConnectionShown, ConnectionThen
    <2>19. Presence[c] = "backlog" /\ Presence' = [Presence EXCEPT ![c] = "open"]
      BY <2>1, <2>10 DEF Presence
    <2>20. Service!Accept(c)
      BY <1>1, <2>17, <2>18, <2>19 DEF Service!Accept, Running
    <2> QED
      BY <2>16, <2>20 DEF Step, Service!Next
  <1>7. CASE Free = {}
    <2> DEFINE new == fd :> Accepting
    <2>1. Leaves(fd, new, endpoint) /\ client' = client
      BY <1>7 DEF Accept
    <2>2. DOMAIN new = {fd} /\ new[fd] = Accepting
      BY DEF :>
    <2> HIDE DEF new
    <2>3. interest' = interest /\ endpoint' = endpoint /\ lpc' = "serve"
      BY <1>1, <1>2, <2>1, <2>2 DEF Leaves
    <2>4. \A f \in others : handlers'[f] = handlers[f]
      BY <2>1, <2>2, AfterLeaves
    <2>5. RequestInv' /\ Busy' = Busy /\ Running /\ Running'
      BY <1>1, <1>2, <2>1, <2>3, <2>4 DEF RequestInv, Busy, Running
    <2>6. Running' = Running /\ CutOff /\ KeptOn
      BY <1>1, <2>1, <2>5, SameKept DEF Running, CutOff
    <2> QED
      BY <1>1, <2>5, <2>6, Quiet
  <1> QED
    BY <1>6, <1>7

\* The request was read, or what is taken for it, and is dispatched.
LEMMA DispatchServes ==
    ASSUME Inv, ServerInv', ReplyInv', NEW fd \in Fds, NEW ev, Takes(fd, ev),
           handlers[fd].at = "request", NEW h \in Held, Alike(h, handlers[fd]),
           NEW c, c = endpoint[fd].c, h.request = c, Dispatch(fd, h, c),
           client' = client, reply' = reply, AsksOn(c), unsent'[c] = 0, unread'[c] = 0
    PROVE  RequestInv' /\ Step
  <1> USE DEF Inv
  <1>1. /\ h.sock = handlers[fd].sock /\ handlers[fd].at \notin {"accept", "response"}
        /\ Running
    BY DEF Alike, Takes, Running
  <1>2. SaysOn(c) /\ reply[c] = <<>> /\ c \in Clients /\ CutOff
    BY <1>1, SaysSame DEF SaysRight, CutOff
  <1>3. inherited' = inherited \/ inherited' = [inherited EXCEPT ![c] = Inheritable]
    BY DEF Dispatch, StartCgi, StartProxy
  <1>4. KeptOn
    BY <1>1, <1>2, <1>3, SameKept, ForkKeeps
  <1>5. ASSUME Went(c), Busy' = Busy
        PROVE  RequestInv' /\ Step
    BY <1>1, <1>2, <1>4, <1>5, QuietStep DEF Went
  <1>6. ASSUME NEW code \in Status, Answer(fd, h, code), leaked' = leaked
        PROVE  RequestInv' /\ Step
    BY <1>1, <1>5, <1>6, AnswerAsks
  <1>7. {200, 404, 500, 502, 503} \subseteq Status
    BY DEF Status
  <1>8. ASSUME StartCgi(fd, h, c), ~ Answer(fd, h, 503)
        PROVE  RequestInv' /\ Step
    <2> DEFINE r1 == Lowest(Free)
               w1 == Lowest(Free \ {r1})
               r2 == Lowest(Free \ {r1, w1})
               next == Turned(h, "to_cgi", w1, r2, Units)
               table == endpoint @@ (w1 :> [kind |-> "cgi", c |-> c])
                                 @@ (r2 :> [kind |-> "cgi", c |-> c])
    <2>1. Cardinality(Free) >= 4 /\ Leaves(fd, w1 :> next, table) /\ leaked' = leaked
      BY <1>8 DEF StartCgi, Turned
    <2>2. w1 \in Free
      BY <2>1, FourFree
    <2> HIDE DEF w1, r2, next
    <2>3. table[w1] = [kind |-> "cgi", c |-> c]
      BY <2>2 DEF @@, :>, Free
    <2>4. \A x \in DOMAIN endpoint : table[x] = endpoint[x]
      BY DEF @@, :>
    <2> HIDE DEF table
    <2>5. table[w1].c = c
      BY <2>3
    <2>6. next.at = "to_cgi"
      BY TurnedFields DEF next
    <2>7. AsksRight(next, c, client', unsent', unread', reply')
      BY <1>1, <2>6 DEF AsksRight
    <2>8. Went(c) /\ Busy' = Busy
      BY <1>1, <1>2, <2>1, <2>4, <2>5, <2>7, OneAsks
    <2> QED
      BY <1>5, <2>8
  <1>9. ASSUME StartProxy(fd, h, c), ~ (Answer(fd, h, 502) /\ leaked' = leaked)
        PROVE  RequestInv' /\ Step
    <2> DEFINE up == Lowest(Free)
               next == Turned(h, "to_proxy", up, NoFd, Units)
               failed == Responding(h, 502)
               table(kind) == endpoint @@ (up :> [kind |-> kind, c |-> c])
    <2>1. Free # {} /\ \/ Leaves(fd, up :> next, table("upstream")) /\ leaked' = leaked
                       \/ /\ Leaves(fd, h.sock :> failed, table("failed"))
                          /\ leaked' = leaked \cup {up}
      <3>1. [h EXCEPT !.at = "to_proxy", !.to = up, !.left = Units] = next
        <4>1. h.from = NoFd
          BY Served DEF Alike, WaitsRight
        <4> HIDE DEF up
        <4> QED
          BY <4>1 DEF Turned, Held
      <3> QED
        BY <1>9, <3>1 DEF StartProxy
    <2>2. up \in Free
      BY <2>1, FreeNumbers, LowestIn
    <2> HIDE DEF up, next, failed
    <2>3. ASSUME NEW kind
          PROVE  /\ table(kind)[up].c = c /\ table(kind)[up].kind = kind
                 /\ \A x \in DOMAIN endpoint : table(kind)[x] = endpoint[x]
      <3>1. /\ table(kind)[up] = [kind |-> kind, c |-> c]
            /\ \A x \in DOMAIN endpoint : table(kind)[x] = endpoint[x]
        BY <2>2 DEF @@, :>, Free
      <3>2. table(kind)[up].c = c /\ table(kind)[up].kind = kind
        BY <3>1
      <3> HIDE DEF table
      <3> QED
        BY <3>1, <3>2
    <2>4. AsksRight(next, c, client', unsent', unread', reply')
      <3>1. next.at = "to_proxy"
        BY TurnedFields DEF next
      <3> QED
        BY <1>1, <3>1 DEF AsksRight
    <2>5. /\ AsksRight(failed, c, client', unsent', unread', reply')
          /\ h.sock \in DOMAIN endpoint /\ endpoint[h.sock].c = c
      <3>1. /\ h.sock \in Fds /\ h.sock \in DOMAIN endpoint
            /\ endpoint[h.sock] = [kind |-> "client", c |-> c]
        BY <1>1, Served
      <3>2. failed.at = "response" /\ failed.left = Units /\ failed.status = 502
        BY <1>2, <1>7, <3>1, RespondingHeld, RespondingFields DEF failed
      <3>3. Units - Len(<<>>) = Units
        BY ServerAssumption
      <3>4. endpoint[h.sock].c = c
        BY <3>1
      <3> QED
        BY <1>1, <1>2, <1>7, <3>1, <3>2, <3>3, <3>4 DEF AsksRight
    <2> HIDE DEF table
    <2>6. CASE Leaves(fd, up :> next, table("upstream")) /\ leaked' = leaked
      <3>1. Went(c) /\ Busy' = Busy
        BY <1>1, <1>2, <2>3, <2>4, <2>6, OneAsks
      <3> QED
        BY <1>5, <3>1
    <2>7. CASE /\ Leaves(fd, h.sock :> failed, table("failed"))
               /\ leaked' = leaked \cup {up}
      <3>1. \A x \in leaked' : x \in leaked \/ table("failed")[x].kind = "failed"
        BY <2>3, <2>7
      <3>2. table("failed")[h.sock].c = c
        BY <2>3, <2>5
      <3>3. Went(c) /\ Busy' = Busy
        BY <1>1, <1>2, <2>3, <2>5, <2>7, <3>1, <3>2, OneAsks
      <3> QED
        BY <1>5, <3>3
    <2> QED
      BY <2>1, <2>6, <2>7
  <1>10. \/ \E code \in {200, 404, 500} : Answer(fd, h, code) /\ leaked' = leaked
         \/ StartCgi(fd, h, c) \/ StartProxy(fd, h, c)
    BY DEF Dispatch
  <1>11. StartCgi(fd, h, c) => leaked' = leaked
    BY DEF StartCgi
  <1> QED
    BY <1>6, <1>7, <1>8, <1>9, <1>10, <1>11

\* One read of a request: what was read is no longer to be read.
LEMMA ReadRequestServes ==
    ASSUME Inv, ServerInv', ReplyInv', NEW fd \in Fds, NEW ev, ReadRequest(fd, ev)
    PROVE  RequestInv' /\ Step
  <1> DEFINE h == handlers[fd]
             c == endpoint[fd].c
             asks == [h EXCEPT !.request = c]
             taken == /\ unread' = [unread EXCEPT ![c] = 0]
                      /\ unsent' = [unsent EXCEPT ![c] = IF c \in Misread THEN 0 ELSE @]
  <1> USE DEF Inv
  <1>1. /\ Takes(fd, ev) /\ h.at = "request" /\ h.at \notin {"accept", "response"}
        /\ client' = client /\ reply' = reply
    BY DEF ReadRequest
  <1>2. /\ h \in Held /\ c \in Clients /\ SaysOn(c) /\ fd \in interest \ {Acceptor} /\ Running
        /\ CutOff /\ reply[c] = <<>>
    BY <1>1, Served, SaysSame DEF Takes, Running, CutOff, SaysRight
  <1>3. /\ h.left = unsent[c] + unread[c] /\ unsent[c] \in Nat /\ unread[c] \in Nat
        /\ unread \in [Clients -> Nat] /\ unsent \in [Clients -> Nat]
        /\ unsent[c] + unread[c] <= Units /\ DOMAIN inherited = Clients
    BY <1>1, <1>2 DEF RequestInv, AsksRight
  <1>4. CASE /\ client[c] = "reset" /\ Ends(fd, h) /\ leaked' = leaked
             /\ UNCHANGED <<unsent, unread, inherited>>
    <2>1. AsksOn(c)
      BY <1>1, <1>2, <1>3, <1>4 DEF AsksOn
    <2>2. Went(c) /\ Busy' = Busy \ {c}
      BY <1>1, <1>2, <1>4, <2>1, EndsAsks
    <2> QED
      BY <1>1, <1>2, <1>4, <2>1, <2>2, DropStep DEF Went
  <1>5. ASSUME NEW n \in 0..unread[c], unread' = [unread EXCEPT ![c] = @ - n],
               More(fd, h, n), leaked' = leaked, unsent' = unsent, inherited' = inherited
        PROVE  RequestInv' /\ Step
    <2>1. AsksOn(c) /\ unread'[c] = unread[c] - n
      <3>1. /\ unread'[c] = unread[c] - n /\ unread' \in [Clients -> Nat]
            /\ \A d \in Clients \ {c} : unread'[d] = unread[d]
        BY <1>2, <1>3, <1>5
      <3>2. unsent'[c] = unsent[c] /\ unsent'[c] + unread'[c] <= Units
        BY <1>3, <1>5, <3>1, ServerAssumption
      <3> QED
        BY <1>3, <1>5, <3>1, <3>2 DEF AsksOn
    <2>2. \A r : r.at = h.at /\ r.left = h.left - n =>
             AsksRight(r, c, client', unsent', unread', reply')
      BY <1>1, <1>3, <1>5, <2>1 DEF AsksRight
    <2>3. Went(c) /\ Busy' = Busy
      <3>1. n \in Int /\ c = endpoint[fd].c
        BY <1>5
      <3> HIDE DEF c
      <3> QED
        BY <1>1, <1>2, <1>5, <2>1, <2>2, <3>1, MoreAsks
    <2> QED
      BY <1>1, <1>2, <1>5, <2>1, <2>3, SameKept, QuietStep DEF Went
  <1>6. ASSUME NEW n \in 1..unread[c], n >= h.left \/ c \in Misread, taken,
               DOMAIN inherited' = Clients
        PROVE  /\ AsksOn(c) /\ unsent'[c] = 0 /\ unread'[c] = 0
               /\ c \in Misread => Asked[c]
    <2>1. /\ unread'[c] = 0 /\ unsent'[c] = IF c \in Misread THEN 0 ELSE unsent[c]
          /\ unsent' \in [Clients -> Nat] /\ unread' \in [Clients -> Nat]
          /\ \A d \in Clients \ {c} : unsent'[d] = unsent[d] /\ unread'[d] = unread[d]
      BY <1>2, <1>3, <1>6
    <2>2. unsent[c] < Units /\ Units \in Nat
      BY <1>3, ServerAssumption
    <2>3. c \notin Misread => unsent[c] = 0
      BY <1>3, <1>6
    <2>4. unsent'[c] = 0 /\ unsent'[c] + unread'[c] <= Units
      BY <2>1, <2>2, <2>3
    <2>5. AsksOn(c)
      BY <1>6, <2>1, <2>2, <2>3, <2>4 DEF AsksOn
    <2>6. c \in Misread => Asked[c]
      BY <1>2, <2>2 DEF Asked
    <2> QED
      BY <2>1, <2>4, <2>5, <2>6
  <1>7. ASSUME NEW n \in 1..unread[c], n >= h.left \/ c \in Misread, taken,
               Dispatch(fd, asks, c)
        PROVE  RequestInv' /\ Step
    <2>1. asks \in Held /\ Alike(asks, h) /\ asks.request = c
      <3>1. ASSUME NEW g \in Held, NEW d \in Clients
            PROVE  /\ [g EXCEPT !.request = d] \in Held
                   /\ Alike([g EXCEPT !.request = d], g)
                   /\ [g EXCEPT !.request = d].request = d
        BY DEF Held, Alike
      <3> HIDE DEF h, c
      <3> QED
        BY <1>2, <3>1
    <2>2. DOMAIN inherited' = Clients
      BY <1>3, <1>7 DEF Dispatch, StartCgi, StartProxy
    <2>3. AsksOn(c) /\ unsent'[c] = 0 /\ unread'[c] = 0
      BY <1>6, <1>7, <2>2
    <2>4. c = endpoint[fd].c
      OBVIOUS
    <2> HIDE DEF asks, c, taken
    <2> QED
      BY <1>1, <1>7, <2>1, <2>3, <2>4, DispatchServes
  <1>8. ASSUME NEW n \in 1..unread[c], c \in Misread, taken, Refuse(fd, h)
        PROVE  RequestInv' /\ Step
    <2>1. inherited' = inherited /\ leaked' = leaked /\ (Ends(fd, h) \/ Aborts)
      BY <1>8 DEF Refuse
    <2>2. AsksOn(c) /\ Asked[c]
      BY <1>3, <1>6, <1>8, <2>1
    <2> HIDE DEF taken
    <2>3. CASE Ends(fd, h)
      <3>1. Went(c) /\ Busy' = Busy \ {c}
        BY <1>1, <1>2, <2>1, <2>2, <2>3, EndsAsks
      <3> QED
        BY <1>1, <1>2, <1>8, <2>1, <2>2, <3>1, DropStep DEF Went
    <2>4. CASE Aborts
      <3>1. c \in Busy
        BY <1>2 DEF Busy
      <3> QED
        BY <1>1, <1>2, <1>8, <2>1, <2>2, <2>4, <3>1, DownStep
    <2> QED
      BY <2>1, <2>3, <2>4
  <1>9. \/ /\ client[c] = "reset" /\ Ends(fd, h) /\ leaked' = leaked
           /\ UNCHANGED <<unsent, unread, inherited>>
        \/ More(fd, h, 0) /\ leaked' = leaked /\ UNCHANGED <<unsent, unread, inherited>>
        \/ \E n \in 1..unread[c] :
              \/ /\ unread' = [unread EXCEPT ![c] = @ - n]
                 /\ More(fd, h, n) /\ leaked' = leaked /\ unsent' = unsent
                 /\ inherited' = inherited
              \/ (n >= h.left \/ c \in Misread) /\ Dispatch(fd, asks, c) /\ taken
              \/ c \in Misread /\ Refuse(fd, h) /\ taken
    BY Zenon DEF ReadRequest
  <1>10. unread' = unread => unread' = [unread EXCEPT ![c] = @ - 0]
    BY <1>3
  <1>11. 0 \in 0..unread[c] /\ \A n \in 1..unread[c] : n \in 0..unread[c]
    BY <1>3
  <1> HIDE DEF asks, h, c, taken, Inv
  <1> QED
    BY <1>4, <1>5, <1>7, <1>8, <1>9, <1>10, <1>11

\* A continuation past the request: all of it was sent and read.
LEMMA PastRequest ==
    ASSUME Inv, NEW fd \in Fds, NEW ev, Takes(fd, ev),
           handlers[fd].at \notin {"accept", "request"}
    PROVE  LET c == endpoint[fd].c
           IN  /\ c \in Clients /\ c \in Busy /\ Running /\ unsent[c] = 0 /\ unread[c] = 0
               /\ handlers[fd].request = c /\ Asked[c]
               /\ AsksRight(handlers[fd], c, client, unsent, unread, reply)
               /\ (UNCHANGED <<unsent, unread, inherited>> => AsksOn(c))
  <1> DEFINE c == endpoint[fd].c
  <1>1. /\ fd \in interest \ {Acceptor} /\ c \in Clients /\ Running
    BY Served DEF Inv, Takes, Running
  <1>2. AsksRight(handlers[fd], c, client, unsent, unread, reply)
    BY <1>1 DEF Inv, RequestInv
  <1>3. unsent[c] = 0 /\ unread[c] = 0
    BY <1>2 DEF AsksRight
  <1>4. handlers[fd].request = c
    BY <1>1 DEF Inv, ReplyInv, SaysRight
  <1>5. UNCHANGED <<unsent, unread, inherited>> => AsksOn(c)
    BY <1>1 DEF Inv, RequestInv, AsksOn
  <1>6. Asked[c]
    BY <1>1, <1>3, AllAsked
  <1> QED
    BY <1>1, <1>2, <1>3, <1>4, <1>5, <1>6 DEF Busy

\* While a peer is served its client sees nothing of it.
LEMMA PeerServes ==
    ASSUME Inv, ServerInv', ReplyInv', NEW fd \in Fds, NEW ev, Takes(fd, ev),
           handlers[fd].at \notin {"accept", "request", "response"},
           UNCHANGED clients, leaked' = leaked, inherited' = inherited,
           NEW c, c = endpoint[fd].c
    PROVE  /\ \A n \in Int : More(fd, handlers[fd], n) => RequestInv' /\ Step
           /\ \A code \in Status : Answer(fd, handlers[fd], code) => RequestInv' /\ Step
           /\ (Aborts \/ Killed) /\ c \in Rude \cup Flaky \cup Misread => RequestInv' /\ Step
           /\ Went(c) /\ Busy' = Busy => RequestInv' /\ Step
  <1> USE DEF Inv
  <1> DEFINE h == handlers[fd]
  <1>1. /\ client' = client /\ reply' = reply /\ unsent' = unsent /\ unread' = unread
        /\ CutOff /\ KeptOn /\ h.at # "accept"
    BY SameKept DEF clients, CutOff
  <1>2. /\ c \in Clients /\ c \in Busy /\ Running /\ unsent[c] = 0 /\ unread[c] = 0
        /\ h.request = c /\ AsksOn(c) /\ SaysOn(c) /\ Asked[c]
    BY <1>1, PastRequest, SaysSame
  <1>3. ASSUME Went(c), Busy' = Busy
        PROVE  RequestInv' /\ Step
    BY <1>1, <1>2, <1>3, QuietStep DEF Went
  <1>4. ASSUME NEW n \in Int, More(fd, h, n)
        PROVE  RequestInv' /\ Step
    <2>1. \A r : r.at = h.at => AsksRight(r, c, client', unsent', unread', reply')
      BY <1>1, <1>2 DEF AsksRight
    <2>2. Went(c) /\ Busy' = Busy
      BY <1>1, <1>2, <1>4, <2>1, MoreAsks
    <2> QED
      BY <1>3, <2>2
  <1>5. ASSUME NEW code \in Status, Answer(fd, h, code)
        PROVE  RequestInv' /\ Step
    <2>1. Went(c) /\ Busy' = Busy
      BY <1>1, <1>2, <1>5, AnswerAsks
    <2> QED
      BY <1>3, <2>1
  <1>6. ASSUME Aborts \/ Killed, c \in Rude \cup Flaky \cup Misread
        PROVE  RequestInv' /\ Step
    BY <1>1, <1>2, <1>6, DownStep
  <1> QED
    BY <1>3, <1>4, <1>5, <1>6

\* One write to a peer.
LEMMA WritePeerServes ==
    ASSUME Inv, ServerInv', ReplyInv', NEW fd \in Fds, NEW ev, WritePeer(fd, ev)
    PROVE  RequestInv' /\ Step
  <1> DEFINE h == handlers[fd]
             c == endpoint[fd].c
             next == IF h.at = "to_cgi"
                     THEN [h EXCEPT !.at = "from_cgi", !.to = NoFd, !.left = Units]
                     ELSE [h EXCEPT !.at = "from_proxy", !.to = NoFd, !.from = h.to,
                                    !.left = Units]
             table == Without(endpoint, Captured(h) \ Captured(next))
  <1> USE DEF Inv
  <1>1. /\ Takes(fd, ev) /\ h.at \in {"to_cgi", "to_proxy"}
        /\ h.at \notin {"accept", "request", "response"} /\ UNCHANGED clients /\ leaked' = leaked
        /\ client' = client /\ reply' = reply /\ unsent' = unsent /\ unread' = unread
        /\ inherited' = inherited
    BY DEF WritePeer, clients, peers
  <1>2. /\ h \in Held /\ WaitsRight(h, fd, endpoint) /\ Captured(h) \subseteq DOMAIN endpoint
        /\ Captured(h) \subseteq Fds /\ PeerWaits(h, c, peer, peerUnsent)
    BY <1>1, Served
  <1>3. SaysOn(c) /\ AsksOn(c) /\ unsent[c] = 0 /\ unread[c] = 0
    BY <1>1, SaysSame, PastRequest
  <1>4. ASSUME Leaves(fd, next.from :> next, table)
        PROVE  Went(c) /\ Busy' = Busy
    <2> DEFINE at == IF h.at = "to_cgi" THEN "from_cgi" ELSE "from_proxy"
               from == IF h.at = "to_cgi" THEN h.from ELSE h.to
    <2>1. next = Turned(h, at, NoFd, from, Units)
      <3>1. ASSUME NEW g \in Held, NEW a, NEW n
            PROVE  [g EXCEPT !.at = a, !.to = NoFd, !.left = n] = Turned(g, a, NoFd, g.from, n)
        BY DEF Held, Turned
      <3>2. CASE h.at = "to_cgi"
        BY <1>2, <3>1, <3>2
      <3>3. CASE h.at # "to_cgi"
        BY <3>3 DEF Turned
      <3> QED
        BY <3>2, <3>3
    <2>2. from \in Fds /\ from # NoFd /\ from \in Captured(h) /\ endpoint[from].c = c
      BY <1>1, <1>2, FreeNumbers DEF WaitsRight, Captured
    <2>3. at \in Stages /\ at \notin {"accept", "request", "response"} /\ Units \in Int
      BY ServerAssumption DEF Stages
    <2> HIDE DEF at, from, next
    <2>4. next.from = from /\ next.at = at
      BY <1>2, <2>1, <2>2, <2>3, TurnedToRead
    <2>5. AsksRight(next, c, client', unsent', unread', reply')
      BY <1>1, <1>3, <2>3, <2>4 DEF AsksRight
    <2>6. \A x \in DOMAIN table : x \in DOMAIN endpoint /\ table[x] = endpoint[x]
      BY DEF Without
    <2>7. table[from].c = c
      <3>1. from \in Captured(next)
        BY <2>2, <2>4 DEF Captured
      <3> QED
        BY <1>2, <2>2, <3>1 DEF Without
    <2>8. Leaves(fd, from :> next, table)
      BY <1>4, <2>4
    <2> HIDE DEF table, h, c
    <2>9. handlers[fd].at # "accept" /\ c = endpoint[fd].c
      BY <1>1 DEF h, c
    <2> QED
      BY <1>1, <1>3, <2>5, <2>6, <2>7, <2>8, <2>9, OneAsks
  <1>5. CASE Killed /\ peer[c] = "gone"
    <2>1. c \in Rude \cup Flaky
      BY <1>1, <1>2, <1>5, PastRequest DEF PeerWaits, Ready
    <2> QED
      BY <1>1, <1>5, <2>1, PeerServes
  <1>6. {502, 503} \subseteq Status /\ {0, 1} \subseteq Int
    BY DEF Status
  <1>7. \/ More(fd, h, 1) \/ More(fd, h, 0) \/ (Killed /\ peer[c] = "gone")
        \/ Leaves(fd, next.from :> next, table)
        \/ \E code \in {502, 503} : Answer(fd, h, code)
    BY ZenonT(60) DEF WritePeer
  <1>8. c = endpoint[fd].c
    OBVIOUS
  <1> HIDE DEF next, table, c, Inv
  <1> QED
    BY <1>1, <1>4, <1>5, <1>6, <1>7, <1>8, PeerServes

\* One read from a peer.
LEMMA ReadPeerServes ==
    ASSUME Inv, ServerInv', ReplyInv', NEW fd \in Fds, NEW ev, ReadPeer(fd, ev)
    PROVE  RequestInv' /\ Step
  <1> DEFINE h == handlers[fd]
             c == endpoint[fd].c
  <1>1. /\ Takes(fd, ev) /\ h.at \in {"from_cgi", "from_proxy"}
        /\ h.at \notin {"accept", "request", "response"} /\ UNCHANGED clients /\ leaked' = leaked
        /\ inherited' = inherited
    BY DEF ReadPeer
  <1>2. {200, 502, 503} \subseteq Status /\ 0 \in Int /\ \A n \in 1..peerUnread[c] : n \in Int
    BY DEF Status
  <1>3. \/ More(fd, h, 0) \/ (Aborts /\ c \in Misread)
        \/ \E n \in 1..peerUnread[c] : More(fd, h, n)
        \/ \E code \in {200, 502, 503} : Answer(fd, h, code)
    <2> DEFINE failure == IF h.at = "from_cgi" THEN 503 ELSE 502
    <2>1. \/ More(fd, h, 0) \/ (Aborts /\ c \in Misread)
          \/ \E n \in 1..peerUnread[c] : More(fd, h, n)
          \/ Answer(fd, h, 200) \/ Answer(fd, h, failure)
      BY Zenon DEF ReadPeer
    <2>2. failure \in {200, 502, 503} /\ 200 \in {200, 502, 503}
      OBVIOUS
    <2> HIDE DEF failure
    <2> QED
      BY <2>1, <2>2
  <1>4. c = endpoint[fd].c
    OBVIOUS
  <1> HIDE DEF c
  <1> QED
    BY <1>1, <1>2, <1>3, <1>4, PeerServes

\* A part of a response that a client receives: its own, after its request.
LEMMA DeliverStep ==
    ASSUME Inv, ServerInv', ReplyInv', NEW c \in Busy, Went(c), NEW s \in Status,
           client' = client, client[c] = "open", AsksOn(c), Asked[c], inherited' = inherited,
           \A i \in 1..Len(reply[c]) : reply[c][i] = <<s, c>>,
           reply' = [reply EXCEPT ![c] = Append(@, <<s, c>>)],
           Busy' = IF Len(reply'[c]) = Units THEN Busy \ {c} ELSE Busy
    PROVE  Step
  <1>1. Inv' /\ Running /\ Running' = Running /\ CutOff
    BY DEF Inv, Went, Running, CutOff
  <1>2. c \in Clients /\ Connection[c] = "open"
    BY <1>1, BusyOpen
  <1>3. Presence[c] = "open" /\ Presence' = Presence
    BY <1>1, <1>2, SameSeen DEF Presence
  <1>4. IF Len(reply'[c]) = Units
        THEN \E is \in {"kept", "closed"} : Connection' = [Connection EXCEPT ![c] = is]
        ELSE Connection' = Connection
    <2>1. CASE Len(reply'[c]) = Units
      BY <1>1, <2>1, ClosesOne
    <2>2. CASE Len(reply'[c]) # Units
      BY <1>1, <2>2, SameSeen, ConnectionSame
    <2> QED
      BY <2>1, <2>2
  <1>5. Asked' = Asked
    BY <1>2, SameAsked
  <1>6. Service!Deliver(c)
    BY <1>1, <1>2, <1>3, <1>4, <1>5 DEF Service!Deliver, Service!GivenUp
  <1> QED
    BY <1>2, <1>6 DEF Step, Service!Next

\* One write of a response: the client receives a part, or has hung up.
LEMMA WriteResponseServes ==
    ASSUME Inv, ServerInv', ReplyInv', NEW fd \in Fds, NEW ev, WriteResponse(fd, ev)
    PROVE  RequestInv' /\ Step
  <1> DEFINE h == handlers[fd]
             c == endpoint[fd].c
             said == reply[c]
  <1> USE DEF Inv
  <1>1. /\ Takes(fd, ev) /\ h.at = "response" /\ h.at \notin {"accept", "request"}
        /\ unsent' = unsent /\ unread' = unread /\ leaked' = leaked /\ inherited' = inherited
        /\ KeptOn
    BY SameKept DEF WriteResponse, peers
  <1>2. /\ h \in Held /\ c \in Clients /\ c \in Busy /\ Running /\ fd \in interest \ {Acceptor}
        /\ unsent[c] = 0 /\ unread[c] = 0 /\ h.request = c /\ AsksOn(c) /\ Asked[c]
    BY <1>1, Served, PastRequest
  <1>3. /\ h.status \in Status /\ h.left \in Int
        /\ client[c] = "open" => h.left = Units - Len(said)
    BY <1>1, <1>2, PastRequest DEF AsksRight, Held
  <1>4. /\ \A i \in 1..Len(said) : said[i] = <<h.status, c>>
        /\ h.left >= 1 /\ Len(said) \in Nat /\ Units \in Nat
        /\ OneResponse(said, c) /\ DOMAIN reply = Clients
    <2>1. SaysRight(h, c, reply) /\ OneResponse(said, c) /\ DOMAIN reply = Clients
      BY <1>2 DEF ReplyInv
    <2>2. h.left >= 1 /\ \A i \in 1..Len(said) : said[i] = <<h.status, c>>
      BY <1>1, <2>1 DEF SaysRight
    <2>3. Len(said) \in Nat /\ Units \in Nat
      BY <2>1, ServerAssumption DEF OneResponse
    <2> QED
      BY <2>1, <2>2, <2>3
  <1>5. client[c] \in {"fin", "reset"} => c \in Rude
    BY <1>2 DEF ServerInv, Environment
  <1>6. ASSUME NEW n \in Int, More(fd, h, n), SaysOn(c),
               client'[c] = "open" => h.left - n = Units - Len(reply'[c])
        PROVE  Went(c) /\ Busy' = Busy
    <2>1. \A r : r.at = h.at /\ r.status = h.status /\ r.left = h.left - n =>
             AsksRight(r, c, client', unsent', unread', reply')
      BY <1>1, <1>2, <1>3, <1>6 DEF AsksRight
    <2>2. c = endpoint[fd].c
      OBVIOUS
    <2> HIDE DEF c
    <2> QED
      BY <1>1, <1>2, <1>6, <2>1, <2>2, MoreAsks
  <1>7. ASSUME Ends(fd, h), SaysOn(c)
        PROVE  Went(c) /\ Busy' = Busy \ {c}
    BY <1>1, <1>2, <1>7, EndsAsks
  <1>8. reply' = reply /\ client' = client => SaysOn(c) /\ CutOff
    BY <1>1, SaysSame DEF CutOff
  <1>9. CASE /\ client' = client /\ client[c] = "open"
             /\ reply' = [reply EXCEPT ![c] = Append(@, <<h.status, h.request>>)]
             /\ \/ h.left > 1 /\ More(fd, h, 1)
                \/ ~ (h.left > 1) /\ Ends(fd, h)
    <2>1. /\ reply'[c] = Append(said, <<h.status, c>>) /\ DOMAIN reply' = Clients
          /\ \A d \in Clients \ {c} : reply'[d] = reply[d]
      BY <1>2, <1>4, <1>9
    <2>2. Len(reply'[c]) = Len(said) + 1 /\ OneResponse(reply'[c], c)
      <3>1. OneResponse(reply'[c], c)
        BY <1>2 DEF ReplyInv
      <3>2. Len(Append(said, <<h.status, c>>)) = Len(said) + 1
        BY <1>4 DEF OneResponse
      <3> QED
        BY <2>1, <3>1, <3>2
    <2>3. SaysOn(c)
      BY <1>9, <2>1, <2>2 DEF SaysOn
    <2>4. Went(c) /\ Busy' = IF Len(reply'[c]) = Units THEN Busy \ {c} ELSE Busy
      <3> DEFINE left == h.left
                 had == Len(said)
                 has == Len(reply'[c])
      <3>a. left \in Int /\ left >= 1 /\ left = Units - had /\ has = had + 1
            /\ had \in Nat /\ Units \in Nat
        BY <1>3, <1>4, <1>9, <2>2
      <3>b. /\ left > 1 => left - 1 = Units - has /\ has # Units
            /\ ~ (left > 1) => has = Units
        <4> HIDE DEF left, had, has
        <4> QED
          BY <3>a
      <3>1. CASE h.left > 1 /\ More(fd, h, 1)
        <4>1. h.left - 1 = Units - Len(reply'[c]) /\ Len(reply'[c]) # Units
          BY <3>b, <3>1
        <4> QED
          BY <1>6, <2>3, <3>1, <4>1
      <3>2. CASE ~ (h.left > 1) /\ Ends(fd, h)
        <4>1. Len(reply'[c]) = Units
          BY <3>b, <3>2
        <4> QED
          BY <1>7, <2>3, <3>2, <4>1
      <3> QED
        BY <1>9, <3>1, <3>2
    <2>5. reply' = [reply EXCEPT ![c] = Append(@, <<h.status, c>>)]
      BY <1>2, <1>9
    <2>6. Step
      <3> DEFINE s == h.status
      <3>1. s \in Status /\ \A i \in 1..Len(reply[c]) : reply[c][i] = <<s, c>>
        BY <1>3, <1>4
      <3>2. reply' = [reply EXCEPT ![c] = Append(@, <<s, c>>)]
        BY <2>5
      <3>3. client' = client /\ client[c] = "open"
        BY <1>9
      <3> HIDE DEF s, c, Inv
      <3> QED
        BY <1>1, <1>2, <2>4, <3>1, <3>2, <3>3, DeliverStep
    <2> QED
      BY <2>4, <2>6 DEF Went
  <1>10. CASE client' = client /\ reply' = reply /\ More(fd, h, 0)
    <2>1. Went(c) /\ Busy' = Busy
      BY <1>3, <1>6, <1>8, <1>10
    <2> QED
      BY <1>1, <1>2, <1>8, <1>10, <2>1, QuietStep DEF Went
  <1>11. CASE /\ client[c] = "fin" /\ reply' = reply /\ client' = [client EXCEPT ![c] = "reset"]
              /\ \/ h.left > 1 /\ More(fd, h, 1)
                 \/ ~ (h.left > 1) /\ Ends(fd, h)
    <2>1. SaysOn(c) /\ CutOff /\ client'[c] = "reset"
      BY <1>2, <1>4, <1>11 DEF SaysOn, CutOff, ReplyInv, ServerInv, Environment
    <2>2. CASE h.left > 1 /\ More(fd, h, 1)
      <3>1. Went(c) /\ Busy' = Busy
        BY <1>6, <2>1, <2>2
      <3> QED
        BY <1>1, <1>2, <1>11, <2>1, <3>1, QuietStep DEF Went
    <2>3. CASE Ends(fd, h)
      <3>1. Went(c) /\ Busy' = Busy \ {c}
        BY <1>7, <2>1, <2>3
      <3> QED
        BY <1>1, <1>2, <1>11, <2>1, <3>1, DropStep DEF Went
    <2> QED
      BY <1>11, <2>2, <2>3
  <1>12. CASE /\ client[c] = "reset" /\ client' = client /\ reply' = reply
              /\ (Killed \/ Ends(fd, h))
    <2>1. CASE Killed
      BY <1>1, <1>2, <1>5, <1>12, <2>1, DownStep
    <2>2. CASE Ends(fd, h)
      <3>1. Went(c) /\ Busy' = Busy \ {c}
        BY <1>7, <1>8, <1>12, <2>2
      <3> QED
        BY <1>1, <1>2, <1>8, <1>12, <3>1, DropStep DEF Went
    <2> QED
      BY <1>12, <2>1, <2>2
  <1>13. \/ /\ client' = client /\ client[c] = "open"
            /\ reply' = [reply EXCEPT ![c] = Append(@, <<h.status, h.request>>)]
            /\ \/ h.left > 1 /\ More(fd, h, 1)
               \/ ~ (h.left > 1) /\ Ends(fd, h)
         \/ client' = client /\ reply' = reply /\ More(fd, h, 0)
         \/ /\ client[c] = "fin" /\ reply' = reply /\ client' = [client EXCEPT ![c] = "reset"]
            /\ \/ h.left > 1 /\ More(fd, h, 1)
               \/ ~ (h.left > 1) /\ Ends(fd, h)
         \/ /\ client[c] = "reset" /\ client' = client /\ reply' = reply
            /\ (Killed \/ Ends(fd, h))
    BY Zenon DEF WriteResponse
  <1> HIDE DEF h, c, said, Inv
  <1> QED
    BY <1>9, <1>10, <1>11, <1>12, <1>13

\* Where no handler runs the server shows nothing new.
LEMMA NothingServed ==
    ASSUME Inv, ServerInv', ReplyInv', UNCHANGED <<interest, handlers, endpoint, leaked, clients>>,
           Running' = Running, KeptOn, DOMAIN inherited' = DOMAIN inherited
    PROVE  RequestInv' /\ Step
  <1>1. /\ client' = client /\ reply' = reply /\ unsent' = unsent /\ unread' = unread
        /\ Busy' = Busy /\ Asked' = Asked /\ CutOff
    BY DEF clients, Busy, Asked, CutOff
  <1>2. RequestInv'
    BY <1>1 DEF Inv, RequestInv
  <1> QED
    BY <1>1, <1>2, Quiet DEF Inv

\* What a client does by itself.
LEMMA ClientServed ==
    ASSUME Inv, ServerInv', ReplyInv', NEW c \in Clients, Connect(c) \/ SendPart(c) \/ HangUp(c)
    PROVE  RequestInv' /\ Step
  <1> USE DEF Inv
  <1>1. /\ UNCHANGED <<interest, handlers, endpoint, leaked, reply, inherited>> /\ lpc' = lpc
        /\ Running' = Running /\ Busy' = Busy /\ KeptOn
    BY SameKept DEF Connect, SendPart, HangUp, server, peers, Running, Busy
  <1>2. /\ unsent \in [Clients -> Nat] /\ unread \in [Clients -> Nat]
        /\ client \in [Clients -> {"new", "backlog", "open", "fin", "reset"}]
    BY DEF RequestInv, ServerInv, Environment
  <1>3. ASSUME NEW fd \in interest \ {Acceptor}, Running
        PROVE  /\ AsksRight(handlers[fd], endpoint[fd].c, client, unsent, unread, reply)
               /\ endpoint[fd].c \in Clients /\ client[endpoint[fd].c] \notin {"new", "backlog"}
    BY <1>3, BusyOpen DEF RequestInv, Busy
  <1>4. CASE Connect(c)
    <2>1. /\ client[c] = "new" /\ client' = [client EXCEPT ![c] = "backlog"]
          /\ unsent' = unsent /\ unread' = unread
      BY <1>4 DEF Connect
    <2>2. RequestInv'
      <3>1. \A d \in Clients : client'[d] \in {"new", "backlog"} => unsent'[d] + unread'[d] = Units
        BY <1>2, <2>1 DEF RequestInv
      <3>2. ASSUME NEW fd \in interest \ {Acceptor}, Running
            PROVE  AsksRight(handlers[fd], endpoint[fd].c, client', unsent', unread', reply)
        BY <1>2, <1>3, <2>1, <3>2 DEF AsksRight
      <3> QED
        BY <1>1, <1>2, <2>1, <3>1, <3>2 DEF RequestInv
    <2>3. Connection' = Connection
      BY <1>1, <1>2, <2>1, <2>2, ConnectionSame
    <2>4. Presence[c] = "new" /\ Presence' = [Presence EXCEPT ![c] = "backlog"]
      BY <1>2, <2>1 DEF Presence
    <2>5. Service!Connect(c)
      BY <1>1, <2>1, <2>3, <2>4 DEF Service!Connect, Asked
    <2> QED
      BY <2>2, <2>5 DEF Step, Service!Next
  <1>5. CASE SendPart(c)
    <2>1. /\ client[c] = "open" /\ unsent[c] > 0 /\ client' = client
          /\ unsent' = [unsent EXCEPT ![c] = @ - 1]
          /\ unread' = [unread EXCEPT ![c] = @ + 1]
      BY <1>5 DEF SendPart
    <2>2. /\ unsent' \in [Clients -> Nat] /\ unread' \in [Clients -> Nat]
          /\ \A d \in Clients : unsent'[d] + unread'[d] = unsent[d] + unread[d]
          /\ \A d \in Clients \ {c} : unsent'[d] = unsent[d] /\ unread'[d] = unread[d]
      BY <1>2, <2>1
    <2>3. RequestInv'
      <3>1. ASSUME NEW fd \in interest \ {Acceptor}, Running
            PROVE  AsksRight(handlers[fd], endpoint[fd].c, client', unsent', unread', reply)
        BY <1>3, <2>1, <2>2, <3>1 DEF AsksRight
      <3> QED
        BY <1>1, <2>1, <2>2, <3>1 DEF RequestInv
    <2>4. Connection' = Connection /\ CutOff
      BY <1>1, <2>1, <2>3, ConnectionSame DEF CutOff
    <2>5. Presence[c] = "open" /\ Presence' = Presence
      BY <2>1 DEF Presence
    <2>6. CASE Asked'[c] = Asked[c]
      <3>1. \A d \in Clients \ {c} : unsent'[d] = unsent[d]
        BY <2>2
      <3>2. Asked' = Asked
        BY <2>6, <3>1 DEF Asked
      <3> QED
        BY <1>1, <2>3, <2>4, <3>2, Quiet
    <2>7. CASE Asked'[c] # Asked[c]
      <3>1. Asked'[c] = TRUE
        <4>1. unsent'[c] = unsent[c] - 1 /\ unsent[c] \in Nat /\ unsent[c] > 0
          BY <1>2, <2>1
        <4>2. unsent[c] # 0 /\ unsent'[c] < Units
          BY <1>2, <4>1, ServerAssumption DEF RequestInv
        <4>3. CASE c \in Misread
          BY <4>2, <4>3 DEF Asked
        <4>4. CASE c \notin Misread
          <5>1. (unsent'[c] = 0) = TRUE
            BY <2>7, <4>2, <4>4 DEF Asked
          <5> QED
            BY <4>4, <5>1 DEF Asked
        <4> QED
          BY <4>3, <4>4
      <3>2. \A d \in Clients \ {c} : Asked'[d] = Asked[d]
        BY <2>2 DEF Asked
      <3>3. Asked' = [Asked EXCEPT ![c] = TRUE]
        BY <3>1, <3>2 DEF Asked
      <3>4. Service!Ask(c)
        BY <1>1, <2>4, <2>5, <3>3 DEF Service!Ask
      <3> QED
        BY <2>3, <3>4 DEF Step, Service!Next
    <2> QED
      BY <2>6, <2>7
  <1>6. CASE HangUp(c)
    <2>1. /\ c \in Rude /\ unsent' = unsent /\ unread' = unread
          /\ \/ client[c] = "open" /\ client' = [client EXCEPT ![c] = "fin"]
             \/ client[c] \in {"open", "fin"} /\ client' = [client EXCEPT ![c] = "reset"]
      BY <1>6 DEF HangUp
    <2>2. /\ client'[c] \in {"fin", "reset"}
          /\ \A d \in Clients \ {c} : client'[d] = client[d]
      BY <1>2, <2>1
    <2>3. RequestInv'
      <3>1. \A d \in Clients : client'[d] \in {"new", "backlog"} => unsent'[d] + unread'[d] = Units
        BY <2>1, <2>2 DEF RequestInv
      <3>2. ASSUME NEW fd \in interest \ {Acceptor}, Running
            PROVE  AsksRight(handlers[fd], endpoint[fd].c, client', unsent', unread', reply)
        BY <1>3, <2>1, <2>2, <3>2 DEF AsksRight
      <3> QED
        BY <1>1, <1>2, <2>1, <3>1, <3>2 DEF RequestInv
    <2>4. CASE client[c] = "open"
      <3>1. Connection' = Connection /\ Asked' = Asked
        BY <1>1, <2>1, <2>2, <2>3, <2>4, ConnectionSame DEF Asked
      <3>2. Presence[c] = "open" /\ Presence' = [Presence EXCEPT ![c] = "gone"]
        BY <2>2, <2>4 DEF Presence
      <3>3. Service!HangUp(c)
        BY <1>1, <2>1, <3>1, <3>2 DEF Service!HangUp
      <3> QED
        BY <2>3, <3>3 DEF Step, Service!Next
    <2>5. CASE client[c] = "fin"
      <3>1. CutOff
        BY <1>2, <2>1, <2>2, <2>5 DEF CutOff
      <3> QED
        BY <1>1, <2>1, <2>3, <3>1, Quiet DEF Asked
    <2> QED
      BY <2>1, <2>4, <2>5
  <1> QED
    BY <1>4, <1>5, <1>6

\* The server starts with nobody connected.
LEMMA InitService == Init => RequestInv /\ Service!Init
  <1> SUFFICES ASSUME Init PROVE RequestInv /\ Service!Init
    OBVIOUS
  <1>1. /\ interest = {Acceptor} /\ leaked = {} /\ lpc = "block"
        /\ endpoint = Acceptor :> [kind |-> "acceptor", c |-> NoClient]
        /\ client = [c \in Clients |-> "new"] /\ reply = [c \in Clients |-> <<>>]
        /\ unsent = [c \in Clients |-> Units] /\ unread = [c \in Clients |-> 0]
        /\ inherited = [c \in Clients |-> {}]
    BY DEF Init
  <1>2. endpoint[Acceptor].kind = "acceptor"
    BY <1>1 DEF :>
  <1>3. Units \in Nat
    BY ServerAssumption
  <1>4. RequestInv
    BY <1>1, <1>2, <1>3 DEF RequestInv
  <1>5. Presence = [c \in Clients |-> "new"] /\ Connection = [c \in Clients |-> "none"]
    BY <1>1 DEF Presence, Connection
  <1>6. Running = TRUE
    BY <1>1 DEF Running
  <1>7. Asked = [c \in Clients |-> FALSE]
    <2>1. \A c \in Clients : unsent[c] = Units
      BY <1>1
    <2>2. ~ (Units < Units) /\ Units # 0
      BY ServerAssumption
    <2>3. \A c \in Clients :
             (IF c \in Misread THEN unsent[c] < Units ELSE unsent[c] = 0) = FALSE
      BY <2>1, <2>2
    <2> QED
      BY <2>3 DEF Asked
  <1> QED
    BY <1>1, <1>4, <1>5, <1>6, <1>7 DEF Service!Init

\* Every step is one that HttpService allows, or shows nothing.
LEMMA NextServes == ServerInv /\ ReplyInv /\ RequestInv /\ [Next]_vars => RequestInv' /\ Step
  <1> SUFFICES ASSUME Inv, [Next]_vars PROVE RequestInv' /\ Step
    BY DEF Inv
  <1>1. ServerInv' /\ ReplyInv'
    BY NextKeepsServer, NextKeepsReply DEF Inv
  <1>2. CASE UNCHANGED vars \/ Block \/ EndBatch
    <2>1. UNCHANGED <<interest, handlers, endpoint, leaked, clients, inherited>>
      BY <1>2 DEF vars, Block, EndBatch, clients, peers
    <2>2. Running' = Running
      <3>1. EndBatch => lpc' # "threw"
        BY <1>1 DEF ServerInv, Tables
      <3> QED
        BY <1>2, <3>1 DEF vars, Block, EndBatch, Running
    <2> QED
      BY <1>1, <2>1, <2>2, SameKept, NothingServed
  <1>3. ASSUME NEW fd \in Fds, NEW ev \in Events, Serve(fd, ev)
        PROVE  RequestInv' /\ Step
    BY <1>1, <1>3, AcceptServes, ReadRequestServes, WritePeerServes, ReadPeerServes,
       WriteResponseServes DEF Serve
  <1>4. ASSUME NEW c \in Clients, PeerSend(c) \/ PeerLeave(c)
        PROVE  RequestInv' /\ Step
    <2>1. UNCHANGED <<interest, handlers, endpoint, leaked, clients>> /\ Running' = Running
      BY <1>4 DEF PeerSend, PeerLeave, server, Running
    <2>2. inherited' = inherited \/ inherited' = [inherited EXCEPT ![c] = {}]
      BY <1>4 DEF PeerSend, PeerLeave
    <2>3. KeptOn /\ DOMAIN inherited' = DOMAIN inherited
      <3>1. \A d \in DOMAIN inherited : inherited'[d] \subseteq inherited[d]
        BY <2>2
      <3>2. DOMAIN inherited = Clients /\ DOMAIN inherited' = DOMAIN inherited
        BY <2>2 DEF Inv, RequestInv
      <3> QED
        BY <3>1, <3>2 DEF KeptOn, Kept, SomeChildHas
    <2> QED
      BY <1>1, <2>1, <2>3, NothingServed
  <1>5. ASSUME NEW c \in Clients, Connect(c) \/ SendPart(c) \/ HangUp(c)
        PROVE  RequestInv' /\ Step
    BY <1>1, <1>5, ClientServed
  <1> QED
    BY <1>2, <1>3, <1>4, <1>5 DEF Next, Serve

\* What of a request is to be sent and read agrees with what its continuation
\* waits for, in every reachable state.
THEOREM RequestCorrect == Spec => [](ServerInv /\ ReplyInv /\ RequestInv)
  <1>1. Init => ServerInv /\ ReplyInv /\ RequestInv
    BY InitServer, InitReply, InitService
  <1>2. ServerInv /\ ReplyInv /\ RequestInv /\ [Next]_vars =>
           ServerInv' /\ ReplyInv' /\ RequestInv'
    BY NextKeepsServer, NextKeepsReply, NextServes
  <1> QED
    BY <1>1, <1>2, PTL DEF Spec

\* The pipelines of webserv, whatever becomes of clients, peers and descriptors,
\* do what HttpService promises each client.
THEOREM ImplementsServiceCorrect == Spec => ImplementsService
  <1>1. Init => Service!Init
    BY InitService
  <1>2. ServerInv /\ ReplyInv /\ RequestInv /\ [Next]_vars => [Service!Next]_(Service!vars)
    BY NextServes DEF Step
  <1> QED
    BY <1>1, <1>2, RequestCorrect, PTL DEF Spec, ImplementsService, Service!Spec
=============================================================================

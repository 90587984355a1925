------------------------- MODULE SignalingRoomsProofs -------------------------
(***************************************************************************)
(* What holds of the rooms of the signalling server for every number of    *)
(* tabs, rooms, sockets, places and restarts.                              *)
(*                                                                         *)
(* The cleanup task deletes what it saw a moment ago: a room that came back *)
(* to life meanwhile is deleted too, which breaks every promise below.     *)
(* They are proved of the behaviours in which it is not late, FreshSweeps; *)
(* in the first minute of the server, when it does not run, that is all of *)
(* them.                                                                   *)
(***************************************************************************)
EXTENDS SignalingRooms, FunctionTheorems, FiniteSetTheorems, SequenceTheorems,
        WellFoundedInduction, TLAPS

InTime == sweep.phase = "waiting" /\ sweep'.phase # "waiting" =>
            DOMAIN srv.rooms \ DOMAIN srv'.rooms \subseteq Zombies(srv)

FreshSweeps == [][InTime]_vars

(***************************************************************************)
(* The invariant, of the server's memory st and the sockets k.             *)
(***************************************************************************)

(* The owner is the player his socket says, or a socket gone for good.      *)
OwnerPlays(room) == \E p \in ToSet(room.players) : room.sock[p] = room.owner
OwnerGone(room, k) ==
  /\ k[room.owner] = "closed"
  /\ \A p \in Members(room) : room.sock[p] # room.owner

IsRoom(room) ==
  DOMAIN room = {"owner", "players", "slots", "spectators", "sock", "playing"}

RoomShape(room) ==
  /\ IsRoom(room)
  /\ room.owner \in Sids
  /\ room.players \in Seq(Pids) /\ IsInjective(room.players)
  /\ room.spectators \subseteq Pids \ ToSet(room.players)
  /\ DOMAIN room.slots \subseteq Slots
  /\ \A j \in DOMAIN room.slots : room.slots[j] \in ToSet(room.players)
  /\ \A i, j \in DOMAIN room.slots : room.slots[i] = room.slots[j] => i = j
  /\ DOMAIN room.sock = Members(room)
  /\ \A p \in Members(room) : room.sock[p] \in Sids /\ room.sock[p][1] = p
  /\ room.playing \in BOOLEAN

RoomOK(room, k) ==
  /\ RoomShape(room)
  /\ OwnerPlays(room) \/ OwnerGone(room, k)
  /\ room.playing /\ room.players # <<>> => OwnerPlays(room)

IsServer(st) ==
  /\ DOMAIN st = {"rooms", "where", "grace", "saved"}
  /\ DOMAIN st.rooms \subseteq RoomIds /\ st.saved = st.rooms
  /\ DOMAIN st.where \subseteq Sids /\ DOMAIN st.grace \subseteq Pids

(* A socket's entry and the room it names tell one story.                   *)
EntryOK(st, s) ==
  LET e == st.where[s] IN
  /\ e.pid = s[1] /\ e.room \in DOMAIN st.rooms /\ s[1] \in Members(st.rooms[e.room])
  /\ e.spectator = (s[1] \in st.rooms[e.room].spectators)
  /\ st.rooms[e.room].sock[s[1]] = s

Bound(st, r, p) ==
  /\ st.rooms[r].sock[p] \in DOMAIN st.where
  /\ st.where[st.rooms[r].sock[p]].room = r

(* A member who is connected has an entry.                                  *)
LiveIsBound(st, k) ==
  \A r \in DOMAIN st.rooms : \A p \in Members(st.rooms[r]) :
    k[st.rooms[r].sock[p]] # "closed" => Bound(st, r, p)

(* The sockets of the members are sockets there were.                       *)
SocketsUsed(st, k) ==
  \A r \in DOMAIN st.rooms : \A p \in Members(st.rooms[r]) :
    k[st.rooms[r].sock[p]] # "unused"

(* A socket is in one room.                                                *)
SocketsApart(st) ==
  \A q, r \in DOMAIN st.rooms :
    \A p \in Members(st.rooms[q]) \cap Members(st.rooms[r]) :
      st.rooms[q].sock[p] = st.rooms[r].sock[p] => q = r

(* A timer is that of a socket closed, whose entry still stands.            *)
TimerOK(st, k, p) ==
  LET t == st.grace[p] IN
  /\ t.sid \in DOMAIN st.where /\ t.sid[1] = p /\ k[t.sid] = "closed"
  /\ st.where[t.sid].room = t.room /\ st.where[t.sid].spectator = FALSE

Good(st, k) ==
  /\ IsServer(st)
  /\ \A r \in DOMAIN st.rooms : RoomOK(st.rooms[r], k)
  /\ \A s \in DOMAIN st.where : EntryOK(st, s)
  /\ LiveIsBound(st, k) /\ SocketsUsed(st, k) /\ SocketsApart(st)
  /\ \A p \in DOMAIN st.grace : TimerOK(st, k, p)

(* A tab's sockets are numbered in the order it opened them.                *)
UsedInOrder == \A p \in Pids : \E n \in 0..MaxSockets : Used(p) = 1..n

TasksOK ==
  /\ sk \in [Sids -> {"unused", "open", "dropped", "closed"}]
  /\ sweep \in [phase : {"asleep", "waiting", "dead"}, doomed : SUBSET RoomIds]
  /\ age \in [RoomIds -> 0..ZombieLimit]
  /\ restarts \in 0..MaxRestarts

RoomsInv == Good(srv, sk) /\ UsedInOrder /\ TasksOK

(* Nobody is a ghost: until a restart every member has an entry, and one    *)
(* whose socket is closed a timer.                                         *)
IsWatched(st, k, r, p) ==
  /\ Bound(st, r, p)
  /\ k[st.rooms[r].sock[p]] = "closed" =>
       p \in DOMAIN st.grace /\ st.grace[p].room = r
OthersWatched(st, k, p) ==
  \A r \in DOMAIN st.rooms : \A q \in Members(st.rooms[r]) \ {p} : IsWatched(st, k, r, q)
GhostsWatched(st, k) ==
  \A r \in DOMAIN st.rooms : \A p \in Members(st.rooms[r]) : IsWatched(st, k, r, p)
GhostInv == restarts = 0 => GhostsWatched(srv, sk)

(***************************************************************************)
(* Dictionaries and sequences.                                             *)
(***************************************************************************)

LEMMA WithKey ==
  ASSUME NEW f, NEW k, NEW v
  PROVE  /\ DOMAIN With(f, k, v) = DOMAIN f \cup {k} /\ With(f, k, v)[k] = v
         /\ \A x \in DOMAIN f \ {k} : With(f, k, v)[x] = f[x]
BY DEF With

LEMMA WithoutKey ==
  ASSUME NEW f, NEW k
  PROVE  /\ DOMAIN Without(f, k) = DOMAIN f \ {k}
         /\ \A x \in DOMAIN f \ {k} : Without(f, k)[x] = f[x]
BY DEF Without, RestrictDomain, Restrict

LEMMA InSequence ==
  ASSUME NEW T, NEW q \in Seq(T)
  PROVE  /\ ToSet(q) \subseteq T
         /\ \A x : Contains(q, x) <=> x \in ToSet(q)
         /\ q # <<>> => Head(q) \in ToSet(q)
         /\ (ToSet(q) = {}) <=> (q = <<>>)
<1>1. DOMAIN q = 1..Len(q) /\ Len(q) \in Nat /\ \A i \in 1..Len(q) : q[i] \in T
  OBVIOUS
<1>2. ToSet(q) \subseteq T /\ \A x : Contains(q, x) <=> x \in ToSet(q)
  BY <1>1 DEF ToSet, Contains
<1>3. ASSUME q # <<>> PROVE Head(q) \in ToSet(q)
  <2>1. 1 \in 1..Len(q) /\ Head(q) = q[1]
    BY <1>3
  <2> QED
    BY <1>1, <2>1 DEF ToSet
<1>4. ASSUME q = <<>> PROVE ToSet(q) = {}
  BY <1>4 DEF ToSet
<1> QED
  BY <1>2, <1>3, <1>4

(* A key taken out of a dictionary leaves the others, in their order.       *)
LEMMA Popped ==
  ASSUME NEW T, NEW q \in Seq(T), IsInjective(q), NEW x
  PROVE  /\ Pop(q, x) \in Seq(T) /\ IsInjective(Pop(q, x))
         /\ ToSet(Pop(q, x)) = ToSet(q) \ {x}
<1>1. CASE Contains(q, x)
  <2>1. \E i \in DOMAIN q : q[i] = x
    BY <1>1 DEF Contains
  <2>2. PICK i \in DOMAIN q : q[i] = x /\ Pop(q, x) = RemoveAt(q, i)
    BY <1>1, <2>1 DEF Pop
  <2>3. PICK m \in Nat : m = Len(q) /\ DOMAIN q = 1..m
    OBVIOUS
  <2>4. i \in 1..m
    BY <2>3
  <2> DEFINE a == SubSeq(q, 1, i-1)
             b == SubSeq(q, i+1, Len(q))
             r == a \o b
  <2>5. a \in Seq(T) /\ Len(a) = i - 1 /\ \A j \in 1..i-1 : a[j] = q[j]
    BY <2>3, <2>4
  <2>6. b \in Seq(T) /\ Len(b) = m - i /\ \A j \in 1..(m - i) : b[j] = q[i+j]
    BY <2>3, <2>4
  <2>7. Pop(q, x) = r
    BY <2>2 DEF RemoveAt
  <2> HIDE DEF a, b
  <2>8. /\ r \in Seq(T) /\ Len(r) = Len(a) + Len(b)
        /\ \A j \in 1..(Len(a) + Len(b)) :
             r[j] = IF j <= Len(a) THEN a[j] ELSE b[j - Len(a)]
    BY <2>5, <2>6, ConcatProperties, Zenon
  <2> HIDE DEF r
  <2>9. r \in Seq(T) /\ DOMAIN r = 1..(m-1)
    BY <2>4, <2>5, <2>6, <2>8
  <2>10. ASSUME NEW j \in 1..(m-1), j < i PROVE r[j] = q[j]
    BY <2>4, <2>5, <2>6, <2>8, <2>10
  <2>11. ASSUME NEW j \in 1..(m-1), ~ (j < i) PROVE r[j] = q[j+1]
    <3>1. r[j] = b[j - (i - 1)] /\ j - (i - 1) \in 1..(m - i)
      <4>1. j \in 1..(Len(a) + Len(b)) /\ ~ (j <= Len(a))
        BY <2>4, <2>5, <2>6, <2>11
      <4>2. r[j] = b[j - Len(a)]
        BY <2>8, <4>1
      <4> QED
        BY <2>4, <2>5, <2>11, <4>2
    <3>2. i + (j - (i - 1)) = j + 1
      BY <2>4
    <3> QED
      BY <2>6, <3>1, <3>2
  <2>12. IsInjective(r)
    <3> SUFFICES ASSUME NEW j \in 1..(m-1), NEW l \in 1..(m-1), r[j] = r[l]
                 PROVE  j = l
      BY <2>9 DEF IsInjective
    <3> DEFINE Old(z) == IF z < i THEN z ELSE z + 1
    <3>1. /\ Old(j) \in 1..m /\ r[j] = q[Old(j)]
          /\ Old(l) \in 1..m /\ r[l] = q[Old(l)]
      BY <2>10, <2>11
    <3>2. Old(j) = Old(l)
      BY <2>3, <3>1 DEF IsInjective
    <3> QED
      BY <2>4, <3>2
  <2>13. ASSUME NEW y \in ToSet(q) \ {x} PROVE y \in ToSet(r)
    <3>1. PICK j \in 1..m : q[j] = y
      BY <2>3 DEF ToSet
    <3>2. CASE j < i
      <4>1. j \in 1..(m-1) /\ r[j] = y
        BY <2>4, <2>10, <3>1, <3>2
      <4> QED
        BY <2>9, <4>1 DEF ToSet
    <3>3. CASE j > i
      <4>1. j - 1 \in 1..(m-1) /\ ~ (j - 1 < i) /\ (j - 1) + 1 = j
        BY <2>4, <3>3
      <4>2. r[j-1] = y
        BY <2>11, <3>1, <4>1
      <4> QED
        BY <2>9, <4>1, <4>2 DEF ToSet
    <3>4. j # i
      BY <2>2, <3>1
    <3> QED
      BY <2>4, <3>2, <3>3, <3>4
  <2>14. ASSUME NEW j \in 1..(m-1) PROVE r[j] \in ToSet(q) \ {x}
    <3>1. PICK l \in 1..m : l # i /\ r[j] = q[l]
      BY <2>4, <2>10, <2>11
    <3> QED
      BY <2>2, <2>3, <3>1 DEF ToSet, IsInjective
  <2>15. ToSet(r) = ToSet(q) \ {x}
    BY <2>9, <2>13, <2>14 DEF ToSet
  <2> QED
    BY <2>7, <2>9, <2>12, <2>15
<1>2. CASE ~ Contains(q, x)
  BY <1>2, InSequence DEF Pop
<1> QED
  BY <1>1, <1>2

(* A set of naturals has a least element. *)
LEMMA LeastNat ==
  ASSUME NEW S, S \subseteq Nat, S # {}
  PROVE  \E f \in S : \A g \in S : f <= g
<1> DEFINE R == OpToRel(<, Nat)
<1>1. IsWellFoundedOn(R, Nat)
  BY NatLessThanWellFounded
<1>2. \A x, y \in Nat : x < y => <<x, y>> \in R
  BY DEF OpToRel
<1> HIDE DEF R
<1>3. PICK f \in S : \A g \in S : ~ (<<g, f>> \in R)
  BY <1>1, WFMin
<1>4. \A g \in S : ~ (g < f)
  BY <1>2, <1>3
<1>5. \A g \in S : f <= g
  BY <1>4
<1> QED
  BY <1>5

(* The server gives a newcomer a slot that is free.                         *)
LEMMA NextSlotIsFree ==
  ASSUME NEW room, FreeSlots(room) # {}
  PROVE  NextSlot(room) \in FreeSlots(room)
<1>1. FreeSlots(room) \subseteq Nat
  BY RoomsAssumption DEF FreeSlots, Slots
<1>2. \E j \in FreeSlots(room) : \A i \in FreeSlots(room) : j <= i
  BY <1>1, LeastNat
<1> QED
  BY <1>2 DEF NextSlot, Min


(***************************************************************************)
(* One room.                                                               *)
(***************************************************************************)

(* What no handler does to the other members, and to a slot in a match.     *)
OthersStay(room, new, p) ==
  /\ ToSet(new.players) \ {p} = ToSet(room.players) \ {p}
  /\ new.spectators \ {p} = room.spectators \ {p}
  /\ \A q \in Members(room) \ {p} : new.sock[q] = room.sock[q]

KeepsSlots(room, new) ==
  room.playing /\ new.playing =>
    \A j \in DOMAIN room.slots : room.slots[j] \in ToSet(new.players) =>
      j \in DOMAIN new.slots /\ new.slots[j] = room.slots[j]

LEMMA SocketParts == \A s \in Sids : s[1] \in Pids
BY DEF Sids

LEMMA NewRoomOK ==
  ASSUME NEW k, NEW s \in Sids
  PROVE  /\ RoomOK(NewRoom(s[1], s), k) /\ Members(NewRoom(s[1], s)) = {s[1]}
         /\ NewRoom(s[1], s).sock[s[1]] = s /\ NewRoom(s[1], s).spectators = {}
         /\ ToSet(NewRoom(s[1], s).players) = {s[1]}
<1> DEFINE p == s[1]
           room == NewRoom(p, s)
<1>1. p \in Pids /\ 0 \in Slots
  BY RoomsAssumption, SocketParts DEF Slots
<1>2. /\ IsRoom(room) /\ room.owner = s /\ room.players = <<p>> /\ room.spectators = {}
      /\ room.slots = With(Empty, 0, p) /\ room.sock = With(Empty, p, s)
      /\ room.playing = FALSE
  BY DEF NewRoom, IsRoom
<1> HIDE DEF room
<1>3. /\ room.players \in Seq(Pids) /\ ToSet(room.players) = {p}
      /\ IsInjective(room.players)
  BY <1>1, <1>2 DEF ToSet, IsInjective
<1>4. Members(room) = {p}
  BY <1>2, <1>3 DEF Members
<1>5. DOMAIN Empty = {}
  BY DEF Empty
<1>6. DOMAIN room.slots = {0} /\ room.slots[0] = p /\ DOMAIN room.sock = {p}
      /\ room.sock[p] = s
  BY <1>2, <1>5 DEF With
<1>7. OwnerPlays(room)
  BY <1>2, <1>3, <1>6 DEF OwnerPlays
<1> QED
  BY <1>1, <1>2, <1>3, <1>4, <1>6, <1>7 DEF RoomOK, RoomShape, room

(* A seat for a member of the audience or for somebody new.                 *)
LEMMA SeatOK ==
  ASSUME NEW room, NEW k, RoomOK(room, k), NEW s \in Sids, k[s] # "closed",
         s[1] \notin ToSet(room.players), NEW slot \in FreeSlots(room),
         room.playing => OwnerPlays(room)
  PROVE  LET seated == Seat(room, s[1], s, slot) IN
         /\ RoomOK(seated, k) /\ OthersStay(room, seated, s[1]) /\ KeepsSlots(room, seated)
         /\ s[1] \in ToSet(seated.players) /\ s[1] \notin seated.spectators
         /\ seated.sock[s[1]] = s
<1> DEFINE p == s[1]
           seated == Seat(room, p, s, slot)
<1>1. p \in Pids /\ p \notin ToSet(room.players) /\ slot \in Slots
      /\ slot \notin DOMAIN room.slots
  BY SocketParts DEF FreeSlots
<1>2. ~ Contains(room.players, p)
  BY <1>1, InSequence DEF RoomOK, RoomShape
<1>3. /\ IsRoom(seated) /\ seated.owner = room.owner /\ seated.players = Append(room.players, p)
      /\ seated.spectators = room.spectators \ {p}
      /\ seated.slots = With(room.slots, slot, p)
      /\ seated.sock = With(room.sock, p, s)
      /\ seated.playing = room.playing
  <2>1. IsRoom(room)
    BY DEF RoomOK, RoomShape
  <2> QED
    BY <1>2, <2>1 DEF Seat, IsRoom
<1> HIDE DEF seated
<1>4. /\ seated.players \in Seq(Pids) /\ IsInjective(seated.players)
      /\ ToSet(seated.players) = ToSet(room.players) \cup {p}
  <2>1. room.players \in Seq(Pids) /\ IsInjective(room.players)
    BY DEF RoomOK, RoomShape
  <2>2. PICK n \in Nat : n = Len(room.players) /\ DOMAIN room.players = 1..n
    BY <2>1
  <2>3. /\ seated.players \in Seq(Pids) /\ DOMAIN seated.players = 1..(n+1)
        /\ seated.players[n+1] = p
        /\ \A i \in 1..n : seated.players[i] = room.players[i]
    BY <1>1, <1>3, <2>1, <2>2, AppendProperties
  <2>4. \A i \in 1..n : room.players[i] # p
    BY <1>1, <2>2 DEF ToSet
  <2>5. \A i \in 1..(n+1) : i \in 1..n \/ i = n+1
    OBVIOUS
  <2>6. n + 1 \in 1..(n+1) /\ \A i \in 1..n : i \in 1..(n+1)
    OBVIOUS
  <2>7. IsInjective(seated.players)
    <3>1. \A i, j \in 1..n : room.players[i] = room.players[j] => i = j
      BY <2>1, <2>2 DEF IsInjective
    <3>2. \A i, j \in 1..(n+1) : seated.players[i] = seated.players[j] => i = j
      BY <2>3, <2>4, <2>5, <3>1
    <3> QED
      BY <2>3, <3>2 DEF IsInjective
  <2>8. ToSet(seated.players) = ToSet(room.players) \cup {p}
    BY <2>2, <2>3, <2>5, <2>6 DEF ToSet
  <2> QED
    BY <2>3, <2>7, <2>8
<1>5. Members(seated) = Members(room) \cup {p}
  BY <1>3, <1>4 DEF Members
<1>6. /\ DOMAIN seated.slots = DOMAIN room.slots \cup {slot} /\ seated.slots[slot] = p
      /\ \A j \in DOMAIN room.slots : seated.slots[j] = room.slots[j]
  BY <1>1, <1>3 DEF With
<1>7. /\ DOMAIN seated.sock = Members(seated) /\ seated.sock[p] = s
      /\ \A q \in Members(room) \ {p} : seated.sock[q] = room.sock[q]
  BY <1>3, <1>5 DEF With, RoomOK, RoomShape
<1>8. OwnerPlays(room) => OwnerPlays(seated)
  BY <1>1, <1>3, <1>4, <1>7 DEF OwnerPlays, Members
<1>9. OwnerGone(room, k) => OwnerGone(seated, k)
  BY <1>3, <1>5, <1>7 DEF OwnerGone
<1>10. /\ DOMAIN seated.slots \subseteq Slots
       /\ \A j \in DOMAIN seated.slots : seated.slots[j] \in ToSet(seated.players)
       /\ \A i, j \in DOMAIN seated.slots : seated.slots[i] = seated.slots[j] => i = j
  BY <1>1, <1>4, <1>6 DEF RoomOK, RoomShape
<1>11. \A q \in Members(seated) : seated.sock[q] \in Sids /\ seated.sock[q][1] = q
  BY <1>5, <1>7 DEF RoomOK, RoomShape
<1>12. seated.owner \in Sids /\ seated.playing \in BOOLEAN
       /\ seated.spectators \subseteq Pids \ ToSet(seated.players)
  BY <1>3, <1>4 DEF RoomOK, RoomShape
<1>13. RoomOK(seated, k)
  BY <1>3, <1>4, <1>7, <1>8, <1>9, <1>10, <1>11, <1>12 DEF RoomOK, RoomShape
<1>14. OthersStay(room, seated, p) /\ KeepsSlots(room, seated)
  BY <1>3, <1>4, <1>6, <1>7 DEF OthersStay, KeepsSlots
<1> QED
  BY <1>3, <1>4, <1>7, <1>13, <1>14 DEF seated


(* Somebody new watches.                                                   *)
Watched(room, s) ==
  [room EXCEPT !.spectators = @ \cup {s[1]}, !.sock = With(@, s[1], s)]

LEMMA WatchOK ==
  ASSUME NEW room, NEW k, RoomOK(room, k), NEW s \in Sids, k[s] # "closed",
         s[1] \notin Members(room)
  PROVE  LET new == Watched(room, s) IN
         /\ RoomOK(new, k) /\ OthersStay(room, new, s[1]) /\ KeepsSlots(room, new)
         /\ s[1] \in new.spectators /\ new.sock[s[1]] = s
<1> DEFINE p == s[1]
           new == Watched(room, s)
<1>1. p \in Pids /\ p \notin ToSet(room.players)
  BY SocketParts DEF Members
<1>2. /\ IsRoom(new) /\ new.owner = room.owner /\ new.players = room.players
      /\ new.spectators = room.spectators \cup {p} /\ new.slots = room.slots
      /\ new.sock = With(room.sock, p, s) /\ new.playing = room.playing
  <2>1. IsRoom(room)
    BY DEF RoomOK, RoomShape
  <2> QED
    BY <2>1 DEF Watched, IsRoom
<1> HIDE DEF new
<1>3. Members(new) = Members(room) \cup {p}
  BY <1>2 DEF Members
<1>4. /\ DOMAIN new.sock = Members(new) /\ new.sock[p] = s
      /\ \A q \in Members(room) \ {p} : new.sock[q] = room.sock[q]
  BY <1>2, <1>3 DEF With, RoomOK, RoomShape
<1>5. OwnerPlays(room) => OwnerPlays(new)
  BY <1>1, <1>2, <1>4 DEF OwnerPlays, Members
<1>6. OwnerGone(room, k) => OwnerGone(new, k)
  BY <1>2, <1>3, <1>4 DEF OwnerGone
<1>7. \A q \in Members(new) : new.sock[q] \in Sids /\ new.sock[q][1] = q
  BY <1>3, <1>4 DEF RoomOK, RoomShape
<1>8. RoomOK(new, k)
  BY <1>1, <1>2, <1>4, <1>5, <1>6, <1>7 DEF RoomOK, RoomShape
<1>9. OthersStay(room, new, p) /\ KeepsSlots(room, new)
  BY <1>2, <1>4 DEF OthersStay, KeepsSlots
<1> QED
  BY <1>2, <1>4, <1>8, <1>9 DEF new

(* A member comes back under another socket.                               *)
LEMMA SwapOK ==
  ASSUME NEW room, NEW k, RoomOK(room, k), NEW s \in Sids, k[s] # "closed",
         s[1] \in Members(room)
  PROVE  LET new == SwapSid(room, s[1], s) IN
         /\ RoomOK(new, k) /\ OthersStay(room, new, s[1]) /\ KeepsSlots(room, new)
         /\ new.players = room.players /\ new.spectators = room.spectators
         /\ new.sock[s[1]] = s
<1> DEFINE p == s[1]
           new == SwapSid(room, p, s)
<1>1. /\ IsRoom(new) /\ new.players = room.players
      /\ new.owner = IF room.owner = room.sock[p] THEN s ELSE room.owner
      /\ new.spectators = room.spectators /\ new.slots = room.slots
      /\ new.sock = [room.sock EXCEPT ![p] = s] /\ new.playing = room.playing
  <2>1. IsRoom(room)
    BY DEF RoomOK, RoomShape
  <2> QED
    BY <2>1 DEF SwapSid, IsRoom
<1> HIDE DEF new
<1>2. Members(new) = Members(room)
  BY <1>1 DEF Members
<1>3. /\ DOMAIN new.sock = Members(new) /\ new.sock[p] = s
      /\ \A q \in Members(room) \ {p} : new.sock[q] = room.sock[q]
  BY <1>1, <1>2 DEF RoomOK, RoomShape
<1>4. \A q \in Members(new) : new.sock[q] \in Sids /\ new.sock[q][1] = q
  BY <1>2, <1>3 DEF RoomOK, RoomShape
<1>5. ASSUME OwnerPlays(room) PROVE OwnerPlays(new)
  <2>1. PICK q \in ToSet(room.players) : room.sock[q] = room.owner
    BY <1>5 DEF OwnerPlays
  <2>2. q \in Members(room) /\ room.sock[q][1] = q /\ room.sock[p][1] = p
    BY <2>1 DEF Members, RoomOK, RoomShape
  <2>3. new.sock[q] = new.owner
    BY <1>1, <1>3, <2>1, <2>2
  <2> QED
    BY <1>1, <2>1, <2>3 DEF OwnerPlays
<1>6. OwnerGone(room, k) => OwnerGone(new, k)
  BY <1>1, <1>2, <1>3 DEF OwnerGone
<1>7. new.owner \in Sids
  BY <1>1 DEF RoomOK, RoomShape
<1>8. RoomOK(new, k)
  BY <1>1, <1>2, <1>3, <1>4, <1>5, <1>6, <1>7 DEF RoomOK, RoomShape
<1>9. OthersStay(room, new, p) /\ KeepsSlots(room, new)
  BY <1>1, <1>3 DEF OthersStay, KeepsSlots
<1> QED
  BY <1>1, <1>3, <1>8, <1>9 DEF new

(* The owner starts or ends a match: he plays.                             *)
LEMMA SetPlayingOK ==
  ASSUME NEW room, NEW k, RoomOK(room, k), NEW s \in Sids, s[1] \in Members(room),
         room.sock[s[1]] = s, room.owner = s, NEW playing \in BOOLEAN,
         room.playing # playing
  PROVE  LET new == [room EXCEPT !.playing = playing] IN
         /\ RoomOK(new, k) /\ OthersStay(room, new, s[1]) /\ KeepsSlots(room, new)
         /\ new.players = room.players /\ new.spectators = room.spectators
         /\ new.sock = room.sock
<1> DEFINE new == [room EXCEPT !.playing = playing]
<1>1. /\ IsRoom(new) /\ new.players = room.players /\ new.owner = room.owner
      /\ new.spectators = room.spectators /\ new.slots = room.slots
      /\ new.sock = room.sock /\ new.playing = playing
  <2>1. IsRoom(room)
    BY DEF RoomOK, RoomShape
  <2> QED
    BY <2>1 DEF IsRoom
<1> HIDE DEF new
<1>2. OwnerPlays(room)
  BY DEF RoomOK, OwnerGone
<1>3. OwnerPlays(new) /\ Members(new) = Members(room)
  BY <1>1, <1>2 DEF OwnerPlays, Members
<1>4. RoomOK(new, k)
  BY <1>1, <1>3 DEF RoomOK, RoomShape
<1>5. ~ (room.playing /\ new.playing)
  BY <1>1 DEF RoomOK, RoomShape
<1>6. OthersStay(room, new, s[1]) /\ KeepsSlots(room, new)
  BY <1>1, <1>5 DEF OthersStay, KeepsSlots
<1> QED
  BY <1>1, <1>4, <1>6 DEF new


LEMMA UnseatFacts ==
  ASSUME NEW room, RoomShape(room), NEW p
  PROVE  LET out == Unseat(room, p) IN
         /\ IsRoom(out) /\ out.owner = room.owner /\ out.spectators = room.spectators
         /\ out.sock = room.sock /\ out.playing = room.playing
         /\ out.players \in Seq(Pids) /\ IsInjective(out.players)
         /\ ToSet(out.players) = ToSet(room.players) \ {p}
         /\ DOMAIN out.slots \subseteq DOMAIN room.slots
         /\ \A j \in DOMAIN out.slots : out.slots[j] = room.slots[j] /\ out.slots[j] # p
         /\ \A j \in DOMAIN room.slots : room.slots[j] # p => j \in DOMAIN out.slots
<1> DEFINE out == Unseat(room, p)
<1>1. IsRoom(room) /\ room.players \in Seq(Pids) /\ IsInjective(room.players)
  BY DEF RoomShape
<1>2. /\ IsRoom(out) /\ out.owner = room.owner /\ out.spectators = room.spectators
      /\ out.sock = room.sock /\ out.playing = room.playing
      /\ out.players = Pop(room.players, p)
      /\ out.slots = RestrictValues(room.slots, LAMBDA q : q # p)
  BY <1>1 DEF Unseat, IsRoom
<1> HIDE DEF out
<1>3. /\ DOMAIN out.slots = {j \in DOMAIN room.slots : room.slots[j] # p}
      /\ \A j \in DOMAIN out.slots : out.slots[j] = room.slots[j]
  BY <1>2 DEF RestrictValues, Restrict
<1>4. /\ out.players \in Seq(Pids) /\ IsInjective(out.players)
      /\ ToSet(out.players) = ToSet(room.players) \ {p}
  BY <1>1, <1>2, Popped
<1> QED
  BY <1>2, <1>3, <1>4 DEF out

LEMMA LeftFacts ==
  ASSUME NEW room, RoomShape(room), NEW p \in Members(room), NEW spectator \in BOOLEAN,
         spectator <=> p \in room.spectators
  PROVE  LET left == Left(room, p, spectator) IN
         /\ RoomShape(left) /\ left.owner = room.owner /\ left.playing = room.playing
         /\ OthersStay(room, left, p) /\ KeepsSlots(room, left)
         /\ Members(left) = Members(room) \ {p} /\ p \notin ToSet(left.players)
<1> DEFINE out == IF spectator THEN [room EXCEPT !.spectators = @ \ {p}]
                  ELSE Unseat(room, p)
           left == Left(room, p, spectator)
<1>1. /\ IsRoom(room) /\ room.players \in Seq(Pids) /\ IsInjective(room.players)
      /\ room.spectators \subseteq Pids \ ToSet(room.players)
      /\ \A j \in DOMAIN room.slots : room.slots[j] \in ToSet(room.players)
  BY DEF RoomShape
<1>2. /\ IsRoom(out) /\ out.owner = room.owner
      /\ out.sock = room.sock /\ out.playing = room.playing
      /\ out.players \in Seq(Pids) /\ IsInjective(out.players)
      /\ ToSet(out.players) = ToSet(room.players) \ {p}
      /\ out.spectators = room.spectators \ {p}
      /\ DOMAIN out.slots \subseteq DOMAIN room.slots
      /\ \A j \in DOMAIN out.slots : out.slots[j] = room.slots[j] /\ out.slots[j] # p
      /\ \A j \in DOMAIN room.slots : room.slots[j] # p => j \in DOMAIN out.slots
  <2>1. CASE spectator
    <3>1. /\ IsRoom(out) /\ out.owner = room.owner /\ out.players = room.players
          /\ out.spectators = room.spectators \ {p} /\ out.slots = room.slots
          /\ out.sock = room.sock /\ out.playing = room.playing
      BY <1>1, <2>1 DEF IsRoom
    <3> HIDE DEF out
    <3>2. p \notin ToSet(room.players)
      BY <1>1, <2>1
    <3> QED
      BY <1>1, <3>1, <3>2
  <2>2. CASE ~ spectator
    <3>1. out = Unseat(room, p)
      BY <2>2
    <3> HIDE DEF out
    <3>2. room.spectators = room.spectators \ {p}
      BY <2>2
    <3> QED
      BY <3>1, <3>2, UnseatFacts
  <2> QED
    BY <2>1, <2>2
<1>3. Members(out) = Members(room) \ {p}
  <2> HIDE DEF out
  <2> QED
    BY <1>2 DEF Members
<1>4. /\ IsRoom(left) /\ left.owner = out.owner /\ left.players = out.players
      /\ left.spectators = out.spectators /\ left.slots = out.slots
      /\ left.playing = out.playing
      /\ left.sock = RestrictDomain(out.sock, LAMBDA q : q \in Members(out))
  <2> HIDE DEF out
  <2>1. left = [out EXCEPT !.sock = RestrictDomain(@, LAMBDA q : q \in Members(out))]
    BY DEF Left, out
  <2> HIDE DEF left
  <2> QED
    BY <1>2, <2>1 DEF IsRoom
<1> HIDE DEF out, left
<1>5. Members(left) = Members(room) \ {p}
  BY <1>3, <1>4 DEF Members
<1>6. DOMAIN room.sock = Members(room)
  BY DEF RoomShape
<1>7. /\ DOMAIN left.sock = Members(left)
      /\ \A q \in Members(left) : left.sock[q] = room.sock[q]
  BY <1>2, <1>3, <1>4, <1>5, <1>6 DEF RestrictDomain, Restrict
<1>8. \A q \in Members(left) : left.sock[q] \in Sids /\ left.sock[q][1] = q
  BY <1>5, <1>7 DEF RoomShape
<1>9. /\ DOMAIN left.slots \subseteq Slots
      /\ \A j \in DOMAIN left.slots : left.slots[j] \in ToSet(left.players)
      /\ \A i, j \in DOMAIN left.slots : left.slots[i] = left.slots[j] => i = j
  BY <1>2, <1>4 DEF RoomShape
<1>10. left.owner \in Sids /\ left.playing \in BOOLEAN
  BY <1>2, <1>4 DEF RoomShape
<1>11. left.spectators \subseteq Pids \ ToSet(left.players)
  BY <1>1, <1>2, <1>4
<1>12. RoomShape(left)
  BY <1>2, <1>4, <1>7, <1>8, <1>9, <1>10, <1>11 DEF RoomShape
<1>13. OthersStay(room, left, p) /\ KeepsSlots(room, left)
  BY <1>2, <1>4, <1>5, <1>7 DEF OthersStay, KeepsSlots
<1> QED
  BY <1>2, <1>4, <1>5, <1>12, <1>13 DEF left

(* The next owner plays, and in a match nobody changes his slot.            *)
LEMMA HandOverFacts ==
  ASSUME NEW room, RoomShape(room), room.players # <<>>
  PROVE  LET new == HandOver(room) IN
         /\ RoomShape(new) /\ OwnerPlays(new) /\ KeepsSlots(room, new)
         /\ new.players = room.players /\ new.spectators = room.spectators
         /\ new.sock = room.sock
<1> DEFINE p == Head(room.players)
           new == HandOver(room)
           others == RestrictValues(room.slots, LAMBDA q : q # p)
<1>1. p \in ToSet(room.players) /\ p \in Members(room) /\ 0 \in Slots
  BY InSequence, RoomsAssumption DEF RoomShape, Members, Slots
<1>2. /\ IsRoom(new) /\ new.owner = room.sock[p] /\ new.players = room.players
      /\ new.slots = IF room.playing THEN room.slots ELSE With(others, 0, p)
      /\ new.spectators = room.spectators /\ new.sock = room.sock
      /\ new.playing = room.playing
  <2>1. IsRoom(room)
    BY DEF RoomShape
  <2> QED
    BY <2>1 DEF HandOver, IsRoom
<1>3. /\ DOMAIN others = {j \in DOMAIN room.slots : room.slots[j] # p}
      /\ \A j \in DOMAIN others : others[j] = room.slots[j]
  BY DEF RestrictValues, Restrict
<1> HIDE DEF new, others, p
<1>4. Members(new) = Members(room)
  BY <1>2 DEF Members
<1>5. /\ DOMAIN new.slots \subseteq Slots
      /\ \A j \in DOMAIN new.slots : new.slots[j] \in ToSet(new.players)
      /\ \A i, j \in DOMAIN new.slots : new.slots[i] = new.slots[j] => i = j
  <2>1. CASE room.playing
    BY <1>2, <2>1 DEF RoomShape
  <2>2. CASE ~ room.playing
    <3>1. /\ DOMAIN new.slots = DOMAIN others \cup {0} /\ new.slots[0] = p
          /\ \A j \in DOMAIN others \ {0} : new.slots[j] = others[j]
      BY <1>2, <2>2 DEF With
    <3> QED
      BY <1>1, <1>2, <1>3, <3>1 DEF RoomShape
  <2> QED
    BY <2>1, <2>2
<1>6. new.owner \in Sids
  BY <1>1, <1>2 DEF RoomShape
<1>7. RoomShape(new)
  BY <1>2, <1>4, <1>5, <1>6 DEF RoomShape
<1>8. OwnerPlays(new)
  BY <1>1, <1>2 DEF OwnerPlays
<1>9. KeepsSlots(room, new)
  BY <1>2 DEF KeepsSlots
<1> QED
  BY <1>2, <1>7, <1>8, <1>9 DEF new

(* Sockets only close.                                                     *)
Closes(k, l) == \A s \in Sids : k[s] = "closed" => l[s] = "closed"
StaysUsed(k, l) == \A s \in Sids : k[s] # "unused" => l[s] # "unused"

LEMMA RoomCloses ==
  ASSUME NEW room, NEW k, NEW l, RoomOK(room, k), Closes(k, l)
  PROVE  RoomOK(room, l)
BY DEF RoomOK, RoomShape, OwnerGone, Closes

(* The room as _leave leaves it to the others.                             *)
LEMMA DepartOK ==
  ASSUME NEW room, NEW k, NEW l, RoomOK(room, k), Closes(k, l), NEW s \in Sids,
         s[1] \in Members(room), room.sock[s[1]] = s, l[s] = "closed",
         NEW spectator \in BOOLEAN, spectator <=> s[1] \in room.spectators
  PROVE  LET new == Departed(room, s, s[1], spectator) IN
         /\ RoomOK(new, l) /\ OthersStay(room, new, s[1]) /\ KeepsSlots(room, new)
         /\ Members(new) = Members(room) \ {s[1]}
<1> DEFINE p == s[1]
           left == Left(room, p, spectator)
           new == Departed(room, s, s[1], spectator)
<1>1. RoomShape(room)
  BY DEF RoomOK
<1>2. /\ RoomShape(left) /\ left.owner = room.owner /\ left.playing = room.playing
      /\ OthersStay(room, left, p) /\ KeepsSlots(room, left)
      /\ Members(left) = Members(room) \ {p} /\ p \notin ToSet(left.players)
  BY <1>1, LeftFacts
<1> HIDE DEF left
<1>3. /\ ToSet(left.players) = ToSet(room.players) \ {p}
      /\ \A q \in Members(left) : left.sock[q] = room.sock[q]
  BY <1>2 DEF OthersStay
<1>4. ASSUME room.owner = s, left.players # <<>> PROVE new = HandOver(left)
  BY <1>4 DEF Departed, left
<1>5. ASSUME ~ (room.owner = s /\ left.players # <<>>) PROVE new = left
  BY <1>5 DEF Departed, left
<1> HIDE DEF new
<1>6. CASE room.owner = s /\ left.players # <<>>
  <2>1. /\ RoomShape(new) /\ OwnerPlays(new) /\ KeepsSlots(left, new)
        /\ new.players = left.players /\ new.spectators = left.spectators
        /\ new.sock = left.sock
    BY <1>2, <1>4, <1>6, HandOverFacts
  <2>2. RoomOK(new, l)
    BY <2>1 DEF RoomOK
  <2>3. Members(new) = Members(left)
    BY <2>1 DEF Members
  <2>4. OthersStay(room, new, p)
    BY <1>2, <2>1 DEF OthersStay
  <2>5. KeepsSlots(room, new)
    BY <1>2, <2>1 DEF KeepsSlots
  <2> QED
    BY <1>2, <2>2, <2>3, <2>4, <2>5 DEF new
<1>7. CASE room.owner # s
  <2>1. new = left
    BY <1>5, <1>7
  <2>2. OwnerPlays(room) => OwnerPlays(left)
    BY <1>2, <1>3, <1>7 DEF OwnerPlays, Members
  <2>3. OwnerGone(room, k) => OwnerGone(left, l)
    BY <1>1, <1>2, <1>3 DEF OwnerGone, Closes, RoomShape
  <2>4. left.players # <<>> => room.players # <<>>
    BY <1>1, <1>2, <1>3, InSequence DEF RoomShape
  <2>5. RoomOK(left, l)
    BY <1>2, <2>2, <2>3, <2>4 DEF RoomOK
  <2> QED
    BY <1>2, <2>1, <2>5 DEF new
<1>8. CASE room.owner = s /\ left.players = <<>>
  <2>1. new = left
    BY <1>5, <1>8
  <2>2. \A q \in Members(left) : left.sock[q] # s
    BY <1>2 DEF RoomShape
  <2>3. OwnerGone(left, l)
    BY <1>2, <1>8, <2>2 DEF OwnerGone
  <2>4. RoomOK(left, l)
    BY <1>2, <1>8, <2>3 DEF RoomOK
  <2> QED
    BY <1>2, <2>1, <2>4 DEF new
<1> QED
  BY <1>6, <1>7, <1>8

(* A player joins the audience.                                            *)
Released(room, p) == [Unseat(room, p) EXCEPT !.spectators = @ \cup {p}]

LEMMA ReleaseOK ==
  ASSUME NEW room, NEW k, RoomOK(room, k), NEW p \in ToSet(room.players),
         room.owner # room.sock[p], ~ room.playing
  PROVE  LET new == Released(room, p) IN
         /\ RoomOK(new, k) /\ OthersStay(room, new, p) /\ KeepsSlots(room, new)
         /\ p \in new.spectators /\ p \notin ToSet(new.players) /\ new.sock = room.sock
<1> DEFINE out == Unseat(room, p)
           new == Released(room, p)
<1>1. RoomShape(room)
  BY DEF RoomOK
<1>2. /\ IsRoom(out) /\ out.owner = room.owner /\ out.spectators = room.spectators
      /\ out.sock = room.sock /\ out.playing = room.playing
      /\ out.players \in Seq(Pids) /\ IsInjective(out.players)
      /\ ToSet(out.players) = ToSet(room.players) \ {p}
      /\ DOMAIN out.slots \subseteq DOMAIN room.slots
      /\ \A j \in DOMAIN out.slots : out.slots[j] = room.slots[j] /\ out.slots[j] # p
  BY <1>1, UnseatFacts
<1> HIDE DEF out
<1>3. /\ IsRoom(new) /\ new.owner = out.owner /\ new.players = out.players
      /\ new.spectators = out.spectators \cup {p} /\ new.slots = out.slots
      /\ new.sock = out.sock /\ new.playing = out.playing
  <2>1. new = [out EXCEPT !.spectators = @ \cup {p}]
    BY DEF Released, out
  <2> HIDE DEF new
  <2> QED
    BY <1>2, <2>1 DEF IsRoom
<1> HIDE DEF new
<1>4. Members(new) = Members(room)
  BY <1>2, <1>3 DEF Members
<1>5. p \in Pids /\ p \notin room.spectators
  BY <1>1, InSequence DEF RoomShape
<1>6. /\ DOMAIN new.slots \subseteq Slots
      /\ \A j \in DOMAIN new.slots : new.slots[j] \in ToSet(new.players)
      /\ \A i, j \in DOMAIN new.slots : new.slots[i] = new.slots[j] => i = j
  BY <1>1, <1>2, <1>3 DEF RoomShape
<1>7. RoomShape(new)
  BY <1>1, <1>2, <1>3, <1>4, <1>5, <1>6 DEF RoomShape
<1>8. OwnerPlays(room) => OwnerPlays(new)
  BY <1>2, <1>3 DEF OwnerPlays
<1>9. OwnerGone(room, k) => OwnerGone(new, k)
  BY <1>2, <1>3, <1>4 DEF OwnerGone
<1>10. RoomOK(new, k)
  BY <1>2, <1>3, <1>7, <1>8, <1>9 DEF RoomOK
<1>11. OthersStay(room, new, p) /\ KeepsSlots(room, new)
  BY <1>2, <1>3, <1>4 DEF OthersStay, KeepsSlots
<1> QED
  BY <1>2, <1>3, <1>10, <1>11 DEF new


(***************************************************************************)
(* The server.                                                             *)
(***************************************************************************)

(* An entry of st that a change of p's in room r has nothing to do with.    *)
Elsewhere(st, s, r, p) == s \in DOMAIN st.where /\ (s[1] # p \/ st.where[s].room # r)

(* A handler puts room for the room r of st, for the sake of one member p,  *)
(* while sockets k become l.                                               *)
Touches(st, new, k, l, r, p, room) ==
  /\ Closes(k, l) /\ StaysUsed(k, l)
  /\ DOMAIN new = {"rooms", "where", "grace", "saved"}
  /\ new.rooms = With(st.rooms, r, room) /\ new.saved = With(st.saved, r, room)
  /\ RoomOK(room, l)
  /\ IF r \in DOMAIN st.rooms THEN OthersStay(st.rooms[r], room, p)
     ELSE Members(room) \subseteq {p}
  /\ p \in Members(room) /\ l[room.sock[p]] # "closed" => Bound(new, r, p)
  /\ p \in Members(room) => l[room.sock[p]] # "unused"
  /\ p \in Members(room) =>
       \A q \in DOMAIN st.rooms \ {r} :
         p \in Members(st.rooms[q]) => st.rooms[q].sock[p] # room.sock[p]
  /\ DOMAIN new.where \subseteq Sids
  /\ \A s \in DOMAIN st.where :
       Elsewhere(st, s, r, p) => s \in DOMAIN new.where /\ new.where[s] = st.where[s]
  /\ \A s \in DOMAIN new.where : Elsewhere(st, s, r, p) \/ EntryOK(new, s)
  /\ DOMAIN new.grace \subseteq DOMAIN st.grace
  /\ \A q \in DOMAIN new.grace :
       new.grace[q] = st.grace[q] /\ (q # p \/ st.grace[q].room # r)

(* What that leaves of the rooms and of the other members.                 *)
OnlyTouched(st, new, r, p, room) ==
  /\ DOMAIN new.rooms = DOMAIN st.rooms \cup {r} /\ new.rooms[r] = room
  /\ \A q \in DOMAIN st.rooms \ {r} : new.rooms[q] = st.rooms[q]
  /\ new.saved = new.rooms
  /\ \A q : q # p /\ q \in Members(room) =>
       /\ r \in DOMAIN st.rooms /\ q \in Members(st.rooms[r])
       /\ room.sock[q] = st.rooms[r].sock[q]
  /\ \A q : q # p /\ r \in DOMAIN st.rooms /\ q \in Members(st.rooms[r]) =>
       /\ q \in Members(room)
       /\ room.sock[q] = st.rooms[r].sock[q]
       /\ q \in room.spectators <=> q \in st.rooms[r].spectators

LEMMA TouchedRooms ==
  ASSUME NEW st, NEW new, NEW k, NEW l, NEW r, NEW p, NEW room,
         Good(st, k), Touches(st, new, k, l, r, p, room)
  PROVE  OnlyTouched(st, new, r, p, room)
<1>1. /\ new.rooms = With(st.rooms, r, room) /\ new.saved = With(st.saved, r, room)
      /\ IF r \in DOMAIN st.rooms THEN OthersStay(st.rooms[r], room, p)
         ELSE Members(room) \subseteq {p}
  BY DEF Touches
<1>2. st.saved = st.rooms
  BY DEF Good, IsServer
<1>3. /\ DOMAIN new.rooms = DOMAIN st.rooms \cup {r} /\ new.rooms[r] = room
      /\ \A q \in DOMAIN st.rooms \ {r} : new.rooms[q] = st.rooms[q]
      /\ new.saved = new.rooms
  BY <1>1, <1>2 DEF With
<1>4. ASSUME NEW q, q # p, q \in Members(room)
      PROVE  /\ r \in DOMAIN st.rooms /\ q \in Members(st.rooms[r])
             /\ room.sock[q] = st.rooms[r].sock[q]
  BY <1>1, <1>4 DEF OthersStay, Members
<1>5. ASSUME NEW q, q # p, r \in DOMAIN st.rooms, q \in Members(st.rooms[r])
      PROVE  /\ q \in Members(room)
             /\ room.sock[q] = st.rooms[r].sock[q]
             /\ q \in room.spectators <=> q \in st.rooms[r].spectators
  BY <1>1, <1>5 DEF OthersStay, Members
<1> QED
  BY <1>3, <1>4, <1>5 DEF OnlyTouched

LEMMA TouchGood ==
  ASSUME NEW st, NEW new, NEW k, NEW l, NEW r \in RoomIds, NEW p \in Pids, NEW room,
         Good(st, k), Touches(st, new, k, l, r, p, room)
  PROVE  Good(new, l)
<1>1. /\ DOMAIN new.rooms = DOMAIN st.rooms \cup {r} /\ new.rooms[r] = room
      /\ \A q \in DOMAIN st.rooms \ {r} : new.rooms[q] = st.rooms[q]
      /\ new.saved = new.rooms
      /\ \A q : q # p /\ q \in Members(room) =>
           /\ r \in DOMAIN st.rooms /\ q \in Members(st.rooms[r])
           /\ room.sock[q] = st.rooms[r].sock[q]
      /\ \A q : q # p /\ r \in DOMAIN st.rooms /\ q \in Members(st.rooms[r]) =>
           /\ q \in Members(room)
           /\ room.sock[q] = st.rooms[r].sock[q]
           /\ q \in room.spectators <=> q \in st.rooms[r].spectators
  <2>1. OnlyTouched(st, new, r, p, room)
    BY TouchedRooms
  <2> QED
    BY <2>1 DEF OnlyTouched
<1>2. IsServer(new)
  BY <1>1 DEF Good, IsServer, Touches
<1>3. ASSUME NEW q \in DOMAIN new.rooms PROVE RoomOK(new.rooms[q], l)
  <2>1. CASE q = r
    BY <1>1, <2>1 DEF Touches
  <2>2. CASE q # r
    BY <1>1, <2>2, RoomCloses DEF Good, Touches
  <2> QED
    BY <2>1, <2>2
<1>4. ASSUME NEW s, Elsewhere(st, s, r, p)
      PROVE  /\ s \in DOMAIN new.where /\ new.where[s] = st.where[s]
             /\ EntryOK(st, s) /\ s \in Sids
  BY <1>4 DEF Good, IsServer, Touches, Elsewhere
<1>5. ASSUME NEW s \in DOMAIN new.where PROVE EntryOK(new, s)
  <2>1. CASE EntryOK(new, s)
    BY <2>1
  <2>2. CASE Elsewhere(st, s, r, p)
    <3>1. new.where[s] = st.where[s] /\ EntryOK(st, s) /\ (s[1] # p \/ st.where[s].room # r)
      BY <1>4, <2>2 DEF Elsewhere
    <3>2. CASE st.where[s].room # r
      BY <1>1, <3>1, <3>2 DEF EntryOK
    <3>3. CASE st.where[s].room = r
      BY <1>1, <3>1, <3>3 DEF EntryOK
    <3> QED
      BY <3>2, <3>3
  <2> QED
    BY <2>1, <2>2 DEF Touches
<1>6. ASSUME NEW q \in DOMAIN new.rooms, NEW m \in Members(new.rooms[q]),
             l[new.rooms[q].sock[m]] # "closed"
      PROVE  Bound(new, q, m)
  <2>1. CASE q = r /\ m = p
    BY <1>1, <1>6, <2>1 DEF Touches
  <2>2. CASE ~ (q = r /\ m = p)
    <3>1. /\ q \in DOMAIN st.rooms /\ m \in Members(st.rooms[q])
          /\ st.rooms[q].sock[m] = new.rooms[q].sock[m]
      BY <1>1, <2>2
    <3>2. st.rooms[q].sock[m] \in Sids /\ st.rooms[q].sock[m][1] = m
      BY <3>1 DEF Good, RoomOK, RoomShape
    <3>3. k[st.rooms[q].sock[m]] # "closed"
      BY <1>6, <3>1, <3>2 DEF Touches, Closes
    <3>4. Bound(st, q, m)
      BY <3>1, <3>3 DEF Good, LiveIsBound
    <3>5. Elsewhere(st, st.rooms[q].sock[m], r, p)
      BY <2>2, <3>2, <3>4 DEF Elsewhere, Bound
    <3> QED
      BY <1>4, <3>1, <3>4, <3>5 DEF Bound
  <2> QED
    BY <2>1, <2>2
<1>7. ASSUME NEW q \in DOMAIN new.grace PROVE TimerOK(new, l, q)
  <2>1. /\ q \in DOMAIN st.grace /\ new.grace[q] = st.grace[q]
        /\ q # p \/ st.grace[q].room # r
    BY DEF Touches
  <2>2. TimerOK(st, k, q)
    BY <2>1 DEF Good
  <2>3. Elsewhere(st, st.grace[q].sid, r, p)
    BY <2>1, <2>2 DEF TimerOK, Elsewhere
  <2>4. l[st.grace[q].sid] = "closed"
    BY <1>4, <2>2, <2>3 DEF TimerOK, Touches, Closes
  <2> QED
    BY <1>4, <2>1, <2>2, <2>3, <2>4 DEF TimerOK
<1>8. SocketsApart(new)
  <2> SUFFICES ASSUME NEW a \in DOMAIN new.rooms, NEW b \in DOMAIN new.rooms,
                      NEW q \in Members(new.rooms[a]) \cap Members(new.rooms[b]),
                      new.rooms[a].sock[q] = new.rooms[b].sock[q]
               PROVE  a = b
    BY DEF SocketsApart
  <2>1. CASE q # p
    <3>1. /\ a \in DOMAIN st.rooms /\ q \in Members(st.rooms[a])
          /\ st.rooms[a].sock[q] = new.rooms[a].sock[q]
      BY <1>1, <2>1
    <3>2. /\ b \in DOMAIN st.rooms /\ q \in Members(st.rooms[b])
          /\ st.rooms[b].sock[q] = new.rooms[b].sock[q]
      BY <1>1, <2>1
    <3> QED
      BY <3>1, <3>2 DEF Good, SocketsApart
  <2>2. CASE q = p /\ a # r /\ b # r
    <3>1. /\ a \in DOMAIN st.rooms /\ b \in DOMAIN st.rooms
          /\ new.rooms[a] = st.rooms[a] /\ new.rooms[b] = st.rooms[b]
      BY <1>1, <2>2
    <3> QED
      BY <3>1 DEF Good, SocketsApart
  <2>3. CASE q = p /\ a = r /\ b # r
    BY <1>1, <2>3 DEF Touches
  <2>4. CASE q = p /\ a # r /\ b = r
    BY <1>1, <2>4 DEF Touches
  <2> QED
    BY <2>1, <2>2, <2>3, <2>4
<1>9. SocketsUsed(new, l)
  <2> SUFFICES ASSUME NEW q \in DOMAIN new.rooms, NEW m \in Members(new.rooms[q])
               PROVE  l[new.rooms[q].sock[m]] # "unused"
    BY DEF SocketsUsed
  <2>1. CASE q = r /\ m = p
    BY <1>1, <2>1 DEF Touches
  <2>2. CASE ~ (q = r /\ m = p)
    <3>1. /\ q \in DOMAIN st.rooms /\ m \in Members(st.rooms[q])
          /\ st.rooms[q].sock[m] = new.rooms[q].sock[m]
      BY <1>1, <2>2
    <3>2. st.rooms[q].sock[m] \in Sids /\ k[st.rooms[q].sock[m]] # "unused"
      BY <3>1 DEF Good, RoomOK, RoomShape, SocketsUsed
    <3> QED
      BY <3>1, <3>2 DEF Touches, StaysUsed
  <2> QED
    BY <2>1, <2>2
<1> QED
  BY <1>2, <1>3, <1>5, <1>6, <1>7, <1>8, <1>9 DEF Good, LiveIsBound


(* The rooms of R are deleted, with the entries into them.                  *)
Drops(st, new, k, l, R) ==
  /\ Closes(k, l) /\ StaysUsed(k, l)
  /\ DOMAIN new = {"rooms", "where", "grace", "saved"}
  /\ new.rooms = RestrictDomain(st.rooms, LAMBDA r : r \notin R)
  /\ new.saved = RestrictDomain(st.saved, LAMBDA r : r \notin R)
  /\ DOMAIN new.where = {s \in DOMAIN st.where : st.where[s].room \notin R}
  /\ \A s \in DOMAIN new.where : new.where[s] = st.where[s]
  /\ DOMAIN new.grace \subseteq DOMAIN st.grace
  /\ \A q \in DOMAIN new.grace :
       new.grace[q] = st.grace[q] /\ st.grace[q].room \notin R

LEMMA DropGood ==
  ASSUME NEW st, NEW new, NEW k, NEW l, NEW R, Good(st, k), Drops(st, new, k, l, R)
  PROVE  /\ Good(new, l)
         /\ DOMAIN new.rooms = DOMAIN st.rooms \ R
         /\ \A r \in DOMAIN new.rooms : new.rooms[r] = st.rooms[r]
<1>1. /\ DOMAIN new.rooms = DOMAIN st.rooms \ R
      /\ \A r \in DOMAIN new.rooms : new.rooms[r] = st.rooms[r]
      /\ new.saved = new.rooms
  BY DEF Drops, Good, IsServer, RestrictDomain, Restrict
<1>2. IsServer(new)
  BY <1>1 DEF Drops, Good, IsServer
<1>3. \A r \in DOMAIN new.rooms : RoomOK(new.rooms[r], l)
  BY <1>1, RoomCloses DEF Drops, Good
<1>4. ASSUME NEW s \in DOMAIN new.where PROVE EntryOK(new, s)
  <2>1. /\ s \in DOMAIN st.where /\ st.where[s].room \notin R
        /\ new.where[s] = st.where[s]
    BY DEF Drops
  <2>2. EntryOK(st, s)
    BY <2>1 DEF Good
  <2>3. new.rooms[st.where[s].room] = st.rooms[st.where[s].room]
        /\ st.where[s].room \in DOMAIN new.rooms
    BY <1>1, <2>1, <2>2 DEF EntryOK
  <2> QED
    BY <2>1, <2>2, <2>3 DEF EntryOK
<1>5. ASSUME NEW r \in DOMAIN new.rooms, NEW p \in Members(new.rooms[r]),
             l[new.rooms[r].sock[p]] # "closed"
      PROVE  Bound(new, r, p)
  <2>1. r \in DOMAIN st.rooms \ R /\ new.rooms[r] = st.rooms[r]
    BY <1>1
  <2>2. st.rooms[r].sock[p] \in Sids
    BY <2>1 DEF Good, RoomOK, RoomShape
  <2>3. Bound(st, r, p)
    BY <1>5, <2>1, <2>2 DEF Good, LiveIsBound, Drops, Closes
  <2> QED
    BY <2>1, <2>3 DEF Bound, Drops
<1>6. SocketsApart(new)
  BY <1>1 DEF Good, SocketsApart
<1>7. ASSUME NEW q \in DOMAIN new.grace PROVE TimerOK(new, l, q)
  <2>1. /\ q \in DOMAIN st.grace /\ new.grace[q] = st.grace[q]
        /\ st.grace[q].room \notin R
    BY DEF Drops
  <2>2. TimerOK(st, k, q)
    BY <2>1 DEF Good
  <2>3. st.grace[q].sid \in Sids
    BY <2>2 DEF TimerOK, Good, IsServer
  <2> QED
    BY <2>1, <2>2, <2>3 DEF TimerOK, Drops, Closes
<1>8. SocketsUsed(new, l)
  <2> SUFFICES ASSUME NEW r \in DOMAIN new.rooms, NEW p \in Members(new.rooms[r])
               PROVE  l[new.rooms[r].sock[p]] # "unused"
    BY DEF SocketsUsed
  <2>1. r \in DOMAIN st.rooms /\ new.rooms[r] = st.rooms[r]
    BY <1>1
  <2>2. st.rooms[r].sock[p] \in Sids /\ k[st.rooms[r].sock[p]] # "unused"
    BY <2>1 DEF Good, RoomOK, RoomShape, SocketsUsed
  <2> QED
    BY <2>1, <2>2 DEF Drops, StaysUsed
<1> QED
  BY <1>1, <1>2, <1>3, <1>4, <1>5, <1>6, <1>7, <1>8 DEF Good, LiveIsBound

(* Members who stay watched.                                               *)
LEMMA TouchGhosts ==
  ASSUME NEW st, NEW new, NEW k, NEW l, NEW r, NEW p, NEW room,
         Good(st, k), Touches(st, new, k, l, r, p, room), OthersWatched(st, k, p),
         \A s \in Sids : s[1] # p => l[s] = k[s],
         \A q \in DOMAIN st.grace \ {p} : q \in DOMAIN new.grace,
         \A q \in DOMAIN st.rooms \ {r} : p \notin Members(st.rooms[q]),
         p \in Members(room) =>
           /\ Bound(new, r, p)
           /\ l[room.sock[p]] = "closed" =>
                p \in DOMAIN new.grace /\ new.grace[p].room = r
  PROVE  GhostsWatched(new, l)
<1>1. OnlyTouched(st, new, r, p, room)
  BY TouchedRooms
<1> SUFFICES ASSUME NEW q \in DOMAIN new.rooms, NEW m \in Members(new.rooms[q])
             PROVE  /\ Bound(new, q, m)
                    /\ l[new.rooms[q].sock[m]] = "closed" =>
                         m \in DOMAIN new.grace /\ new.grace[m].room = q
  BY DEF GhostsWatched, IsWatched
<1>2. CASE m = p
  <2>1. q = r /\ new.rooms[q] = room
    BY <1>1, <1>2 DEF OnlyTouched
  <2> QED
    BY <1>2, <2>1
<1>3. CASE m # p
  <2>1. /\ q \in DOMAIN st.rooms /\ m \in Members(st.rooms[q])
        /\ new.rooms[q].sock[m] = st.rooms[q].sock[m]
    BY <1>1, <1>3 DEF OnlyTouched
  <2>2. st.rooms[q].sock[m] \in Sids /\ st.rooms[q].sock[m][1] = m
    BY <2>1 DEF Good, RoomOK, RoomShape
  <2>3. /\ Bound(st, q, m)
        /\ k[st.rooms[q].sock[m]] = "closed" =>
             m \in DOMAIN st.grace /\ st.grace[m].room = q
    BY <1>3, <2>1 DEF OthersWatched, IsWatched
  <2>4. Elsewhere(st, st.rooms[q].sock[m], r, p)
    BY <1>3, <2>2, <2>3 DEF Bound, Elsewhere
  <2>5. Bound(new, q, m)
    BY <2>1, <2>3, <2>4 DEF Bound, Touches, Elsewhere
  <2> QED
    BY <1>3, <2>1, <2>2, <2>3, <2>5 DEF Touches
<1> QED
  BY <1>2, <1>3

LEMMA DropGhosts ==
  ASSUME NEW st, NEW new, NEW k, NEW l, NEW R,
         Good(st, k), Drops(st, new, k, l, R),
         \A r \in DOMAIN st.rooms \ R : \A p \in Members(st.rooms[r]) :
           /\ IsWatched(st, k, r, p)
           /\ l[st.rooms[r].sock[p]] = k[st.rooms[r].sock[p]]
           /\ p \in DOMAIN st.grace => p \in DOMAIN new.grace
  PROVE  GhostsWatched(new, l)
<1>1. /\ DOMAIN new.rooms = DOMAIN st.rooms \ R
      /\ \A r \in DOMAIN new.rooms : new.rooms[r] = st.rooms[r]
  BY DropGood
<1> SUFFICES ASSUME NEW r \in DOMAIN new.rooms, NEW p \in Members(new.rooms[r])
             PROVE  /\ Bound(new, r, p)
                    /\ l[new.rooms[r].sock[p]] = "closed" =>
                         p \in DOMAIN new.grace /\ new.grace[p].room = r
  BY DEF GhostsWatched, IsWatched
<1>2. r \in DOMAIN st.rooms \ R /\ new.rooms[r] = st.rooms[r]
  BY <1>1
<1>3. /\ Bound(st, r, p)
      /\ k[st.rooms[r].sock[p]] = "closed" =>
           p \in DOMAIN st.grace /\ st.grace[p].room = r
  BY <1>2 DEF IsWatched
<1>4. Bound(new, r, p)
  BY <1>2, <1>3 DEF Bound, Drops
<1> QED
  BY <1>2, <1>3, <1>4 DEF Drops


(***************************************************************************)
(* Leaving.                                                                *)
(***************************************************************************)

(* Nobody but the player of socket s loses his place.                      *)
OthersSeated(st, new, s) ==
  \A r \in DOMAIN st.rooms : \A p \in ToSet(st.rooms[r].players) :
    st.rooms[r].sock[p] # s =>
      r \in DOMAIN new.rooms /\ p \in ToSet(new.rooms[r].players)

SlotsKept(st, new) ==
  \A r \in DOMAIN st.rooms \cap DOMAIN new.rooms : KeepsSlots(st.rooms[r], new.rooms[r])

LEMMA LeaveGood ==
  ASSUME NEW st, NEW k, NEW l, Good(st, k), Closes(k, l), StaysUsed(k, l), NEW s \in DOMAIN st.where,
         l[s] = "closed"
  PROVE  LET new == Leave(st, s) IN
         /\ Good(new, l) /\ s \notin DOMAIN new.where /\ SlotsKept(st, new)
         /\ OthersSeated(st, new, s)
         /\ (\A u \in Sids : u[1] # s[1] => l[u] = k[u]) /\ OneRoomEach(st)
              /\ OthersWatched(st, k, s[1]) => GhostsWatched(new, l)
<1> DEFINE new   == Leave(st, s)
           p     == s[1]
           r     == st.where[s].room
           room  == st.rooms[r]
           spec  == st.where[s].spectator
           known == CancelGrace([st EXCEPT !.where = Without(@, s)], p)
           after == Departed(room, s, p, spec)
<1>1. /\ s \in Sids /\ p \in Pids /\ r \in DOMAIN st.rooms /\ r \in RoomIds
      /\ RoomOK(room, k) /\ RoomShape(room)
      /\ p \in Members(room) /\ room.sock[p] = s /\ st.where[s].pid = p
      /\ spec \in BOOLEAN /\ (spec <=> p \in room.spectators)
  <2>1. s \in Sids /\ EntryOK(st, s)
    BY DEF Good, IsServer
  <2>2. /\ r \in DOMAIN st.rooms /\ p \in Members(room) /\ room.sock[p] = s
        /\ st.where[s].pid = p /\ spec = (p \in room.spectators)
    BY <2>1 DEF EntryOK
  <2>3. spec \in BOOLEAN
    BY <2>2
  <2>4. spec <=> p \in room.spectators
    BY <2>2, Zenon
  <2> QED
    BY <2>1, <2>2, <2>3, <2>4, SocketParts DEF Good, IsServer, RoomOK
<1>2. /\ DOMAIN known = {"rooms", "where", "grace", "saved"}
      /\ known.rooms = st.rooms /\ known.saved = st.saved
      /\ known.where = Without(st.where, s) /\ known.grace = Without(st.grace, p)
  <2>1. DOMAIN st = {"rooms", "where", "grace", "saved"}
    BY DEF Good, IsServer
  <2> QED
    BY <2>1 DEF CancelGrace
<1>3. /\ DOMAIN known.where = DOMAIN st.where \ {s}
      /\ \A u \in DOMAIN known.where : known.where[u] = st.where[u]
      /\ DOMAIN known.grace = DOMAIN st.grace \ {p}
      /\ \A q \in DOMAIN known.grace : known.grace[q] = st.grace[q]
  BY <1>2 DEF Without, RestrictDomain, Restrict
<1>4. /\ RoomOK(after, l) /\ OthersStay(room, after, p) /\ KeepsSlots(room, after)
      /\ Members(after) = Members(room) \ {p}
  BY <1>1, DepartOK
<1>5. new = IF Members(after) = {} THEN Drop(known, {r}) ELSE Put(known, r, after)
  BY <1>1 DEF Leave
<1> HIDE DEF new, p, r, room, spec, known, after
<1>6. CASE Members(after) = {}
  <2>1. new = Drop(known, {r}) /\ Members(room) = {p}
    BY <1>1, <1>4, <1>5, <1>6
  <2>2. /\ DOMAIN new = {"rooms", "where", "grace", "saved"}
        /\ new.rooms = RestrictDomain(st.rooms, LAMBDA q : q \notin {r})
        /\ new.saved = RestrictDomain(st.saved, LAMBDA q : q \notin {r})
        /\ new.where = known.where /\ new.grace = known.grace
    BY <1>2, <2>1 DEF Drop
  <2>3. ASSUME NEW u \in DOMAIN st.where, st.where[u].room = r PROVE u = s
    BY <1>1, <2>1, <2>3 DEF Good, EntryOK, room
  <2>4. ASSUME NEW q \in DOMAIN st.grace, q # p PROVE st.grace[q].room # r
    <3>1. TimerOK(st, k, q)
      BY DEF Good
    <3>2. st.where[st.grace[q].sid].room = st.grace[q].room /\ st.grace[q].sid # s
      BY <2>4, <3>1 DEF TimerOK, p
    <3> QED
      BY <2>3, <3>1, <3>2 DEF TimerOK
  <2>5. Drops(st, new, k, l, {r})
    <3>1. DOMAIN new.where = {u \in DOMAIN st.where : st.where[u].room \notin {r}}
      BY <1>3, <2>2, <2>3 DEF r
    <3> QED
      BY <1>3, <2>2, <2>4, <3>1 DEF Drops
  <2>6. /\ Good(new, l) /\ DOMAIN new.rooms = DOMAIN st.rooms \ {r}
        /\ \A q \in DOMAIN new.rooms : new.rooms[q] = st.rooms[q]
    BY <2>5, DropGood
  <2>7. SlotsKept(st, new)
    BY <2>6 DEF SlotsKept, KeepsSlots
  <2>8. OthersSeated(st, new, s)
    BY <1>1, <2>1, <2>6 DEF OthersSeated, room, Members
  <2>9. ASSUME \A u \in Sids : u[1] # s[1] => l[u] = k[u],
               OneRoomEach(st), OthersWatched(st, k, s[1])
        PROVE  GhostsWatched(new, l)
    <3>1. ASSUME NEW q \in DOMAIN st.rooms \ {r}, NEW m \in Members(st.rooms[q])
          PROVE  /\ IsWatched(st, k, q, m)
                 /\ l[st.rooms[q].sock[m]] = k[st.rooms[q].sock[m]]
                 /\ m \in DOMAIN st.grace => m \in DOMAIN new.grace
      <4>1. m # p
        BY <1>1, <2>1, <2>9 DEF OneRoomEach, room
      <4>2. st.rooms[q].sock[m] \in Sids /\ st.rooms[q].sock[m][1] = m
        BY DEF Good, RoomOK, RoomShape
      <4> QED
        BY <1>3, <2>2, <2>9, <4>1, <4>2 DEF p, OthersWatched
    <3> QED
      BY <2>5, <2>9, <3>1, DropGhosts
  <2> QED
    BY <1>3, <2>2, <2>6, <2>7, <2>8, <2>9 DEF new
<1>7. CASE Members(after) # {}
  <2>1. new = Put(known, r, after)
    BY <1>5, <1>7
  <2>2. /\ DOMAIN new = {"rooms", "where", "grace", "saved"}
        /\ new.rooms = With(st.rooms, r, after) /\ new.saved = With(st.saved, r, after)
        /\ new.where = known.where /\ new.grace = known.grace
    BY <1>2, <2>1 DEF Put
  <2>3. p \notin Members(after)
    BY <1>4
  <2>4. ASSUME NEW u \in DOMAIN new.where PROVE Elsewhere(st, u, r, p)
    BY <1>1, <1>3, <2>2 DEF Good, EntryOK, Elsewhere, room
  <2>5. Touches(st, new, k, l, r, p, after)
    <3>1. \A u \in DOMAIN st.where :
            Elsewhere(st, u, r, p) => u \in DOMAIN new.where /\ new.where[u] = st.where[u]
      BY <1>3, <2>2 DEF Elsewhere, p, r
    <3>2. DOMAIN new.where \subseteq Sids
      BY <1>3, <2>2 DEF Good, IsServer
    <3> QED
      BY <1>1, <1>3, <1>4, <2>2, <2>3, <2>4, <3>1, <3>2 DEF Touches, room
  <2>6. Good(new, l) /\ OnlyTouched(st, new, r, p, after)
    BY <1>1, <2>5, TouchGood, TouchedRooms
  <2>7. SlotsKept(st, new)
    BY <1>4, <2>6 DEF SlotsKept, KeepsSlots, OnlyTouched, room
  <2>8. OthersSeated(st, new, s)
    BY <1>1, <1>4, <2>6 DEF OthersSeated, OnlyTouched, OthersStay, room
  <2>9. ASSUME \A u \in Sids : u[1] # s[1] => l[u] = k[u],
               OneRoomEach(st), OthersWatched(st, k, s[1])
        PROVE  GhostsWatched(new, l)
    <3>1. \A q \in DOMAIN st.rooms \ {r} : p \notin Members(st.rooms[q])
      BY <1>1, <2>9 DEF OneRoomEach, room
    <3>2. \A q \in DOMAIN st.grace \ {p} : q \in DOMAIN new.grace
      BY <1>3, <2>2
    <3>3. (\A u \in Sids : u[1] # p => l[u] = k[u]) /\ OthersWatched(st, k, p)
      BY <2>9 DEF p
    <3> QED
      BY <2>3, <2>5, <2>9, <3>1, <3>2, <3>3, TouchGhosts
  <2> QED
    BY <1>3, <2>2, <2>6, <2>7, <2>8, <2>9 DEF new
<1> QED
  BY <1>6, <1>7


(***************************************************************************)
(* Entering, and what members ask for.                                     *)
(***************************************************************************)

(* What a handler may start from: srv itself, or without the entry and the  *)
(* timer that the member p of r had before.                                *)
Clears(st, base, s, r, p) ==
  /\ DOMAIN base = {"rooms", "where", "grace", "saved"}
  /\ base.rooms = st.rooms /\ base.saved = st.saved
  /\ DOMAIN base.where \subseteq DOMAIN st.where
  /\ \A u \in DOMAIN base.where : base.where[u] = st.where[u]
  /\ \A u \in DOMAIN st.where : Elsewhere(st, u, r, p) => u \in DOMAIN base.where
  /\ \A u \in DOMAIN base.where \ {s} : Elsewhere(st, u, r, p)
  /\ DOMAIN base.grace \subseteq DOMAIN st.grace
  /\ \A q \in DOMAIN base.grace :
       base.grace[q] = st.grace[q] /\ (q # p \/ st.grace[q].room # r)
  /\ \A q \in DOMAIN st.grace \ {p} : q \in DOMAIN base.grace

(* The entry of a socket that is not closed is the only one of its member,  *)
(* and he has no timer.                                                    *)
LEMMA NothingToClear ==
  ASSUME NEW st, NEW k, Good(st, k), NEW s \in Sids, k[s] # "closed", NEW r,
         r \in DOMAIN st.rooms /\ s[1] \in Members(st.rooms[r])
           => st.rooms[r].sock[s[1]] = s
  PROVE  Clears(st, st, s, r, s[1])
<1>1. ASSUME NEW u \in DOMAIN st.where \ {s} PROVE Elsewhere(st, u, r, s[1])
  BY <1>1 DEF Good, EntryOK, Elsewhere
<1>2. ASSUME NEW q \in DOMAIN st.grace PROVE q # s[1] \/ st.grace[q].room # r
  <2>1. TimerOK(st, k, q)
    BY DEF Good
  <2>2. st.grace[q].sid # s
    BY <2>1 DEF TimerOK
  <2> QED
    BY <1>1, <2>1, <2>2 DEF TimerOK, Elsewhere
<1> QED
  BY <1>1, <1>2 DEF Clears, Good, IsServer

(* A socket enters a room, or takes another role in it.                     *)
LEMMA EnterGood ==
  ASSUME NEW st, NEW k, Good(st, k), NEW s \in Sids, k[s] # "closed", k[s] # "unused",
         NEW r \in RoomIds, s \in DOMAIN st.where => st.where[s].room = r,
         NEW base, Clears(st, base, s, r, s[1]), NEW room, RoomOK(room, k),
         IF r \in DOMAIN st.rooms THEN OthersStay(st.rooms[r], room, s[1])
         ELSE Members(room) \subseteq {s[1]},
         s[1] \in Members(room), room.sock[s[1]] = s,
         NEW spectator, spectator = (s[1] \in room.spectators)
  PROVE  LET new == Bind(Put(base, r, room), s, r, s[1], spectator) IN
         /\ Good(new, k) /\ OnlyTouched(st, new, r, s[1], room)
         /\ s \in DOMAIN new.where /\ new.where[s].spectator = spectator
         /\ OneRoomEach(new) /\ OthersWatched(st, k, s[1]) => GhostsWatched(new, k)
<1> DEFINE p == s[1]
           entry == [room |-> r, pid |-> p, spectator |-> spectator]
           new == Bind(Put(base, r, room), s, r, p, spectator)
<1>1. /\ DOMAIN new = {"rooms", "where", "grace", "saved"}
      /\ new.rooms = With(st.rooms, r, room) /\ new.saved = With(st.saved, r, room)
      /\ new.where = With(base.where, s, entry) /\ new.grace = base.grace
  BY DEF Clears, Put, Bind
<1>2. entry.room = r /\ entry.pid = p /\ entry.spectator = spectator
  OBVIOUS
<1> HIDE DEF new, entry
<1>3. /\ DOMAIN new.where = DOMAIN base.where \cup {s} /\ new.where[s] = entry
      /\ \A u \in DOMAIN base.where \ {s} : new.where[u] = st.where[u]
  BY <1>1 DEF With, Clears
<1>4. p \in Pids
  BY SocketParts
<1>5. /\ r \in DOMAIN new.rooms /\ new.rooms[r] = room
  BY <1>1 DEF With
<1>6. EntryOK(new, s)
  BY <1>2, <1>3, <1>5 DEF EntryOK
<1>7. Bound(new, r, p)
  BY <1>2, <1>3, <1>5 DEF Bound
<1>8. ASSUME NEW q \in DOMAIN st.rooms \ {r}, p \in Members(st.rooms[q])
      PROVE  st.rooms[q].sock[p] # s
  BY <1>8 DEF Good, LiveIsBound, Bound
<1>9. \A u \in DOMAIN st.where :
        Elsewhere(st, u, r, p) => u \in DOMAIN new.where /\ new.where[u] = st.where[u]
  BY <1>3 DEF Clears, Elsewhere
<1>10. \A u \in DOMAIN new.where : Elsewhere(st, u, r, p) \/ EntryOK(new, u)
  BY <1>3, <1>6 DEF Clears
<1>11. DOMAIN new.where \subseteq Sids
  BY <1>3 DEF Clears, Good, IsServer
<1>12. Touches(st, new, k, k, r, p, room)
  BY <1>1, <1>7, <1>8, <1>9, <1>10, <1>11 DEF Touches, Clears, Closes, StaysUsed
<1>13. Good(new, k) /\ OnlyTouched(st, new, r, p, room)
  BY <1>4, <1>12, TouchGood, TouchedRooms
<1>14. ASSUME OneRoomEach(new), OthersWatched(st, k, s[1]) PROVE GhostsWatched(new, k)
  <2>1. \A q \in DOMAIN st.rooms \ {r} : p \notin Members(st.rooms[q])
    BY <1>5, <1>13, <1>14 DEF OneRoomEach, OnlyTouched
  <2>2. \A q \in DOMAIN st.grace \ {p} : q \in DOMAIN new.grace
    BY <1>1 DEF Clears
  <2> QED
    BY <1>7, <1>12, <1>14, <2>1, <2>2, TouchGhosts
<1> QED
  BY <1>2, <1>3, <1>13, <1>14 DEF new

(* What follows of the players and their slots.                             *)
LEMMA TouchKeeps ==
  ASSUME NEW st, NEW new, NEW k, NEW r, NEW p, NEW room, OnlyTouched(st, new, r, p, room),
         r \in DOMAIN st.rooms =>
           /\ KeepsSlots(st.rooms[r], room)
           /\ ToSet(room.players) \ {p} = ToSet(st.rooms[r].players) \ {p}
  PROVE  /\ SlotsKept(st, new)
         /\ \A q \in DOMAIN st.rooms : \A m \in ToSet(st.rooms[q].players) :
              q # r \/ m # p =>
                q \in DOMAIN new.rooms /\ m \in ToSet(new.rooms[q].players)
<1>1. SlotsKept(st, new)
  BY DEF OnlyTouched, SlotsKept, KeepsSlots
<1> QED
  BY <1>1 DEF OnlyTouched


(***************************************************************************)
(* The handlers.                                                           *)
(***************************************************************************)

(* A connected player is out of his room only if his own socket left it or  *)
(* watches now.                                                            *)
OwnRequest(new) ==
  \A r \in DOMAIN srv.rooms : \A p \in ToSet(srv.rooms[r].players) :
    LET s == srv.rooms[r].sock[p] IN
      sk[s] = "open"
        /\ (r \notin DOMAIN new.rooms \/ p \notin ToSet(new.rooms[r].players))
      => \/ s \notin DOMAIN new.where /\ new = Leave(srv, s)
         \/ /\ s \in DOMAIN new.where /\ r \in DOMAIN new.rooms
            /\ p \in new.rooms[r].spectators /\ new.rooms[r].sock[p] = s

(* What a handler that ends in new, with the sockets l, leaves true.        *)
Handled(new, l) ==
  /\ Good(new, l) /\ SlotsKept(srv, new) /\ OwnRequest(new)
  /\ OneRoomEach(srv) /\ OneRoomEach(new) /\ GhostsWatched(srv, sk)
       => GhostsWatched(new, l)

LEMMA EnterHandled ==
  ASSUME Good(srv, sk), NEW s \in Sids, CanAsk(s), NEW r \in RoomIds,
         s \in DOMAIN srv.where => srv.where[s].room = r,
         NEW base, Clears(srv, base, s, r, s[1]), NEW room, RoomOK(room, sk),
         IF r \in DOMAIN srv.rooms
         THEN OthersStay(srv.rooms[r], room, s[1]) /\ KeepsSlots(srv.rooms[r], room)
         ELSE Members(room) \subseteq {s[1]},
         s[1] \in Members(room), room.sock[s[1]] = s,
         NEW spectator, spectator = (s[1] \in room.spectators),
         r \in DOMAIN srv.rooms /\ s[1] \in ToSet(srv.rooms[r].players) =>
           \/ s[1] \in ToSet(room.players)
           \/ srv.rooms[r].sock[s[1]] = s /\ s[1] \in room.spectators
  PROVE  Handled(Bind(Put(base, r, room), s, r, s[1], spectator), sk)
<1> DEFINE new == Bind(Put(base, r, room), s, r, s[1], spectator)
<1>1. sk[s] # "closed" /\ sk[s] # "unused"
  BY DEF CanAsk
<1>2. IF r \in DOMAIN srv.rooms THEN OthersStay(srv.rooms[r], room, s[1])
      ELSE Members(room) \subseteq {s[1]}
  OBVIOUS
<1>3. /\ Good(new, sk) /\ OnlyTouched(srv, new, r, s[1], room)
      /\ s \in DOMAIN new.where /\ new.where[s].spectator = spectator
      /\ OneRoomEach(new) /\ OthersWatched(srv, sk, s[1]) => GhostsWatched(new, sk)
  BY <1>1, <1>2, EnterGood
<1> HIDE DEF new
<1>4. /\ SlotsKept(srv, new)
      /\ \A q \in DOMAIN srv.rooms : \A m \in ToSet(srv.rooms[q].players) :
           q # r \/ m # s[1] =>
             q \in DOMAIN new.rooms /\ m \in ToSet(new.rooms[q].players)
  <2>1. r \in DOMAIN srv.rooms =>
          /\ KeepsSlots(srv.rooms[r], room)
          /\ ToSet(room.players) \ {s[1]} = ToSet(srv.rooms[r].players) \ {s[1]}
    BY DEF OthersStay
  <2> QED
    BY <1>3, <2>1, TouchKeeps
<1>5. OwnRequest(new)
  BY <1>3, <1>4 DEF OwnRequest, OnlyTouched
<1>6. GhostsWatched(srv, sk) => OthersWatched(srv, sk, s[1])
  BY DEF GhostsWatched, OthersWatched
<1> QED
  BY <1>3, <1>4, <1>5, <1>6 DEF Handled, new

(* create-room and join-room of a member.                                  *)
LEMMA ReturnHandled ==
  ASSUME Good(srv, sk), NEW s \in Sids, NEW r \in RoomIds, MayEnter(s, r),
         r \in DOMAIN srv.rooms, s[1] \in Members(srv.rooms[r])
  PROVE  Handled(Return(s, r), sk)
<1> DEFINE p    == s[1]
           room == srv.rooms[r]
           old  == room.sock[p]
           base == [CancelGrace(srv, p) EXCEPT !.where = Without(@, old)]
           back == SwapSid(room, p, s)
           spectator == p \in room.spectators
<1>1. /\ CanAsk(s) /\ sk[s] # "closed" /\ sk[s] # "unused"
      /\ s \in DOMAIN srv.where => srv.where[s].room = r
  BY DEF MayEnter, CanAsk
<1>2. RoomOK(room, sk)
  BY DEF Good
<1>3. /\ RoomOK(back, sk) /\ OthersStay(room, back, p) /\ KeepsSlots(room, back)
      /\ back.players = room.players /\ back.spectators = room.spectators
      /\ back.sock[p] = s
  BY <1>1, <1>2, SwapOK
<1>4. /\ DOMAIN base = {"rooms", "where", "grace", "saved"}
      /\ base.rooms = srv.rooms /\ base.saved = srv.saved
      /\ base.where = Without(srv.where, old) /\ base.grace = Without(srv.grace, p)
  <2>1. DOMAIN srv = {"rooms", "where", "grace", "saved"}
    BY DEF Good, IsServer
  <2> QED
    BY <2>1 DEF CancelGrace
<1> HIDE DEF base, back
<1>5. ASSUME NEW u \in DOMAIN srv.where, u[1] = p, srv.where[u].room = r PROVE u = old
  BY <1>5 DEF Good, EntryOK
<1>6. ASSUME old \in DOMAIN srv.where PROVE srv.where[old].room = r
  <2>1. EntryOK(srv, old) /\ old[1] = p
    BY <1>2, <1>6 DEF Good, RoomOK, RoomShape
  <2>2. PICK q \in DOMAIN srv.rooms :
           /\ q = srv.where[old].room /\ p \in Members(srv.rooms[q])
           /\ srv.rooms[q].sock[p] = srv.rooms[r].sock[p]
    BY <2>1 DEF EntryOK
  <2>3. q = r
    BY <2>2 DEF Good, SocketsApart
  <2> QED
    BY <2>2, <2>3
<1>7. old[1] = p
  BY <1>2 DEF RoomOK, RoomShape
<1>8. /\ DOMAIN base.where = DOMAIN srv.where \ {old}
      /\ \A u \in DOMAIN base.where : base.where[u] = srv.where[u]
      /\ DOMAIN base.grace = DOMAIN srv.grace \ {p}
      /\ \A q \in DOMAIN base.grace : base.grace[q] = srv.grace[q]
  BY <1>4 DEF Without, RestrictDomain, Restrict
<1>9. Clears(srv, base, s, r, p)
  BY <1>4, <1>5, <1>6, <1>7, <1>8 DEF Clears, Elsewhere
<1>10. p \in Members(back)
  BY <1>3 DEF Members
<1>11. Handled(Bind(Put(base, r, back), s, r, p, spectator), sk)
  <2>1. spectator = (p \in back.spectators)
    BY <1>3
  <2>2. p \in ToSet(room.players) => p \in ToSet(back.players)
    BY <1>3
  <2> HIDE DEF spectator
  <2> QED
    BY <1>1, <1>3, <1>9, <1>10, <2>1, <2>2, EnterHandled
<1> QED
  BY <1>11 DEF Return, base, back, CancelGrace


(* A socket that has no entry has nothing to leave.                         *)
LEMMA NothingToLeave ==
  ASSUME NEW s, s \notin DOMAIN srv.where
  PROVE  Leave(srv, s) = srv
BY DEF Leave

(* create-room.                                                            *)
LEMMA OpenRoomHandled ==
  ASSUME Good(srv, sk), NEW s \in Sids, NEW r \in RoomIds, OpenRoom(s, r)
  PROVE  Handled(srv', sk)
<1> DEFINE room == NewRoom(s[1], s)
<1>1. MayEnter(s, r) /\ CanAsk(s)
  BY DEF OpenRoom, MayEnter
<1>2. CASE r \in DOMAIN srv.rooms /\ s[1] \in ToSet(srv.rooms[r].players)
           /\ srv' = Return(s, r)
  BY <1>1, <1>2, ReturnHandled DEF Members
<1>3. CASE /\ r \notin DOMAIN srv.rooms
           /\ srv' = Bind(Put(Leave(srv, s), r, room), s, r, s[1], FALSE)
  <2>1. s \notin DOMAIN srv.where
    BY <1>1, <1>3 DEF MayEnter, Good, EntryOK
  <2>2. srv' = Bind(Put(srv, r, room), s, r, s[1], FALSE)
    BY <1>3, <2>1, NothingToLeave
  <2>3. Clears(srv, srv, s, r, s[1])
    BY <1>1, <1>3, NothingToClear DEF CanAsk
  <2>4. /\ RoomOK(room, sk) /\ Members(room) = {s[1]}
        /\ room.sock[s[1]] = s /\ room.spectators = {}
    BY NewRoomOK
  <2> DEFINE spectator == s[1] \in room.spectators
  <2> HIDE DEF room
  <2>5. srv' = Bind(Put(srv, r, room), s, r, s[1], spectator)
    <3>1. spectator = FALSE
      BY <2>4
    <3> HIDE DEF spectator
    <3> QED
      BY <2>2, <3>1
  <2>6. spectator = (s[1] \in room.spectators) /\ s[1] \in Members(room)
    BY <2>4
  <2>7. r \notin DOMAIN srv.rooms
    BY <1>3
  <2> HIDE DEF spectator
  <2> QED
    BY <1>1, <2>1, <2>3, <2>4, <2>5, <2>6, <2>7, EnterHandled
<1>4. \/ r \in DOMAIN srv.rooms /\ s[1] \in ToSet(srv.rooms[r].players)
         /\ srv' = Return(s, r)
      \/ /\ r \notin DOMAIN srv.rooms
         /\ srv' = Bind(Put(Leave(srv, s), r, room), s, r, s[1], FALSE)
  BY DEF OpenRoom, Handle
<1> QED
  BY <1>2, <1>3, <1>4

(* join-room.                                                              *)
LEMMA JoinRoomHandled ==
  ASSUME Good(srv, sk), NEW s \in Sids, NEW r \in RoomIds, NEW spectate \in BOOLEAN,
         JoinRoom(s, r, spectate)
  PROVE  Handled(srv', sk)
<1> DEFINE room   == srv.rooms[r]
           p      == s[1]
           watch  == Watched(room, s)
           seated == Seat(room, p, s, NextSlot(room))
<1>1. MayEnter(s, r) /\ CanAsk(s) /\ r \in DOMAIN srv.rooms /\ RoomOK(room, sk)
  BY DEF JoinRoom, MayEnter, Good
<1>2. \/ p \in Members(room) /\ srv' = Return(s, r)
      \/ /\ p \notin Members(room) /\ Admits(room, spectate)
         /\ \/ srv' = Bind(Put(Leave(srv, s), r, watch), s, r, p, TRUE)
            \/ /\ FreeSlots(room) # {}
               /\ srv' = Bind(Put(Leave(srv, s), r, seated), s, r, p, FALSE)
  BY DEF JoinRoom, Handle, Watched
<1>3. CASE p \in Members(room) /\ srv' = Return(s, r)
  BY <1>1, <1>3, ReturnHandled
<1>4. ASSUME p \notin Members(room)
      PROVE  /\ s \notin DOMAIN srv.where /\ Leave(srv, s) = srv
             /\ Clears(srv, srv, s, r, p) /\ sk[s] # "closed"
             /\ p \notin ToSet(room.players)
  <2>1. s \notin DOMAIN srv.where
    BY <1>1, <1>4 DEF MayEnter, Good, EntryOK
  <2>2. sk[s] # "closed" /\ p \notin ToSet(room.players)
    BY <1>1, <1>4 DEF CanAsk, Members
  <2> QED
    BY <1>1, <1>4, <2>1, <2>2, NothingToClear, NothingToLeave
<1>5. CASE p \notin Members(room) /\ srv' = Bind(Put(Leave(srv, s), r, watch), s, r, p, TRUE)
  <2>1. srv' = Bind(Put(srv, r, watch), s, r, p, TRUE)
    BY <1>4, <1>5
  <2>2. /\ RoomOK(watch, sk) /\ OthersStay(room, watch, p) /\ KeepsSlots(room, watch)
        /\ p \in watch.spectators /\ watch.sock[p] = s
    BY <1>1, <1>4, <1>5, WatchOK
  <2> DEFINE spectator == p \in watch.spectators
  <2>4. spectator = TRUE /\ p \in Members(watch)
    BY <2>2 DEF Members
  <2>5. spectator = (p \in watch.spectators)
    OBVIOUS
  <2> HIDE DEF watch, spectator
  <2>6. srv' = Bind(Put(srv, r, watch), s, r, p, spectator)
    BY <2>1, <2>4
  <2>7. /\ s \notin DOMAIN srv.where /\ Clears(srv, srv, s, r, p)
        /\ p \notin ToSet(room.players) /\ p \in Members(watch)
    BY <1>4, <1>5, <2>4
  <2> QED
    BY <1>1, <2>2, <2>4, <2>5, <2>6, <2>7, EnterHandled
<1>6. CASE /\ p \notin Members(room) /\ Admits(room, spectate) /\ FreeSlots(room) # {}
           /\ srv' = Bind(Put(Leave(srv, s), r, seated), s, r, p, FALSE)
  <2>1. srv' = Bind(Put(srv, r, seated), s, r, p, FALSE)
    BY <1>4, <1>6
  <2>2. ToSet(room.players) # {}
    BY <1>6 DEF Admits, IsLive
  <2>3. room.playing => OwnerPlays(room)
    BY <1>1, <2>2, InSequence DEF RoomOK, RoomShape
  <2>4. /\ RoomOK(seated, sk) /\ OthersStay(room, seated, p) /\ KeepsSlots(room, seated)
        /\ p \in ToSet(seated.players) /\ p \notin seated.spectators
        /\ seated.sock[p] = s
    BY <1>1, <1>4, <1>6, <2>3, NextSlotIsFree, SeatOK
  <2> DEFINE spectator == p \in seated.spectators
  <2>6. spectator = FALSE /\ p \in Members(seated)
    BY <2>4 DEF Members
  <2>7. spectator = (p \in seated.spectators)
    OBVIOUS
  <2> HIDE DEF seated, spectator
  <2>8. srv' = Bind(Put(srv, r, seated), s, r, p, spectator)
    BY <2>1, <2>6
  <2>9. /\ s \notin DOMAIN srv.where /\ Clears(srv, srv, s, r, p)
        /\ p \notin ToSet(room.players)
    BY <1>4, <1>6
  <2> QED
    BY <1>1, <2>4, <2>6, <2>7, <2>8, <2>9, EnterHandled
<1> QED
  BY <1>2, <1>3, <1>5, <1>6


(* The entry of a socket that asks.                                         *)
LEMMA Asking ==
  ASSUME Good(srv, sk), NEW s \in Sids, CanAsk(s), InARoom(s)
  PROVE  LET r == srv.where[s].room IN
         /\ r \in RoomIds /\ r \in DOMAIN srv.rooms /\ RoomOK(srv.rooms[r], sk)
         /\ srv.where[s].pid = s[1] /\ s[1] \in Members(srv.rooms[r])
         /\ srv.rooms[r].sock[s[1]] = s
         /\ srv.where[s].spectator <=> s[1] \in srv.rooms[r].spectators
         /\ Clears(srv, srv, s, r, s[1])
<1> DEFINE r == srv.where[s].room
<1>1. s \in DOMAIN srv.where /\ r \in DOMAIN srv.rooms /\ sk[s] # "closed"
  BY DEF InARoom, CanAsk
<1>2. EntryOK(srv, s) /\ r \in RoomIds /\ RoomOK(srv.rooms[r], sk)
  BY <1>1 DEF Good, IsServer
<1>3. /\ srv.where[s].pid = s[1] /\ s[1] \in Members(srv.rooms[r])
      /\ srv.rooms[r].sock[s[1]] = s
  BY <1>2 DEF EntryOK
<1>4. srv.where[s].spectator <=> s[1] \in srv.rooms[r].spectators
  BY <1>2, Zenon DEF EntryOK
<1>5. Clears(srv, srv, s, r, s[1])
  BY <1>1, <1>3, NothingToClear
<1> QED
  BY <1>1, <1>2, <1>3, <1>4, <1>5

(* claim-slot.                                                             *)
LEMMA ClaimSlotHandled ==
  ASSUME Good(srv, sk), NEW s \in Sids, NEW slot \in Slots, ClaimSlot(s, slot)
  PROVE  Handled(srv', sk)
<1> DEFINE r      == srv.where[s].room
           room   == srv.rooms[r]
           p      == s[1]
           seated == Seat(room, p, s, slot)
           spectator == p \in seated.spectators
<1>1. CanAsk(s) /\ InARoom(s) /\ ~ room.playing /\ slot \in FreeSlots(room)
  BY DEF ClaimSlot, RoomOf
<1>2. /\ r \in RoomIds /\ r \in DOMAIN srv.rooms /\ RoomOK(room, sk)
      /\ srv.where[s].pid = p /\ p \in Members(room) /\ room.sock[p] = s
      /\ srv.where[s].spectator <=> p \in room.spectators
      /\ Clears(srv, srv, s, r, p)
  BY <1>1, Asking
<1>3. p \in room.spectators
  <2>1. srv.where[s].spectator
    BY DEF ClaimSlot
  <2> QED
    BY <1>2, <2>1, Zenon
<1>4. p \notin ToSet(room.players) /\ sk[s] # "closed"
  BY <1>1, <1>2, <1>3 DEF RoomOK, RoomShape, CanAsk
<1>5. /\ RoomOK(seated, sk) /\ OthersStay(room, seated, p) /\ KeepsSlots(room, seated)
      /\ p \in ToSet(seated.players) /\ p \notin seated.spectators
      /\ seated.sock[p] = s
  BY <1>1, <1>2, <1>4, SeatOK
<1>6. srv' = Bind(Put(srv, r, seated), s, r, p, FALSE)
  BY <1>2 DEF ClaimSlot, Handle, RoomOf
<1> HIDE DEF seated
<1>7. spectator = FALSE
  BY <1>5
<1>8. spectator = (p \in seated.spectators)
  OBVIOUS
<1> HIDE DEF spectator
<1>9. srv' = Bind(Put(srv, r, seated), s, r, p, spectator)
  BY <1>6, <1>7
<1>10. p \in Members(seated)
  BY <1>5 DEF Members
<1> QED
  BY <1>1, <1>2, <1>4, <1>5, <1>8, <1>9, <1>10, EnterHandled

(* The way back to the audience.                                            *)
LEMMA ReleaseSlotHandled ==
  ASSUME Good(srv, sk), NEW s \in Sids, ReleaseSlot(s)
  PROVE  Handled(srv', sk)
<1> DEFINE r    == srv.where[s].room
           room == srv.rooms[r]
           p    == s[1]
           out  == Released(room, p)
           spectator == p \in out.spectators
<1>1. /\ CanAsk(s) /\ InARoom(s) /\ ~ room.playing /\ room.owner # s
      /\ Contains(room.players, p)
  BY DEF ReleaseSlot, RoomOf
<1>2. /\ r \in RoomIds /\ r \in DOMAIN srv.rooms /\ RoomOK(room, sk)
      /\ srv.where[s].pid = p /\ p \in Members(room) /\ room.sock[p] = s
      /\ Clears(srv, srv, s, r, p)
  BY <1>1, Asking
<1>3. p \in ToSet(room.players)
  <2>1. room.players \in Seq(Pids)
    BY <1>2 DEF RoomOK, RoomShape
  <2> QED
    BY <1>1, <2>1, InSequence
<1>4. /\ RoomOK(out, sk) /\ OthersStay(room, out, p) /\ KeepsSlots(room, out)
      /\ p \in out.spectators /\ p \notin ToSet(out.players) /\ out.sock = room.sock
  BY <1>1, <1>2, <1>3, ReleaseOK
<1>5. srv' = Bind(Put(srv, r, out), s, r, p, TRUE)
  BY <1>2 DEF ReleaseSlot, Handle, RoomOf, Released
<1>6. spectator = TRUE /\ p \in Members(out)
  BY <1>4 DEF Members
<1>7. spectator = (p \in out.spectators)
  OBVIOUS
<1> HIDE DEF out, spectator
<1>8. srv' = Bind(Put(srv, r, out), s, r, p, spectator)
  BY <1>5, <1>6
<1>9. p \in Members(out)
  BY <1>6
<1> QED
  BY <1>1, <1>2, <1>4, <1>7, <1>8, <1>9, EnterHandled

(* start-game and end-game.                                                *)
LEMMA SetPlayingHandled ==
  ASSUME Good(srv, sk), NEW s \in Sids, NEW playing \in BOOLEAN, SetPlaying(s, playing)
  PROVE  Handled(srv', sk)
<1> DEFINE r    == srv.where[s].room
           room == srv.rooms[r]
           p    == s[1]
           next == [room EXCEPT !.playing = playing]
<1>1. /\ CanAsk(s) /\ InARoom(s) /\ room.owner = s /\ room.playing # playing
      /\ srv' = Put(srv, r, next)
  BY DEF SetPlaying, RoomOf, Handle
<1>2. /\ r \in RoomIds /\ r \in DOMAIN srv.rooms /\ RoomOK(room, sk)
      /\ p \in Members(room) /\ room.sock[p] = s /\ Clears(srv, srv, s, r, p)
  BY <1>1, Asking
<1>3. /\ RoomOK(next, sk) /\ OthersStay(room, next, p) /\ KeepsSlots(room, next)
      /\ next.players = room.players /\ next.spectators = room.spectators
      /\ next.sock = room.sock
  BY <1>1, <1>2, SetPlayingOK
<1>4. /\ DOMAIN srv' = {"rooms", "where", "grace", "saved"}
      /\ srv'.rooms = With(srv.rooms, r, next) /\ srv'.saved = With(srv.saved, r, next)
      /\ srv'.where = srv.where /\ srv'.grace = srv.grace
  <2>1. DOMAIN srv = {"rooms", "where", "grace", "saved"}
    BY DEF Good, IsServer
  <2> QED
    BY <1>1, <2>1 DEF Put
<1> HIDE DEF next
<1>5. /\ s \in DOMAIN srv.where /\ sk[s] # "closed" /\ sk[s] # "unused"
      /\ Members(next) = Members(room) /\ p \in Pids /\ DOMAIN srv.where \subseteq Sids
  BY <1>1, <1>3, SocketParts DEF InARoom, CanAsk, Members, Good, IsServer
<1>6. srv'.rooms[r] = next /\ r \in DOMAIN srv'.rooms
  BY <1>4 DEF With
<1>7. EntryOK(srv', s)
  <2>1. EntryOK(srv, s)
    BY <1>5 DEF Good
  <2> QED
    BY <1>2, <1>3, <1>4, <1>5, <1>6, <2>1 DEF EntryOK
<1>8. Bound(srv', r, p)
  BY <1>2, <1>3, <1>4, <1>5, <1>6 DEF Bound
<1>9. \A q \in DOMAIN srv.rooms \ {r} :
        p \in Members(srv.rooms[q]) => srv.rooms[q].sock[p] # next.sock[p]
  BY <1>2, <1>3 DEF Good, SocketsApart
<1>10. Touches(srv, srv', sk, sk, r, p, next)
  <2>1. next.sock[p] = s
    BY <1>2, <1>3
  <2>2. \A u \in DOMAIN srv.where : Elsewhere(srv, u, r, p) \/ EntryOK(srv', u)
    BY <1>2, <1>7 DEF Clears
  <2>3. \A q \in DOMAIN srv.grace : q # p \/ srv.grace[q].room # r
    BY <1>2 DEF Clears
  <2> QED
    BY <1>2, <1>3, <1>4, <1>5, <1>8, <1>9, <2>1, <2>2, <2>3
       DEF Touches, Closes, StaysUsed
<1>11. Good(srv', sk) /\ OnlyTouched(srv, srv', r, p, next)
  BY <1>2, <1>5, <1>10, TouchGood, TouchedRooms
<1>12. SlotsKept(srv, srv')
  BY <1>3, <1>11, TouchKeeps
<1>13. OwnRequest(srv')
  BY <1>3, <1>11 DEF OwnRequest, OnlyTouched
<1>14. ASSUME OneRoomEach(srv), GhostsWatched(srv, sk) PROVE GhostsWatched(srv', sk)
  <2>1. \A q \in DOMAIN srv.rooms \ {r} : p \notin Members(srv.rooms[q])
    BY <1>2, <1>14 DEF OneRoomEach
  <2>2. OthersWatched(srv, sk, p)
    BY <1>14 DEF GhostsWatched, OthersWatched
  <2>3. next.sock[p] = s
    BY <1>2, <1>3
  <2> QED
    BY <1>4, <1>5, <1>8, <1>10, <2>1, <2>2, <2>3, TouchGhosts
<1> QED
  BY <1>11, <1>12, <1>13, <1>14 DEF Handled


LEMMA CloseGood ==
  ASSUME NEW st, NEW k, NEW l, Good(st, k), Closes(k, l), StaysUsed(k, l)
  PROVE  Good(st, l)
<1>1. \A r \in DOMAIN st.rooms : RoomOK(st.rooms[r], l)
  BY RoomCloses DEF Good
<1>2. ASSUME NEW r \in DOMAIN st.rooms, NEW p \in Members(st.rooms[r])
      PROVE  /\ l[st.rooms[r].sock[p]] # "unused"
             /\ l[st.rooms[r].sock[p]] # "closed" => Bound(st, r, p)
  <2>1. st.rooms[r].sock[p] \in Sids /\ k[st.rooms[r].sock[p]] # "unused"
    BY DEF Good, RoomOK, RoomShape, SocketsUsed
  <2>2. k[st.rooms[r].sock[p]] # "closed" => Bound(st, r, p)
    BY DEF Good, LiveIsBound
  <2> QED
    BY <2>1, <2>2 DEF Closes, StaysUsed
<1>3. ASSUME NEW q \in DOMAIN st.grace PROVE TimerOK(st, l, q)
  <2>1. TimerOK(st, k, q) /\ st.grace[q].sid \in Sids
    BY DEF Good, TimerOK, IsServer
  <2>2. l[st.grace[q].sid] = "closed"
    BY <2>1 DEF TimerOK, Closes
  <2> QED
    BY <2>1, <2>2 DEF TimerOK
<1>4. LiveIsBound(st, l) /\ SocketsUsed(st, l)
  BY <1>2 DEF LiveIsBound, SocketsUsed
<1> QED
  BY <1>1, <1>3, <1>4 DEF Good

(* leave-room, and a disconnect that nobody waits for.                      *)
LEMMA LeaveHandled ==
  ASSUME Good(srv, sk), NEW s \in Sids, NEW l, Closes(sk, l), StaysUsed(sk, l),
         l[s] = "closed", \A u \in Sids \ {s} : l[u] = sk[u]
  PROVE  Handled(Leave(srv, s), l)
<1>1. CASE s \in DOMAIN srv.where
  <2> DEFINE new == Leave(srv, s)
  <2>1. \A u \in Sids : u[1] # s[1] => l[u] = sk[u]
    OBVIOUS
  <2>2. /\ Good(new, l) /\ s \notin DOMAIN new.where /\ SlotsKept(srv, new)
        /\ OthersSeated(srv, new, s)
        /\ OneRoomEach(srv) /\ OthersWatched(srv, sk, s[1]) => GhostsWatched(new, l)
    BY <1>1, <2>1, LeaveGood
  <2>3. OwnRequest(new)
    BY <2>2 DEF OwnRequest, OthersSeated
  <2>4. GhostsWatched(srv, sk) => OthersWatched(srv, sk, s[1])
    BY DEF GhostsWatched, OthersWatched
  <2> QED
    BY <2>2, <2>3, <2>4 DEF Handled
<1>2. CASE s \notin DOMAIN srv.where
  <2>1. Leave(srv, s) = srv
    BY <1>2, NothingToLeave
  <2>2. Good(srv, l)
    BY CloseGood
  <2>3. SlotsKept(srv, srv) /\ OwnRequest(srv)
    BY DEF SlotsKept, KeepsSlots, OwnRequest
  <2>4. ASSUME GhostsWatched(srv, sk) PROVE GhostsWatched(srv, l)
    <3> SUFFICES ASSUME NEW r \in DOMAIN srv.rooms, NEW p \in Members(srv.rooms[r])
                 PROVE  IsWatched(srv, l, r, p)
      BY DEF GhostsWatched
    <3>1. IsWatched(srv, sk, r, p)
      BY <2>4 DEF GhostsWatched
    <3>2. srv.rooms[r].sock[p] \in Sids \ {s}
      BY <1>2, <3>1 DEF IsWatched, Bound, Good, RoomOK, RoomShape
    <3> QED
      BY <3>1, <3>2 DEF IsWatched
  <2> QED
    BY <2>1, <2>2, <2>3, <2>4 DEF Handled
<1> QED
  BY <1>1, <1>2

(* A socket that asked or dropped is closed by the handler.                 *)
LEMMA ClosedNow ==
  ASSUME sk \in [Sids -> {"unused", "open", "dropped", "closed"}],
         NEW s \in Sids, CanAsk(s)
  PROVE  LET l == [sk EXCEPT ![s] = "closed"] IN
         /\ Closes(sk, l) /\ StaysUsed(sk, l) /\ l[s] = "closed"
         /\ \A u \in Sids \ {s} : l[u] = sk[u]
BY DEF Closes, StaysUsed

LEMMA LeaveRoomHandled ==
  ASSUME Good(srv, sk), TasksOK, NEW s \in Sids, LeaveRoom(s)
  PROVE  Handled(srv', sk')
<1>1. CanAsk(s) /\ sk' = [sk EXCEPT ![s] = "closed"] /\ srv' = Leave(srv, s)
  BY DEF LeaveRoom, Handle
<1>2. /\ Closes(sk, sk') /\ StaysUsed(sk, sk') /\ sk'[s] = "closed"
      /\ \A u \in Sids \ {s} : sk'[u] = sk[u]
  BY <1>1, ClosedNow DEF TasksOK
<1>3. Handled(Leave(srv, s), sk')
  BY <1>2, LeaveHandled
<1> QED
  BY <1>1, <1>3

(* disconnect.                                                             *)
LEMMA HandleDisconnectHandled ==
  ASSUME Good(srv, sk), TasksOK, NEW s \in Sids, HandleDisconnect(s)
  PROVE  Handled(srv', sk')
<1> DEFINE r == srv.where[s].room
           p == s[1]
           timer == [sid |-> s, room |-> r]
<1>1. CanAsk(s) /\ sk' = [sk EXCEPT ![s] = "closed"]
  BY DEF HandleDisconnect, CanAsk
<1>2. /\ Closes(sk, sk') /\ StaysUsed(sk, sk') /\ sk'[s] = "closed"
      /\ \A u \in Sids \ {s} : sk'[u] = sk[u]
  BY <1>1, ClosedNow DEF TasksOK
<1>3. CASE srv' = Leave(srv, s)
  <2>1. Handled(Leave(srv, s), sk')
    BY <1>2, LeaveHandled
  <2> QED
    BY <1>3, <2>1
<1>4. CASE /\ InARoom(s) /\ ~ srv.where[s].spectator
           /\ srv' = [srv EXCEPT !.grace = With(@, srv.where[s].pid, timer)]
  <2>1. /\ r \in RoomIds /\ r \in DOMAIN srv.rooms /\ s \in DOMAIN srv.where
        /\ srv.where[s].pid = p /\ p \in Members(srv.rooms[r])
        /\ srv.rooms[r].sock[p] = s
    BY <1>1, <1>4, Asking DEF InARoom
  <2>2. srv.where[s].spectator = FALSE
    <3>1. EntryOK(srv, s)
      BY <2>1 DEF Good
    <3>2. srv.where[s].spectator = (p \in srv.rooms[r].spectators)
      BY <3>1 DEF EntryOK
    <3>3. srv.where[s].spectator \in BOOLEAN
      BY <3>2
    <3> QED
      BY <1>4, <3>3, Zenon
  <2>3. /\ DOMAIN srv' = {"rooms", "where", "grace", "saved"}
        /\ srv'.rooms = srv.rooms /\ srv'.saved = srv.saved /\ srv'.where = srv.where
        /\ srv'.grace = With(srv.grace, p, timer)
    <3>1. DOMAIN srv = {"rooms", "where", "grace", "saved"}
      BY DEF Good, IsServer
    <3> QED
      BY <1>4, <2>1, <3>1
  <2>4. timer.sid = s /\ timer.room = r /\ p \in Pids
    BY SocketParts
  <2> HIDE DEF timer
  <2>5. /\ DOMAIN srv'.grace = DOMAIN srv.grace \cup {p} /\ srv'.grace[p] = timer
        /\ \A q \in DOMAIN srv.grace \ {p} : srv'.grace[q] = srv.grace[q]
    BY <2>3 DEF With
  <2>6. Good(srv, sk')
    BY <1>2, CloseGood
  <2>7. Good(srv', sk')
    <3>1. IsServer(srv')
      BY <2>3, <2>4, <2>5 DEF Good, IsServer
    <3>2. \A u \in DOMAIN srv'.where : EntryOK(srv', u)
      BY <2>3, <2>6 DEF Good, EntryOK
    <3>3. LiveIsBound(srv', sk')
      BY <2>3, <2>6 DEF Good, LiveIsBound, Bound
    <3>4. SocketsUsed(srv', sk') /\ SocketsApart(srv')
      BY <2>3, <2>6 DEF Good, SocketsUsed, SocketsApart
    <3>5. ASSUME NEW q \in DOMAIN srv'.grace PROVE TimerOK(srv', sk', q)
      <4>1. CASE q = p
        BY <1>2, <2>1, <2>2, <2>3, <2>4, <2>5, <4>1 DEF TimerOK
      <4>2. CASE q # p
        <5>1. q \in DOMAIN srv.grace /\ TimerOK(srv, sk', q)
          BY <2>5, <2>6, <4>2 DEF Good
        <5> QED
          BY <2>3, <2>5, <4>2, <5>1 DEF TimerOK
      <4> QED
        BY <4>1, <4>2
    <3> QED
      BY <2>3, <2>6, <3>1, <3>2, <3>3, <3>4, <3>5 DEF Good
  <2>8. SlotsKept(srv, srv') /\ OwnRequest(srv')
    BY <2>3 DEF SlotsKept, KeepsSlots, OwnRequest
  <2>9. ASSUME OneRoomEach(srv), GhostsWatched(srv, sk) PROVE GhostsWatched(srv', sk')
    <3> SUFFICES ASSUME NEW q \in DOMAIN srv'.rooms, NEW m \in Members(srv'.rooms[q])
                 PROVE  IsWatched(srv', sk', q, m)
      BY DEF GhostsWatched
    <3>1. q \in DOMAIN srv.rooms /\ m \in Members(srv.rooms[q]) /\ IsWatched(srv, sk, q, m)
      BY <2>3, <2>9 DEF GhostsWatched
    <3>2. CASE m = p
      <4>1. q = r
        BY <2>1, <2>9, <3>1, <3>2 DEF OneRoomEach
      <4> QED
        BY <2>3, <2>4, <2>5, <3>1, <3>2, <4>1 DEF IsWatched, Bound
    <3>3. CASE m # p
      <4>1. srv.rooms[q].sock[m] \in Sids \ {s}
        BY <3>1, <3>3 DEF Good, RoomOK, RoomShape
      <4> QED
        BY <1>2, <2>3, <2>5, <3>1, <3>3, <4>1 DEF IsWatched, Bound
    <3> QED
      BY <3>2, <3>3
  <2> QED
    BY <2>7, <2>8, <2>9 DEF Handled
<1>5. \/ srv' = Leave(srv, s)
      \/ /\ InARoom(s) /\ ~ srv.where[s].spectator
         /\ srv' = [srv EXCEPT !.grace = With(@, srv.where[s].pid, timer)]
  BY DEF HandleDisconnect, Handle
<1> QED
  BY <1>3, <1>4, <1>5


(* The timer puts back the entry it remembers, which still stands.          *)
LEMMA GraceExpiresHandled ==
  ASSUME Good(srv, sk), NEW p \in Pids, GraceExpires(p)
  PROVE  Handled(srv', sk)
<1> DEFINE s     == srv.grace[p].sid
           r     == srv.grace[p].room
           entry == [room |-> r, pid |-> p, spectator |-> FALSE]
           st    == Bind(CancelGrace(srv, p), s, r, p, FALSE)
           new   == Leave(st, s)
<1>1. p \in DOMAIN srv.grace /\ srv' = new
  BY DEF GraceExpires, Handle
<1>2. /\ s \in DOMAIN srv.where /\ s \in Sids /\ s[1] = p /\ sk[s] = "closed"
      /\ srv.where[s].room = r /\ srv.where[s].spectator = FALSE
  BY <1>1 DEF Good, TimerOK, IsServer
<1>3. /\ EntryOK(srv, s) /\ r \in DOMAIN srv.rooms /\ p \in Members(srv.rooms[r])
      /\ srv.rooms[r].sock[p] = s
  BY <1>2 DEF Good, EntryOK
<1>4. FALSE = (p \in srv.rooms[r].spectators)
  <2>1. srv.where[s].spectator = (p \in srv.rooms[r].spectators)
    BY <1>2, <1>3 DEF EntryOK
  <2> QED
    BY <1>2, <2>1
<1>5. /\ DOMAIN st = {"rooms", "where", "grace", "saved"}
      /\ st.rooms = srv.rooms /\ st.saved = srv.saved
      /\ st.where = With(srv.where, s, entry) /\ st.grace = Without(srv.grace, p)
  <2>1. DOMAIN srv = {"rooms", "where", "grace", "saved"}
    BY DEF Good, IsServer
  <2> QED
    BY <2>1 DEF CancelGrace, Bind
<1>6. entry.room = r /\ entry.pid = p /\ entry.spectator = FALSE
  OBVIOUS
<1> HIDE DEF entry, st
<1>7. /\ DOMAIN st.where = DOMAIN srv.where /\ st.where[s] = entry
      /\ \A u \in DOMAIN srv.where \ {s} : st.where[u] = srv.where[u]
      /\ DOMAIN st.grace = DOMAIN srv.grace \ {p}
      /\ \A q \in DOMAIN st.grace : st.grace[q] = srv.grace[q]
  BY <1>2, <1>5 DEF With, Without, RestrictDomain, Restrict
<1>8. EntryOK(st, s)
  BY <1>2, <1>3, <1>4, <1>5, <1>6, <1>7 DEF EntryOK
<1>9. \A u \in DOMAIN srv.where : st.where[u].room = srv.where[u].room
  BY <1>2, <1>6, <1>7
<1>10. Good(st, sk)
  <2>1. IsServer(st)
    BY <1>5, <1>7 DEF Good, IsServer
  <2>2. ASSUME NEW u \in DOMAIN st.where PROVE EntryOK(st, u)
    <3>1. CASE u = s
      BY <1>8, <3>1
    <3>2. CASE u # s
      <4>1. EntryOK(srv, u) /\ st.where[u] = srv.where[u]
        BY <1>7, <3>2 DEF Good
      <4> QED
        BY <1>5, <4>1 DEF EntryOK
    <3> QED
      BY <3>1, <3>2
  <2>3. LiveIsBound(st, sk) /\ SocketsUsed(st, sk) /\ SocketsApart(st)
    BY <1>5, <1>7, <1>9, SMTT(30) DEF Good, LiveIsBound, Bound, SocketsUsed, SocketsApart
  <2>4. ASSUME NEW q \in DOMAIN st.grace PROVE TimerOK(st, sk, q)
    <3>1. q # p /\ st.grace[q] = srv.grace[q] /\ TimerOK(srv, sk, q)
      BY <1>7 DEF Good
    <3>2. srv.grace[q].sid \in DOMAIN srv.where \ {s}
      BY <1>2, <3>1 DEF TimerOK
    <3> QED
      BY <1>7, <3>1, <3>2 DEF TimerOK
  <2> QED
    BY <1>5, <2>1, <2>2, <2>3, <2>4 DEF Good
<1>11. /\ Good(new, sk) /\ SlotsKept(st, new) /\ OthersSeated(st, new, s)
       /\ OneRoomEach(st) /\ OthersWatched(st, sk, p) => GhostsWatched(new, sk)
  <2>1. Closes(sk, sk) /\ StaysUsed(sk, sk) /\ \A u \in Sids : u[1] # s[1] => sk[u] = sk[u]
    BY DEF Closes, StaysUsed
  <2>2. s \in DOMAIN st.where
    BY <1>2, <1>7
  <2> QED
    BY <1>2, <1>10, <2>1, <2>2, LeaveGood
<1> HIDE DEF new
<1>12. SlotsKept(srv, new)
  BY <1>5, <1>11 DEF SlotsKept
<1>13. OwnRequest(new)
  BY <1>2, <1>5, <1>11 DEF OwnRequest, OthersSeated
<1>14. ASSUME OneRoomEach(srv), GhostsWatched(srv, sk) PROVE GhostsWatched(new, sk)
  <2>1. OneRoomEach(st)
    BY <1>5, <1>14 DEF OneRoomEach
  <2>2. ASSUME NEW q \in DOMAIN st.rooms, NEW m \in Members(st.rooms[q]) \ {p}
        PROVE  IsWatched(st, sk, q, m)
    <3>1. IsWatched(srv, sk, q, m)
      BY <1>5, <1>14 DEF GhostsWatched
    <3> QED
      BY <1>5, <1>7, <1>9, <3>1 DEF IsWatched, Bound
  <2> QED
    BY <1>11, <2>1, <2>2 DEF OthersWatched
<1> QED
  BY <1>1, <1>11, <1>12, <1>13, <1>14 DEF Handled

(* A page connects under a socket nobody has used.                          *)
LEMMA ConnectGood ==
  ASSUME Good(srv, sk), TasksOK, UsedInOrder, NEW p \in Pids, Connect(p)
  PROVE  /\ Good(srv, sk') /\ UsedInOrder'
         /\ GhostsWatched(srv, sk) => GhostsWatched(srv, sk')
<1> DEFINE n == Cardinality(Used(p))
           s == <<p, n + 1>>
<1>1. /\ n + 1 <= MaxSockets /\ sk' = [sk EXCEPT ![s] = "open"]
      /\ sk \in [Sids -> {"unused", "open", "dropped", "closed"}]
  BY DEF Connect, TasksOK
<1>2. n \in 0..MaxSockets /\ Used(p) = 1..n
  <2>1. PICK m \in 0..MaxSockets : Used(p) = 1..m
    BY DEF UsedInOrder
  <2>2. m \in Nat /\ Cardinality(1..m) = IF 1 > m THEN 0 ELSE m - 1 + 1
    BY <2>1, RoomsAssumption, FS_Interval
  <2>3. n = m
    BY <2>1, <2>2
  <2> QED
    BY <2>1, <2>3
<1> HIDE DEF n
<1>3. n + 1 \in 1..MaxSockets /\ s \in Sids
  BY <1>1, <1>2, RoomsAssumption DEF Sids
<1>4. sk[s] = "unused"
  <2>1. n + 1 \notin Used(p)
    BY <1>2
  <2> QED
    BY <1>3, <2>1 DEF Used
<1>5. /\ sk'[s] = "open" /\ sk' \in [Sids -> {"unused", "open", "dropped", "closed"}]
      /\ \A u \in Sids \ {s} : sk'[u] = sk[u]
  BY <1>1, <1>3
<1>6. Closes(sk, sk') /\ StaysUsed(sk, sk')
  BY <1>4, <1>5 DEF Closes, StaysUsed
<1>7. Good(srv, sk')
  BY <1>6, CloseGood
<1>8. UsedInOrder'
  <2> SUFFICES ASSUME NEW q \in Pids PROVE \E m \in 0..MaxSockets : Used(q)' = 1..m
    BY DEF UsedInOrder
  <2>1. PICK m \in 0..MaxSockets : Used(q) = 1..m
    BY DEF UsedInOrder
  <2>2. CASE q # p
    <3>1. \A j \in 1..MaxSockets : <<q, j>> \in Sids \ {s}
      BY <2>2 DEF Sids
    <3>2. Used(q)' = Used(q)
      BY <1>5, <3>1 DEF Used
    <3> QED
      BY <2>1, <3>2
  <2>3. CASE q = p
    <3>1. \A j \in 1..MaxSockets : j # n + 1 => <<p, j>> \in Sids \ {s}
      BY DEF Sids
    <3>2. ASSUME NEW j \in 1..MaxSockets PROVE sk'[<<p, j>>] # "unused" <=> j \in 1..(n + 1)
      <4>1. CASE j = n + 1
        BY <1>2, <1>5, <4>1
      <4>2. CASE j # n + 1
        <5>1. sk'[<<p, j>>] = sk[<<p, j>>]
          BY <1>5, <3>1, <4>2
        <5>2. sk[<<p, j>>] # "unused" <=> j \in 1..n
          BY <1>2 DEF Used
        <5> QED
          BY <1>2, <4>2, <5>1, <5>2
      <4> QED
        BY <4>1, <4>2
    <3>3. Used(q)' = {j \in 1..MaxSockets : j \in 1..(n + 1)}
      BY <2>3, <3>2 DEF Used
    <3>4. Used(q)' = 1..(n + 1) /\ n + 1 \in 0..MaxSockets
      BY <1>2, <1>3, <3>3, RoomsAssumption
    <3> QED
      BY <3>4
  <2> QED
    BY <2>2, <2>3
<1>9. ASSUME GhostsWatched(srv, sk) PROVE GhostsWatched(srv, sk')
  <2> SUFFICES ASSUME NEW r \in DOMAIN srv.rooms, NEW m \in Members(srv.rooms[r])
               PROVE  IsWatched(srv, sk', r, m)
    BY DEF GhostsWatched
  <2>1. IsWatched(srv, sk, r, m) /\ srv.rooms[r].sock[m] \in Sids
    BY <1>9 DEF GhostsWatched, Good, RoomOK, RoomShape
  <2> QED
    BY <1>5, <2>1 DEF IsWatched
<1> QED
  BY <1>7, <1>8, <1>9


(***************************************************************************)
(* Every step.                                                             *)
(***************************************************************************)

LEMMA SameSocketsUsed ==
  ASSUME UsedInOrder, \A s \in Sids : sk'[s] = "unused" <=> sk[s] = "unused"
  PROVE  UsedInOrder'
<1> SUFFICES ASSUME NEW p \in Pids PROVE \E n \in 0..MaxSockets : Used(p)' = 1..n
  BY DEF UsedInOrder
<1>1. PICK n \in 0..MaxSockets : Used(p) = 1..n
  BY DEF UsedInOrder
<1>2. \A j \in 1..MaxSockets : <<p, j>> \in Sids
  BY DEF Sids
<1>3. Used(p)' = Used(p)
  BY <1>2 DEF Used
<1> QED
  BY <1>1, <1>3

LEMMA ScannedTasks ==
  ASSUME TasksOK, Good(srv, sk), NEW E \in SUBSET RoomIds, Scanned(srv, E)
  PROVE  /\ sweep' \in [phase : {"asleep", "waiting", "dead"}, doomed : SUBSET RoomIds]
         /\ age' \in [RoomIds -> 0..ZombieLimit]
<1>1. Zombies(srv) \subseteq RoomIds
  BY DEF Zombies, Good, IsServer
<1>2. sweep' \in [phase : {"asleep", "waiting", "dead"}, doomed : SUBSET RoomIds]
  <2>1. E \cup {r \in Zombies(srv) : age'[r] >= ZombieLimit} \in SUBSET RoomIds
    BY <1>1
  <2> QED
    BY <2>1 DEF Scanned
<1>3. ASSUME NEW r \in RoomIds
      PROVE  /\ age[r] \in 0..ZombieLimit
             /\ age[r] < ZombieLimit => age[r] + 1 \in 0..ZombieLimit
             /\ 0 \in 0..ZombieLimit
  <2>1. age[r] \in 0..ZombieLimit
    BY DEF TasksOK
  <2>2. PICK n \in Nat : n = age[r] /\ n <= ZombieLimit
    BY <2>1, RoomsAssumption
  <2> QED
    BY <2>2, RoomsAssumption
<1>4. age' \in [RoomIds -> 0..ZombieLimit]
  BY <1>3 DEF Scanned
<1> QED
  BY <1>2, <1>4

LEMMA HandleTasks ==
  ASSUME TasksOK, Good(srv, sk), NEW next, Handle(next), UNCHANGED restarts,
         sk' \in [Sids -> {"unused", "open", "dropped", "closed"}]
  PROVE  TasksOK' /\ srv' = next
<1>1. DOMAIN srv.rooms \ DOMAIN next.rooms \in SUBSET RoomIds
  BY DEF Good, IsServer
<1>2. /\ sweep' \in [phase : {"asleep", "waiting", "dead"}, doomed : SUBSET RoomIds]
      /\ age' \in [RoomIds -> 0..ZombieLimit]
  <2>1. CASE UNCHANGED <<sweep, age>>
    BY <2>1 DEF TasksOK
  <2>2. CASE Scanned(srv, DOMAIN srv.rooms \ DOMAIN next.rooms)
    BY <1>1, <2>2, ScannedTasks
  <2> QED
    BY <2>1, <2>2 DEF Handle
<1> QED
  BY <1>2 DEF TasksOK, Handle

(* What every step leaves true, and all but a restart.                      *)
Stepped ==
  /\ RoomsInv' /\ SlotsKept(srv, srv')
  /\ \/ restarts' = restarts + 1
     \/ /\ restarts' = restarts /\ OwnRequest(srv')
        /\ OneRoomEach(srv) /\ OneRoomEach(srv') /\ GhostsWatched(srv, sk)
             => GhostsWatched(srv', sk')

LEMMA HandledStep ==
  ASSUME RoomsInv, Handled(srv', sk'), TasksOK', restarts' = restarts,
         \A s \in Sids : sk'[s] = "unused" <=> sk[s] = "unused"
  PROVE  Stepped
<1>1. UsedInOrder'
  BY SameSocketsUsed DEF RoomsInv
<1>2. Good(srv, sk)' /\ TasksOK'
  BY DEF Handled
<1> QED
  BY <1>1, <1>2 DEF Handled, Stepped, RoomsInv

LEMMA RequestStep ==
  ASSUME RoomsInv, NEW s \in Sids, Request(s)
  PROVE  Stepped
<1>1. Good(srv, sk) /\ TasksOK
  BY DEF RoomsInv
<1>2. ASSUME sk' = sk, restarts' = restarts, Handled(srv', sk), NEW next, Handle(next)
      PROVE  Stepped
  <2>1. TasksOK'
    BY <1>1, <1>2, HandleTasks DEF TasksOK
  <2> QED
    BY <1>2, <2>1, HandledStep
<1>3. ASSUME NEW r \in RoomIds, OpenRoom(s, r) PROVE Stepped
  <2>1. sk' = sk /\ restarts' = restarts /\ \E next : Handle(next)
    BY <1>3 DEF OpenRoom
  <2> QED
    BY <1>1, <1>2, <1>3, <2>1, OpenRoomHandled
<1>4. ASSUME NEW r \in RoomIds, NEW spectate \in BOOLEAN, JoinRoom(s, r, spectate)
      PROVE  Stepped
  <2>1. sk' = sk /\ restarts' = restarts /\ \E next : Handle(next)
    BY <1>4 DEF JoinRoom
  <2> QED
    BY <1>1, <1>2, <1>4, <2>1, JoinRoomHandled
<1>5. ASSUME LeaveRoom(s) PROVE Stepped
  <2>1. /\ sk' = [sk EXCEPT ![s] = "closed"] /\ restarts' = restarts
        /\ sk[s] # "unused" /\ Handle(Leave(srv, s))
    BY <1>5 DEF LeaveRoom, CanAsk
  <2>2. /\ sk' \in [Sids -> {"unused", "open", "dropped", "closed"}]
        /\ \A u \in Sids : sk'[u] = "unused" <=> sk[u] = "unused"
    BY <1>1, <2>1 DEF TasksOK
  <2>3. TasksOK'
    BY <1>1, <2>1, <2>2, HandleTasks
  <2> QED
    BY <1>1, <1>5, <2>1, <2>2, <2>3, LeaveRoomHandled, HandledStep
<1>6. ASSUME NEW slot \in Slots, ClaimSlot(s, slot) PROVE Stepped
  <2>1. sk' = sk /\ restarts' = restarts /\ \E next : Handle(next)
    BY <1>6 DEF ClaimSlot
  <2> QED
    BY <1>1, <1>2, <1>6, <2>1, ClaimSlotHandled
<1>7. ASSUME ReleaseSlot(s) PROVE Stepped
  <2>1. sk' = sk /\ restarts' = restarts /\ \E next : Handle(next)
    BY <1>7 DEF ReleaseSlot
  <2> QED
    BY <1>1, <1>2, <1>7, <2>1, ReleaseSlotHandled
<1>8. ASSUME NEW playing \in BOOLEAN, SetPlaying(s, playing) PROVE Stepped
  <2>1. sk' = sk /\ restarts' = restarts /\ \E next : Handle(next)
    BY <1>8 DEF SetPlaying
  <2> QED
    BY <1>1, <1>2, <1>8, <2>1, SetPlayingHandled
<1>9. TRUE \in BOOLEAN /\ FALSE \in BOOLEAN
  OBVIOUS
<1> QED
  BY <1>3, <1>4, <1>5, <1>6, <1>7, <1>8, <1>9, Zenon DEF Request, StartGame, EndGame


LEMMA SocketStep ==
  ASSUME RoomsInv, NEW s \in Sids, SocketDrops(s) \/ HandleDisconnect(s)
  PROVE  Stepped
<1>1. Good(srv, sk) /\ TasksOK
  BY DEF RoomsInv
<1>2. CASE SocketDrops(s)
  <2>1. /\ sk[s] = "open" /\ sk' = [sk EXCEPT ![s] = "dropped"]
        /\ UNCHANGED <<srv, sweep, age, restarts>>
    BY <1>2 DEF SocketDrops
  <2>2. /\ sk' \in [Sids -> {"unused", "open", "dropped", "closed"}]
        /\ \A u \in Sids : sk'[u] = "unused" <=> sk[u] = "unused"
        /\ \A u \in Sids : sk'[u] = "closed" <=> sk[u] = "closed"
    BY <1>1, <2>1 DEF TasksOK
  <2>3. TasksOK'
    BY <1>1, <2>1, <2>2 DEF TasksOK
  <2>4. Good(srv, sk')
    BY <1>1, <2>2, CloseGood DEF Closes, StaysUsed
  <2>5. SlotsKept(srv, srv') /\ OwnRequest(srv')
    BY <2>1 DEF SlotsKept, KeepsSlots, OwnRequest
  <2>6. ASSUME GhostsWatched(srv, sk) PROVE GhostsWatched(srv, sk')
    <3> SUFFICES ASSUME NEW r \in DOMAIN srv.rooms, NEW m \in Members(srv.rooms[r])
                 PROVE  IsWatched(srv, sk', r, m)
      BY DEF GhostsWatched
    <3>1. IsWatched(srv, sk, r, m) /\ srv.rooms[r].sock[m] \in Sids
      BY <1>1, <2>6 DEF GhostsWatched, Good, RoomOK, RoomShape
    <3> QED
      BY <2>2, <3>1 DEF IsWatched
  <2>7. Handled(srv', sk')
    BY <2>1, <2>4, <2>5, <2>6 DEF Handled
  <2> QED
    BY <2>1, <2>2, <2>3, <2>7, HandledStep
<1>3. CASE HandleDisconnect(s)
  <2>1. /\ sk' = [sk EXCEPT ![s] = "closed"] /\ restarts' = restarts
        /\ sk[s] # "unused" /\ \E next : Handle(next)
    BY <1>3 DEF HandleDisconnect
  <2>2. /\ sk' \in [Sids -> {"unused", "open", "dropped", "closed"}]
        /\ \A u \in Sids : sk'[u] = "unused" <=> sk[u] = "unused"
    BY <1>1, <2>1 DEF TasksOK
  <2>3. TasksOK'
    BY <1>1, <2>1, <2>2, HandleTasks
  <2> QED
    BY <1>1, <1>3, <2>1, <2>2, <2>3, HandleDisconnectHandled, HandledStep
<1> QED
  BY <1>2, <1>3

LEMMA TabStep ==
  ASSUME RoomsInv, NEW p \in Pids, Connect(p) \/ GraceExpires(p)
  PROVE  Stepped
<1>1. Good(srv, sk) /\ TasksOK /\ UsedInOrder
  BY DEF RoomsInv
<1>2. CASE Connect(p)
  <2>1. /\ Good(srv, sk') /\ UsedInOrder'
        /\ GhostsWatched(srv, sk) => GhostsWatched(srv, sk')
    BY <1>1, <1>2, ConnectGood
  <2>2. UNCHANGED <<srv, sweep, age, restarts>>
    BY <1>2 DEF Connect
  <2>3. sk' \in [Sids -> {"unused", "open", "dropped", "closed"}]
    BY <1>1, <1>2 DEF Connect, TasksOK
  <2>4. TasksOK' /\ Good(srv, sk)'
    BY <1>1, <2>1, <2>2, <2>3 DEF TasksOK
  <2>5. SlotsKept(srv, srv') /\ OwnRequest(srv')
    BY <2>2 DEF SlotsKept, KeepsSlots, OwnRequest
  <2> QED
    BY <2>1, <2>2, <2>4, <2>5 DEF Stepped, RoomsInv
<1>3. CASE GraceExpires(p)
  <2>1. /\ sk' = sk /\ restarts' = restarts /\ \E next : Handle(next)
    BY <1>3 DEF GraceExpires
  <2>2. TasksOK'
    BY <1>1, <2>1, HandleTasks DEF TasksOK
  <2> QED
    BY <1>1, <1>3, <2>1, <2>2, GraceExpiresHandled, HandledStep
<1> QED
  BY <1>2, <1>3

(* A sweep that is not late deletes rooms whose members have no entry.      *)
LEMMA DeleteStep ==
  ASSUME RoomsInv, Delete, DOMAIN srv.rooms \ DOMAIN srv'.rooms \subseteq Zombies(srv)
  PROVE  Stepped
<1>1. Good(srv, sk) /\ TasksOK
  BY DEF RoomsInv
<1>2. PICK gone \in SUBSET (sweep.doomed \cap DOMAIN srv.rooms) :
        /\ srv' = Drop(srv, gone)
        /\ age' = [r \in RoomIds |-> IF r \in gone THEN 0 ELSE age[r]]
        /\ \/ sweep' = [phase |-> "asleep", doomed |-> {}]
           \/ sweep' = [phase |-> "dead", doomed |-> {}]
  BY DEF Delete
<1>3. sk' = sk /\ restarts' = restarts
  BY DEF Delete
<1>4. /\ DOMAIN srv' = {"rooms", "where", "grace", "saved"}
      /\ srv'.rooms = RestrictDomain(srv.rooms, LAMBDA r : r \notin gone)
      /\ srv'.saved = RestrictDomain(srv.saved, LAMBDA r : r \notin gone)
      /\ srv'.where = srv.where /\ srv'.grace = srv.grace
  <2>1. DOMAIN srv = {"rooms", "where", "grace", "saved"}
    BY <1>1 DEF Good, IsServer
  <2> QED
    BY <1>2, <2>1 DEF Drop
<1>5. gone \subseteq Zombies(srv) /\ gone \subseteq DOMAIN srv.rooms
  <2>1. DOMAIN srv'.rooms = DOMAIN srv.rooms \ gone
    BY <1>4 DEF RestrictDomain, Restrict
  <2> QED
    BY <1>2, <2>1
<1>6. \A r \in gone : \A p \in Members(srv.rooms[r]) :
        srv.rooms[r].sock[p] \notin DOMAIN srv.where
  BY <1>5 DEF Zombies
<1>7. ASSUME NEW s \in DOMAIN srv.where PROVE srv.where[s].room \notin gone
  <2>1. EntryOK(srv, s)
    BY <1>1 DEF Good
  <2> QED
    BY <1>6, <2>1 DEF EntryOK
<1>8. ASSUME NEW q \in DOMAIN srv.grace PROVE srv.grace[q].room \notin gone
  BY <1>1, <1>7 DEF Good, TimerOK
<1>9. Drops(srv, srv', sk, sk, gone)
  <2>1. DOMAIN srv'.where = {s \in DOMAIN srv.where : srv.where[s].room \notin gone}
    BY <1>4, <1>7
  <2> QED
    BY <1>4, <1>8, <2>1 DEF Drops, Closes, StaysUsed
<1>10. /\ Good(srv', sk) /\ DOMAIN srv'.rooms = DOMAIN srv.rooms \ gone
       /\ \A r \in DOMAIN srv'.rooms : srv'.rooms[r] = srv.rooms[r]
  BY <1>1, <1>9, DropGood
<1>11. SlotsKept(srv, srv')
  BY <1>10 DEF SlotsKept, KeepsSlots
<1>12. OwnRequest(srv')
  <2>1. ASSUME NEW r \in gone, NEW p \in ToSet(srv.rooms[r].players),
               sk[srv.rooms[r].sock[p]] = "open"
        PROVE  FALSE
    <3>1. r \in DOMAIN srv.rooms /\ p \in Members(srv.rooms[r])
      BY <1>5 DEF Members
    <3>2. Bound(srv, r, p)
      BY <1>1, <2>1, <3>1 DEF Good, LiveIsBound
    <3> QED
      BY <1>6, <3>1, <3>2 DEF Bound
  <2> QED
    BY <1>10, <2>1 DEF OwnRequest
<1>13. ASSUME GhostsWatched(srv, sk) PROVE GhostsWatched(srv', sk)
  BY <1>1, <1>4, <1>9, <1>13, DropGhosts DEF GhostsWatched
<1>14. TasksOK'
  <2>1. sweep' \in [phase : {"asleep", "waiting", "dead"}, doomed : SUBSET RoomIds]
    BY <1>2
  <2>2. age' \in [RoomIds -> 0..ZombieLimit]
    BY <1>1, <1>2, RoomsAssumption DEF TasksOK
  <2> QED
    BY <1>1, <1>3, <2>1, <2>2 DEF TasksOK
<1>15. Handled(srv', sk')
  BY <1>3, <1>10, <1>11, <1>12, <1>13 DEF Handled
<1> QED
  BY <1>3, <1>14, <1>15, HandledStep

LEMMA RestartStep ==
  ASSUME RoomsInv, Restart
  PROVE  Stepped
<1>1. Good(srv, sk) /\ TasksOK /\ UsedInOrder
  BY DEF RoomsInv
<1>2. /\ srv'.rooms = srv.rooms /\ srv'.saved = srv'.rooms
      /\ DOMAIN srv'.where = {} /\ DOMAIN srv'.grace = {}
      /\ DOMAIN srv' = {"rooms", "where", "grace", "saved"}
  BY <1>1 DEF Restart, Good, IsServer, Empty
<1>3. /\ sk' \in [Sids -> {"unused", "open", "dropped", "closed"}]
      /\ \A s \in Sids : sk'[s] = "unused" <=> sk[s] = "unused"
      /\ \A s \in Sids : sk'[s] = "unused" \/ sk'[s] = "closed"
  BY <1>1 DEF Restart, TasksOK
<1>4. Closes(sk, sk') /\ StaysUsed(sk, sk')
  BY <1>3 DEF Closes, StaysUsed
<1>5. Good(srv, sk')
  BY <1>1, <1>4, CloseGood
<1>6. LiveIsBound(srv', sk') /\ SocketsUsed(srv', sk') /\ SocketsApart(srv')
  <2>1. ASSUME NEW r \in DOMAIN srv.rooms, NEW p \in Members(srv.rooms[r])
        PROVE  sk'[srv.rooms[r].sock[p]] = "closed"
    BY <1>3, <1>5 DEF Good, SocketsUsed, RoomOK, RoomShape
  <2>2. SocketsApart(srv')
    BY <1>2, <1>5 DEF Good, SocketsApart
  <2> QED
    BY <1>2, <2>1, <2>2 DEF LiveIsBound, SocketsUsed
<1>7. Good(srv', sk')
  BY <1>2, <1>5, <1>6 DEF Good, IsServer
<1>8. UsedInOrder'
  BY <1>1, <1>3, SameSocketsUsed
<1>9. restarts' = restarts + 1 /\ restarts' \in 0..MaxRestarts
  BY <1>1, RoomsAssumption DEF Restart, TasksOK
<1>10. TasksOK'
  <2>1. sweep' \in [phase : {"asleep", "waiting", "dead"}, doomed : SUBSET RoomIds]
    BY DEF Restart
  <2>2. age' \in [RoomIds -> 0..ZombieLimit]
    BY RoomsAssumption DEF Restart
  <2> QED
    BY <1>3, <1>9, <2>1, <2>2 DEF TasksOK
<1>11. SlotsKept(srv, srv')
  BY <1>2 DEF SlotsKept, KeepsSlots
<1> QED
  BY <1>7, <1>8, <1>9, <1>10, <1>11 DEF Stepped, RoomsInv

LEMMA ScanStep ==
  ASSUME RoomsInv, Scan
  PROVE  Stepped
<1>1. Good(srv, sk) /\ TasksOK /\ UsedInOrder
  BY DEF RoomsInv
<1>2. UNCHANGED <<srv, sk, restarts>> /\ Scanned(srv, {})
  BY DEF Scan
<1>3. /\ sweep' \in [phase : {"asleep", "waiting", "dead"}, doomed : SUBSET RoomIds]
      /\ age' \in [RoomIds -> 0..ZombieLimit]
  BY <1>1, <1>2, ScannedTasks
<1>4. TasksOK'
  BY <1>1, <1>2, <1>3 DEF TasksOK
<1>5. Handled(srv', sk')
  BY <1>1, <1>2 DEF Handled, SlotsKept, KeepsSlots, OwnRequest
<1> QED
  BY <1>2, <1>4, <1>5, HandledStep


LEMMA RoomsStep ==
  ASSUME RoomsInv, [Next]_vars, [InTime]_vars
  PROVE  Stepped
<1>1. CASE UNCHANGED vars
  <2>1. srv' = srv /\ sk' = sk /\ sweep' = sweep /\ age' = age /\ restarts' = restarts
    BY <1>1 DEF vars
  <2>2. TasksOK'
    BY <2>1 DEF RoomsInv, TasksOK
  <2>3. Handled(srv', sk')
    BY <2>1 DEF RoomsInv, Handled, SlotsKept, KeepsSlots, OwnRequest
  <2> QED
    BY <2>1, <2>2, <2>3, HandledStep
<1>2. CASE Next /\ InTime
  <2>1. ASSUME NEW p \in Pids, Connect(p) \/ GraceExpires(p) PROVE Stepped
    BY <2>1, TabStep
  <2>2. ASSUME NEW s \in Sids, SocketDrops(s) \/ HandleDisconnect(s) PROVE Stepped
    BY <2>2, SocketStep
  <2>3. ASSUME NEW s \in Sids, Request(s) PROVE Stepped
    BY <2>3, RequestStep
  <2>4. ASSUME Delete PROVE Stepped
    <3>1. sweep.phase = "waiting" /\ sweep'.phase # "waiting"
      BY <2>4 DEF Delete
    <3>2. DOMAIN srv.rooms \ DOMAIN srv'.rooms \subseteq Zombies(srv)
      BY <1>2, <3>1 DEF InTime
    <3> QED
      BY <2>4, <3>2, DeleteStep
  <2> QED
    BY <1>2, <2>1, <2>2, <2>3, <2>4, ScanStep, RestartStep, Zenon DEF Next
<1>3. UNCHANGED vars \/ (Next /\ InTime)
  BY Zenon
<1> QED
  BY <1>1, <1>2, <1>3

LEMMA RoomsStart ==
  ASSUME Init
  PROVE  RoomsInv /\ GhostInv
<1>1. /\ DOMAIN srv = {"rooms", "where", "grace", "saved"} /\ srv.saved = srv.rooms
      /\ DOMAIN srv.rooms = {} /\ DOMAIN srv.where = {} /\ DOMAIN srv.grace = {}
  BY DEF Init, Empty
<1>2. Good(srv, sk)
  BY <1>1 DEF Good, IsServer, LiveIsBound, SocketsUsed, SocketsApart
<1>3. UsedInOrder
  <2> SUFFICES ASSUME NEW p \in Pids PROVE \E n \in 0..MaxSockets : Used(p) = 1..n
    BY DEF UsedInOrder
  <2>1. \A j \in 1..MaxSockets : <<p, j>> \in Sids
    BY DEF Sids
  <2>2. Used(p) = {}
    BY <2>1 DEF Used, Init
  <2>3. Used(p) = 1..0 /\ 0 \in 0..MaxSockets
    BY <2>2, RoomsAssumption
  <2> QED
    BY <2>3
<1>4. TasksOK
  <2>1. sk \in [Sids -> {"unused", "open", "dropped", "closed"}]
    BY DEF Init
  <2>2. sweep \in [phase : {"asleep", "waiting", "dead"}, doomed : SUBSET RoomIds]
    BY DEF Init
  <2>3. age \in [RoomIds -> 0..ZombieLimit] /\ restarts \in 0..MaxRestarts
    BY RoomsAssumption DEF Init
  <2> QED
    BY <2>1, <2>2, <2>3 DEF TasksOK
<1>5. GhostInv
  BY <1>1 DEF GhostInv, GhostsWatched
<1> QED
  BY <1>2, <1>3, <1>4, <1>5 DEF RoomsInv

(***************************************************************************)
(* The theorems.                                                           *)
(***************************************************************************)

(* The inductive invariant: the rooms, the entries of their sockets, the    *)
(* timers and the copy in Redis fit together after every handler, timer,    *)
(* sweep and restart.                                                      *)
THEOREM RoomsInvariance == Spec /\ FreshSweeps => []RoomsInv
<1>1. Init => RoomsInv
  BY RoomsStart
<1>2. RoomsInv /\ [Next]_vars /\ [InTime]_vars => RoomsInv'
  BY RoomsStep DEF Stepped
<1> QED
  BY <1>1, <1>2, PTL DEF Spec, FreshSweeps

LEMMA InvIsSound ==
  ASSUME RoomsInv
  PROVE  RoomsSound
<1>1. Good(srv, sk) /\ TasksOK
  BY DEF RoomsInv
<1>2. ASSUME NEW r \in DOMAIN srv.rooms PROVE RoomOK(srv.rooms[r], sk)
  BY <1>1 DEF Good
<1>3. TypeOK
  <2>1. ASSUME NEW r \in DOMAIN srv.rooms
        PROVE  LET room == srv.rooms[r] IN
               /\ room.owner \in Sids
               /\ IsInjective(room.players) /\ ToSet(room.players) \subseteq Pids
               /\ room.spectators \subseteq Pids \ ToSet(room.players)
               /\ DOMAIN room.slots \subseteq Slots
               /\ DOMAIN room.sock = Members(room)
               /\ \A p \in Members(room) : room.sock[p] \in Sids /\ room.sock[p][1] = p
    <3>1. RoomShape(srv.rooms[r]) /\ srv.rooms[r].players \in Seq(Pids)
      BY <1>2 DEF RoomOK, RoomShape
    <3>2. ToSet(srv.rooms[r].players) \subseteq Pids
      BY <3>1, InSequence
    <3> QED
      BY <3>1, <3>2 DEF RoomShape
  <2>2. /\ DOMAIN srv.rooms \subseteq RoomIds
        /\ DOMAIN srv.where \subseteq Sids /\ DOMAIN srv.grace \subseteq Pids
    BY <1>1 DEF Good, IsServer
  <2> QED
    BY <1>1, <2>1, <2>2 DEF TypeOK, TasksOK
<1>4. SlotsAreExclusive
  BY <1>2 DEF SlotsAreExclusive, Rooms, RoomOK, RoomShape
<1>5. EntriesMatchMembers
  BY <1>1 DEF EntriesMatchMembers, Good, EntryOK, RoomOf
<1>6. MatchHasItsOwner
  BY <1>2 DEF MatchHasItsOwner, Rooms, RoomOK, OwnerPlays
<1>7. RedisIsCurrent
  BY <1>1 DEF RedisIsCurrent, Good, IsServer
<1> QED
  BY <1>3, <1>4, <1>5, <1>6, <1>7 DEF RoomsSound

(* Slots are exclusive, the entries and the members tell one story, a match *)
(* has its owner and Redis is current, for every number of tabs and rooms.  *)
THEOREM RoomsStaySound == Spec /\ FreshSweeps => []RoomsSound
<1>1. RoomsInv => RoomsSound
  BY InvIsSound
<1> QED
  BY <1>1, RoomsInvariance, PTL

(* In a match a player keeps his slot.                                      *)
THEOREM SlotsStayFixed == Spec /\ FreshSweeps => SlotsFixedInAMatch
<1> DEFINE Fixed ==
             \A r \in DOMAIN srv.rooms \cap DOMAIN srv'.rooms :
               srv.rooms[r].playing /\ srv'.rooms[r].playing =>
                 \A k \in DOMAIN srv.rooms[r].slots :
                   LET p == srv.rooms[r].slots[k] IN
                     p \in ToSet(srv'.rooms[r].players) =>
                       k \in DOMAIN srv'.rooms[r].slots /\ srv'.rooms[r].slots[k] = p
<1>1. RoomsInv /\ [Next]_vars /\ [InTime]_vars => [Fixed]_vars
  BY RoomsStep DEF Stepped, SlotsKept, KeepsSlots
<1>2. Spec /\ FreshSweeps => [][Fixed]_vars
  BY <1>1, RoomsInvariance, PTL DEF Spec, FreshSweeps
<1> QED
  BY <1>2 DEF SlotsFixedInAMatch

(* No ghost keeps a slot: a member whose disconnect has been handled is on  *)
(* a timer, unless his tab is a member of a second room, whose leaving      *)
(* cancels it.                                                             *)
THEOREM NoGhosts == Spec /\ FreshSweeps /\ []OnePageEach => []NobodyIsAGhost
<1>1. Init => GhostInv
  BY RoomsStart
<1>2. RoomsInv /\ GhostInv /\ OnePageEach /\ OnePageEach' /\ [Next]_vars /\ [InTime]_vars
        => GhostInv'
  <2> SUFFICES ASSUME RoomsInv, GhostInv, OnePageEach, OnePageEach',
                      [Next]_vars, [InTime]_vars, restarts' = 0
               PROVE  GhostsWatched(srv', sk')
    BY DEF GhostInv
  <2>1. Stepped /\ restarts \in 0..MaxRestarts
    BY RoomsStep DEF RoomsInv, TasksOK
  <2>2. restarts' = restarts
    BY <2>1, RoomsAssumption DEF Stepped
  <2>3. ~ (restarts' = restarts + 1)
    BY <2>1, <2>2, RoomsAssumption
  <2> QED
    BY <2>1, <2>2, <2>3 DEF Stepped, GhostInv, OnePageEach, OneRoomEach
<1>3. GhostInv => NobodyIsAGhost
  BY DEF GhostInv, GhostsWatched, IsWatched, NobodyIsAGhost
<1> QED
  BY <1>1, <1>2, <1>3, RoomsInvariance, PTL DEF Spec, FreshSweeps

(* The entry of a member's socket tells his role.                           *)
LEMMA EntryOfMember ==
  ASSUME NEW st, NEW k, Good(st, k), NEW s \in DOMAIN st.where, NEW r \in DOMAIN st.rooms,
         NEW p \in Members(st.rooms[r]), s[1] = p, st.rooms[r].sock[p] = s
  PROVE  st.where[s].spectator <=> p \in st.rooms[r].spectators
<1>1. EntryOK(st, s)
  BY DEF Good
<1>2. PICK q \in DOMAIN st.rooms : q = st.where[s].room
  BY <1>1 DEF EntryOK
<1>3. p \in Members(st.rooms[q]) /\ st.rooms[q].sock[p] = s
  BY <1>1, <1>2 DEF EntryOK
<1>4. q = r
  BY <1>3 DEF Good, SocketsApart
<1>5. st.where[s].spectator = (p \in st.rooms[r].spectators)
  BY <1>1, <1>2, <1>4 DEF EntryOK
<1> QED
  BY <1>5, Zenon

(* A connected player loses his place only by a request of his own socket.  *)
THEOREM OnlyOwnRequests == Spec /\ FreshSweeps => OnlyOwnRequestUnseats
<1> DEFINE Own ==
             \A r \in DOMAIN srv.rooms : \A p \in ToSet(srv.rooms[r].players) :
               LET s == srv.rooms[r].sock[p] IN
                 sk[s] = "open" /\ (r \notin DOMAIN srv'.rooms
                                      \/ p \notin ToSet(srv'.rooms[r].players))
                   => \/ s \notin DOMAIN srv'.where
                         /\ srv' = Leave(srv, s)
                      \/ s \in DOMAIN srv'.where /\ srv'.where[s].spectator
                      \/ restarts' # restarts
<1>1. ASSUME RoomsInv, Stepped, restarts' = restarts, NEW r \in DOMAIN srv.rooms,
             NEW p \in ToSet(srv.rooms[r].players), sk[srv.rooms[r].sock[p]] = "open",
             r \notin DOMAIN srv'.rooms \/ p \notin ToSet(srv'.rooms[r].players)
      PROVE  LET s == srv.rooms[r].sock[p] IN
               \/ s \notin DOMAIN srv'.where /\ srv' = Leave(srv, s)
               \/ s \in DOMAIN srv'.where /\ srv'.where[s].spectator
  <2> DEFINE s == srv.rooms[r].sock[p]
  <2>1. restarts \in Nat /\ Good(srv, sk)' /\ Good(srv, sk)
    BY <1>1, RoomsAssumption DEF RoomsInv, TasksOK, Stepped
  <2>2. OwnRequest(srv')
    <3>1. ~ (restarts' = restarts + 1)
      BY <1>1, <2>1
    <3> QED
      BY <1>1, <3>1 DEF Stepped
  <2>3. CASE s \notin DOMAIN srv'.where /\ srv' = Leave(srv, s)
    BY <2>3
  <2>4. CASE /\ s \in DOMAIN srv'.where /\ r \in DOMAIN srv'.rooms
             /\ p \in srv'.rooms[r].spectators /\ srv'.rooms[r].sock[p] = s
    <3>1. s[1] = p
      BY <1>1, <2>1 DEF Good, RoomOK, RoomShape, Members
    <3>2. p \in Members(srv'.rooms[r]) /\ Good(srv', sk')
      BY <2>1, <2>4 DEF Members
    <3>3. srv'.where[s].spectator <=> p \in srv'.rooms[r].spectators
      BY <2>4, <3>1, <3>2, EntryOfMember
    <3>4. srv'.where[s].spectator
      BY <2>4, <3>3, Zenon
    <3> QED
      BY <2>4, <3>4
  <2> QED
    BY <1>1, <2>2, <2>3, <2>4 DEF OwnRequest
<1>2. RoomsInv /\ [Next]_vars /\ [InTime]_vars => [Own]_vars
  BY <1>1, RoomsStep
<1>3. Spec /\ FreshSweeps => [][Own]_vars
  BY <1>2, RoomsInvariance, PTL DEF Spec, FreshSweeps
<1> QED
  BY <1>3 DEF OnlyOwnRequestUnseats

(* In the first minute of the server no sweep runs at all.                  *)
THEOREM FirstMinute ==
  ASSUME ~ CleanupRuns
  PROVE  Spec => FreshSweeps
<1> DEFINE Idle == sweep.phase = "asleep"
<1>1. Init => Idle
  BY DEF Init
<1>2. Idle /\ [Next]_vars => Idle' /\ [InTime]_vars
  <2> SUFFICES ASSUME Idle, [Next]_vars PROVE Idle' /\ InTime
    OBVIOUS
  <2>1. ~ (sweep.phase = "waiting") /\ ~ Delete
    BY DEF Delete
  <2>2. \A st, E : ~ Scanned(st, E)
    BY DEF Scanned
  <2>3. ASSUME NEW next, Handle(next) PROVE Idle'
    BY <2>2, <2>3 DEF Handle
  <2>4. ASSUME NEW p \in Pids, Connect(p) \/ GraceExpires(p) PROVE Idle'
    BY <2>3, <2>4 DEF Connect, GraceExpires
  <2>5. ASSUME NEW s \in Sids, SocketDrops(s) \/ HandleDisconnect(s) PROVE Idle'
    BY <2>3, <2>5 DEF SocketDrops, HandleDisconnect
  <2>6. ASSUME NEW s \in Sids, Request(s) PROVE Idle'
    <3>1. \E next : Handle(next)
      BY <2>6 DEF Request, OpenRoom, JoinRoom, LeaveRoom, ClaimSlot, ReleaseSlot,
                  StartGame, EndGame, SetPlaying
    <3> QED
      BY <2>3, <3>1
  <2>7. ASSUME Restart PROVE Idle'
    BY <2>7 DEF Restart
  <2>8. ASSUME Next PROVE Idle'
    <3>1. ~ Scan
      BY <2>2 DEF Scan
    <3> HIDE DEF Idle
    <3> QED
      BY <2>1, <2>4, <2>5, <2>6, <2>7, <2>8, <3>1, Zenon DEF Next
  <2>9. ASSUME UNCHANGED vars PROVE Idle'
    BY <2>9 DEF vars
  <2>10. InTime
    BY <2>1 DEF InTime
  <2> QED
    BY <2>8, <2>9, <2>10
<1> QED
  BY <1>1, <1>2, PTL DEF Spec, FreshSweeps


=============================================================================

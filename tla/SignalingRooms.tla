--------------------------- MODULE SignalingRooms ---------------------------
(***************************************************************************)
(* Rooms of the signalling server (server/src/api/signaling.py).           *)
(*                                                                         *)
(* The server keeps Python dictionaries, modelled as functions whose       *)
(* domain is the set of keys: rooms by id, the room of each socket, the    *)
(* disconnect timer of each player id, and the copy of each room in Redis. *)
(* Every handler runs under _room_lock and is one action; the two things   *)
(* that do run without the lock are steps of their own: a socket leaving   *)
(* _sid_host at the head of disconnect, and the scan of the periodic       *)
(* cleanup, which may also run inside a handler, at one of its awaits.     *)
(***************************************************************************)
EXTENDS Integers, Sequences, SequencesExt

CONSTANTS
  Pids,          (* persistent player ids, one per browser tab              *)
  RoomIds,       (* room codes                                              *)
  MaxSockets,    (* bound: sockets one tab opens in its life                *)
  MaxPlayers,    (* room.max_players                                        *)
  ZombieLimit,   (* scans before a room without sockets is deleted          *)
  MaxRestarts,   (* bound: restarts of the server                           *)
  CleanupRuns    (* FALSE: the minute before the first scan                 *)

ASSUME RoomsAssumption ==
  /\ MaxSockets \in Nat \ {0}
  /\ MaxPlayers \in Nat \ {0}
  /\ ZombieLimit \in Nat \ {0}
  /\ MaxRestarts \in Nat
  /\ CleanupRuns \in BOOLEAN

Sids  == Pids \X (1..MaxSockets)
Slots == 0..(MaxPlayers - 1)

VARIABLES
  srv,       (* the memory of the server and its copy of the rooms in Redis *)
  sk,        (* each socket is unused, open, dropped or closed              *)
  sweep,     (* the cleanup task and the rooms it is about to delete        *)
  age,       (* _zombie_ages                                                *)
  restarts   (* restarts of the server so far                               *)

vars == <<srv, sk, sweep, age, restarts>>

(* d[k] = v and del d[k] of a dictionary. *)
Empty         == [k \in {} |-> {}]
With(f, k, v) == [x \in DOMAIN f \cup {k} |-> IF x = k THEN v ELSE f[x]]
Without(f, k) == RestrictDomain(f, LAMBDA x : x # k)

-----------------------------------------------------------------------------
(* Room and its helpers *)

Members(room) == ToSet(room.players) \cup room.spectators

NewRoom(p, s) == [owner |-> s, players |-> <<p>>, slots |-> With(Empty, 0, p),
                  spectators |-> {}, sock |-> With(Empty, p, s), playing |-> FALSE]

FreeSlots(room) == Slots \ DOMAIN room.slots

NextSlot(room) == Min(FreeSlots(room))

Seat(room, p, s, slot) ==
  [room EXCEPT !.players = IF Contains(@, p) THEN @ ELSE Append(@, p),
               !.slots = With(@, slot, p),
               !.spectators = @ \ {p},
               !.sock = With(@, p, s)]

(* The player p taken out of the dictionary of players, in its order. *)
Pop(players, p) ==
  IF Contains(players, p)
  THEN RemoveAt(players, CHOOSE i \in DOMAIN players : players[i] = p)
  ELSE players

Unseat(room, p) ==
  [room EXCEPT !.players = Pop(@, p),
               !.slots = RestrictValues(@, LAMBDA q : q # p)]

SwapSid(room, p, s) ==
  [room EXCEPT !.owner = IF @ = room.sock[p] THEN s ELSE @, !.sock[p] = s]

IsLive(room) == \E p \in ToSet(room.players) : sk[room.sock[p]] = "open"

Put(st, r, room) ==
  [st EXCEPT !.rooms = With(@, r, room), !.saved = With(@, r, room)]

Drop(st, R) ==
  [st EXCEPT !.rooms = RestrictDomain(@, LAMBDA r : r \notin R),
             !.saved = RestrictDomain(@, LAMBDA r : r \notin R)]

Bind(st, s, r, p, spectator) ==
  [st EXCEPT !.where = With(@, s, [room |-> r, pid |-> p, spectator |-> spectator])]

CancelGrace(st, p) == [st EXCEPT !.grace = Without(@, p)]

(* variant: the new owner takes P1's slot in the middle of a match too *)
HandOverReshuffling(room) ==
  LET new == Head(room.players)
  IN [room EXCEPT !.owner = room.sock[new],
                  !.slots = With(RestrictValues(@, LAMBDA q : q # new), 0, new)]

(* The next player in the dictionary's order becomes the owner and, in the *)
(* lobby, takes slot 0 whoever sits there.                                 *)
HandOver(room) ==
  LET new == Head(room.players)
  IN [room EXCEPT
        !.owner = room.sock[new],
        !.slots = IF room.playing THEN @
                  ELSE With(RestrictValues(@, LAMBDA q : q # new), 0, new)]

(* The member p taken out of the room, and his socket with him.             *)
Left(room, p, spectator) ==
  LET out == IF spectator THEN [room EXCEPT !.spectators = @ \ {p}] ELSE Unseat(room, p)
  IN [out EXCEPT !.sock = RestrictDomain(@, LAMBDA q : q \in Members(out))]

(* The ownership is passed on when it was the owner who left.               *)
Departed(room, s, p, spectator) ==
  LET left == Left(room, p, spectator)
  IN IF room.owner = s /\ left.players # <<>> THEN HandOver(left) ELSE left

(* _leave: take the socket's member out of its room, and delete the room   *)
(* when that was the last one.                                             *)
Leave(st, s) ==
  IF s \notin DOMAIN st.where THEN st ELSE
  LET e     == st.where[s]
      known == CancelGrace([st EXCEPT !.where = Without(@, s)], e.pid)
      room  == Departed(st.rooms[e.room], s, e.pid, e.spectator)
  IN IF e.room \notin DOMAIN st.rooms THEN known
     ELSE IF Members(room) = {} THEN Drop(known, {e.room})
     ELSE Put(known, e.room, room)

-----------------------------------------------------------------------------
(* The cleanup task *)

(* What the scan finds: rooms that are empty at that moment, and rooms none *)
(* of whose members has an entry in _sid_to_room, for the last time allowed. *)
Zombies(st) == {r \in DOMAIN st.rooms :
                  \A p \in Members(st.rooms[r]) :
                    st.rooms[r].sock[p] \notin DOMAIN st.where}

(* variant: the count of scans starts anew at every scan *)
ScannedUncounted(st, emptied) ==
  /\ CleanupRuns
  /\ sweep.phase = "asleep"
  /\ age' = [r \in RoomIds |-> IF r \in Zombies(st) THEN 1 ELSE 0]
  /\ sweep' = [phase |-> "waiting",
               doomed |-> emptied \cup {r \in Zombies(st) : age'[r] >= ZombieLimit}]

(* emptied: rooms from which the running handler has just taken the last   *)
(* member and which it has not deleted yet.                                *)
Scanned(st, emptied) ==
  /\ CleanupRuns
  /\ sweep.phase = "asleep"
  /\ age' = [r \in RoomIds |->
               IF r \notin DOMAIN st.rooms \/ r \in emptied THEN age[r]
               ELSE IF r \in Zombies(st)
                    THEN IF age[r] < ZombieLimit THEN age[r] + 1 ELSE age[r]
                    ELSE 0]
  /\ sweep' = [phase |-> "waiting",
               doomed |-> emptied \cup {r \in Zombies(st) : age'[r] >= ZombieLimit}]

(* A handler ends in state next; the cleanup may scan at one of its awaits. *)
Handle(next) ==
  /\ srv' = next
  /\ \/ UNCHANGED <<sweep, age>>
     \/ /\ DOMAIN srv.rooms \ DOMAIN next.rooms # {}
        /\ Scanned(srv, DOMAIN srv.rooms \ DOMAIN next.rooms)

Scan == Scanned(srv, {}) /\ UNCHANGED <<srv, sk, restarts>>

(* The rooms found are deleted under the lock, unread; a room that is gone *)
(* already raises KeyError, which ends the task.                           *)
Delete ==
  /\ sweep.phase = "waiting"
  /\ \E gone \in SUBSET (sweep.doomed \cap DOMAIN srv.rooms) :
       /\ srv' = Drop(srv, gone)
       /\ age' = [r \in RoomIds |-> IF r \in gone THEN 0 ELSE age[r]]
       /\ \/ gone = sweep.doomed /\ sweep' = [phase |-> "asleep", doomed |-> {}]
          \/ /\ ~ (sweep.doomed \subseteq DOMAIN srv.rooms)
             /\ sweep' = [phase |-> "dead", doomed |-> {}]
  /\ UNCHANGED <<sk, restarts>>

-----------------------------------------------------------------------------
(* Sockets *)

Init ==
  /\ srv = [rooms |-> Empty, where |-> Empty, grace |-> Empty, saved |-> Empty]
  /\ sk = [s \in Sids |-> "unused"]
  /\ sweep = [phase |-> "asleep", doomed |-> {}]
  /\ age = [r \in RoomIds |-> 0]
  /\ restarts = 0

(* A tab's newest socket; a request queued for the lock runs even when its *)
(* socket has dropped meanwhile.                                           *)
Used(p)     == {k \in 1..MaxSockets : sk[<<p, k>>] # "unused"}
Latest(s)   == s[2] = Cardinality(Used(s[1]))
CanAsk(s)   == sk[s] \in {"open", "dropped"}
RoomOf(s)   == srv.rooms[srv.where[s].room]
InARoom(s)  == s \in DOMAIN srv.where /\ srv.where[s].room \in DOMAIN srv.rooms

(* connect: the page is loaded, or its transport comes back, under a new   *)
(* sid; the server may not have noticed yet that the old one is gone.      *)
Connect(p) ==
  LET k == Cardinality(Used(p)) + 1
  IN /\ k <= MaxSockets
     /\ sk' = [sk EXCEPT ![<<p, k>>] = "open"]
     /\ UNCHANGED <<srv, sweep, age, restarts>>

(* disconnect, before the lock: _sid_host.pop *)
SocketDrops(s) ==
  /\ sk[s] = "open"
  /\ sk' = [sk EXCEPT ![s] = "dropped"]
  /\ UNCHANGED <<srv, sweep, age, restarts>>

(* disconnect, under the lock: a timer for a player in a match and for the *)
(* owner of a lobby, _leave for everybody else.                            *)
HandleDisconnect(s) ==
  /\ sk[s] = "dropped"
  /\ sk' = [sk EXCEPT ![s] = "closed"]
  /\ UNCHANGED restarts
  /\ LET e     == srv.where[s]
         waits == /\ InARoom(s)
                  /\ ~ e.spectator
                  /\ RoomOf(s).playing \/ RoomOf(s).owner = s
     IN Handle(IF waits
               THEN [srv EXCEPT !.grace = With(@, e.pid, [sid |-> s, room |-> e.room])]
               ELSE Leave(srv, s))

(* variant: the timer does nothing *)
GraceExpiresIdle(p) ==
  /\ p \in DOMAIN srv.grace
  /\ srv' = CancelGrace(srv, p)
  /\ UNCHANGED <<sk, sweep, age, restarts>>

(* _disconnect_grace_expiry, the lock taken: the timer's own record of the *)
(* socket is put back and _leave runs for it.                              *)
GraceExpires(p) ==
  /\ p \in DOMAIN srv.grace
  /\ LET t == srv.grace[p]
     IN \E back \in {Bind(CancelGrace(srv, p), t.sid, t.room, p, FALSE)} :
          Handle(Leave(back, t.sid))
  /\ UNCHANGED <<sk, restarts>>

-----------------------------------------------------------------------------
(* Requests *)

(* A page is of one room: its socket does not ask for a second one. *)
MayEnter(s, r) ==
  /\ CanAsk(s) /\ Latest(s)
  /\ s \in DOMAIN srv.where => srv.where[s].room = r

(* variant: a returning member's timer keeps running *)
ReturnUncancelled(s, r) ==
  LET p   == s[1]
      old == srv.rooms[r].sock[p]
      st  == [srv EXCEPT !.where = Without(@, old)]
  IN Bind(Put(st, r, SwapSid(srv.rooms[r], p, s)), s, r, p,
          p \in srv.rooms[r].spectators)

(* variant: the old socket keeps its entry *)
ReturnKeepsEntry(s, r) ==
  Bind(Put(CancelGrace(srv, s[1]), r, SwapSid(srv.rooms[r], s[1], s)),
       s, r, s[1], s[1] \in srv.rooms[r].spectators)

(* The member's entry moves from the old socket to the new one. *)
Return(s, r) ==
  LET p   == s[1]
      old == srv.rooms[r].sock[p]
      st  == [CancelGrace(srv, p) EXCEPT !.where = Without(@, old)]
  IN Bind(Put(st, r, SwapSid(srv.rooms[r], p, s)), s, r, p,
          p \in srv.rooms[r].spectators)

OpenRoom(s, r) ==
  /\ MayEnter(s, r)
  /\ \/ /\ r \in DOMAIN srv.rooms
        /\ s[1] \in ToSet(srv.rooms[r].players)
        /\ Handle(Return(s, r))
     \/ /\ r \notin DOMAIN srv.rooms
        /\ Handle(Bind(Put(Leave(srv, s), r, NewRoom(s[1], s)), s, r, s[1], FALSE))
  /\ UNCHANGED <<sk, restarts>>

(* The zombie rule: no stranger enters a room without a connected player,  *)
(* unless he wants to play and a player of it is expected back.            *)
Admits(room, spectate) ==
  \/ IsLive(room)
  \/ ~ spectate /\ \E p \in ToSet(room.players) : p \in DOMAIN srv.grace

JoinRoom(s, r, spectate) ==
  /\ MayEnter(s, r)
  /\ r \in DOMAIN srv.rooms
  /\ LET p    == s[1]
         room == srv.rooms[r]
         out  == Leave(srv, s)
     IN \/ /\ p \in Members(room)
           /\ Handle(Return(s, r))
        \/ /\ p \notin Members(room)
           /\ Admits(room, spectate)
           /\ \/ /\ spectate
                 /\ Handle(Bind(Put(out, r,
                      [room EXCEPT !.spectators = @ \cup {p},
                                   !.sock = With(@, p, s)]), s, r, p, TRUE))
              \/ /\ ~ spectate
                 /\ FreeSlots(room) # {}
                 /\ Handle(Bind(Put(out, r, Seat(room, p, s, NextSlot(room))),
                                s, r, p, FALSE))
  /\ UNCHANGED <<sk, restarts>>

(* leave-room: the page goes away with it, so the socket asks nothing more *)
(* and its own disconnect finds no entry.                                  *)
LeaveRoom(s) ==
  /\ CanAsk(s)
  /\ s \in DOMAIN srv.where
  /\ sk' = [sk EXCEPT ![s] = "closed"]
  /\ Handle(Leave(srv, s))
  /\ UNCHANGED restarts

(* claim-slot: the page names a slot it was shown as free. *)
ClaimSlot(s, slot) ==
  /\ CanAsk(s) /\ InARoom(s)
  /\ srv.where[s].spectator
  /\ ~ RoomOf(s).playing
  /\ slot \in FreeSlots(RoomOf(s))
  /\ LET e == srv.where[s]
     IN Handle(Bind(Put(srv, e.room, Seat(RoomOf(s), e.pid, s, slot)),
                    s, e.room, e.pid, FALSE))
  /\ UNCHANGED <<sk, restarts>>

ReleaseSlot(s) ==
  /\ CanAsk(s) /\ InARoom(s)
  /\ ~ srv.where[s].spectator
  /\ ~ RoomOf(s).playing
  /\ RoomOf(s).owner # s
  /\ Contains(RoomOf(s).players, s[1])
  /\ LET e == srv.where[s]
         seated == Unseat(RoomOf(s), e.pid)
     IN Handle(Bind(Put(srv, e.room, [seated EXCEPT !.spectators = @ \cup {e.pid}]),
                    s, e.room, e.pid, TRUE))
  /\ UNCHANGED <<sk, restarts>>

(* start-game and end-game by the owner. *)
SetPlaying(s, playing) ==
  /\ CanAsk(s) /\ InARoom(s)
  /\ RoomOf(s).owner = s
  /\ RoomOf(s).playing # playing
  /\ Handle(Put(srv, srv.where[s].room, [RoomOf(s) EXCEPT !.playing = playing]))
  /\ UNCHANGED <<sk, restarts>>

StartGame(s) == SetPlaying(s, TRUE)
EndGame(s)   == SetPlaying(s, FALSE)

(* The process ends, orderly (disconnects are ignored then) or not, and a  *)
(* new one loads the rooms from Redis and starts its own cleanup task.     *)
Restart ==
  /\ restarts < MaxRestarts
  /\ restarts' = restarts + 1
  /\ srv' = [rooms |-> srv.saved, where |-> Empty, grace |-> Empty,
             saved |-> srv.saved]
  /\ sk' = [s \in Sids |-> IF sk[s] = "unused" THEN "unused" ELSE "closed"]
  /\ sweep' = [phase |-> "asleep", doomed |-> {}]
  /\ age' = [r \in RoomIds |-> 0]

Request(s) ==
  \/ \E r \in RoomIds : OpenRoom(s, r)
  \/ \E r \in RoomIds, spectate \in BOOLEAN : JoinRoom(s, r, spectate)
  \/ LeaveRoom(s)
  \/ \E slot \in Slots : ClaimSlot(s, slot)
  \/ ReleaseSlot(s)
  \/ StartGame(s)
  \/ EndGame(s)

Next ==
  \/ \E p \in Pids : Connect(p) \/ GraceExpires(p)
  \/ \E s \in Sids : SocketDrops(s) \/ HandleDisconnect(s) \/ Request(s)
  \/ Scan
  \/ Delete
  \/ Restart

Spec == Init /\ [][Next]_vars

(* The server runs its disconnect handlers, its timers and the loop of its  *)
(* cleanup; nobody is obliged to ask anything.                              *)
Fairness ==
  /\ WF_vars(\E s \in Sids : HandleDisconnect(s))
  /\ \A p \in Pids : WF_vars(GraceExpires(p))
  /\ WF_vars(Scan \/ Delete)

FairSpec == Spec /\ Fairness

(* No tab is a member of two rooms. *)
OneRoomEach(st) ==
  \A q, r \in DOMAIN st.rooms :
    Members(st.rooms[q]) \cap Members(st.rooms[r]) # {} => q = r

OnePageEach == OneRoomEach(srv)

(* The sweep is not late: no room that it is about to delete has come back  *)
(* to life or is gone already, which would end the task.                    *)
SweepIsFresh == sweep.phase # "dead" /\ sweep.doomed \subseteq Zombies(srv)

Orderly == OnePageEach /\ SweepIsFresh

-----------------------------------------------------------------------------
(* Properties *)

(* The server's dictionaries hold what they are declared to hold. *)
TypeOK ==
  /\ DOMAIN srv.rooms \subseteq RoomIds
  /\ \A r \in DOMAIN srv.rooms : LET room == srv.rooms[r] IN
       /\ room.owner \in Sids
       /\ IsInjective(room.players) /\ ToSet(room.players) \subseteq Pids
       /\ room.spectators \subseteq Pids \ ToSet(room.players)
       /\ DOMAIN room.slots \subseteq Slots
       /\ DOMAIN room.sock = Members(room)
       /\ \A p \in Members(room) : room.sock[p] \in Sids /\ room.sock[p][1] = p
  /\ DOMAIN srv.where \subseteq Sids
  /\ DOMAIN srv.grace \subseteq Pids
  /\ sk \in [Sids -> {"unused", "open", "dropped", "closed"}]
  /\ sweep \in [phase : {"asleep", "waiting", "dead"}, doomed : SUBSET RoomIds]
  /\ age \in [RoomIds -> 0..ZombieLimit]
  /\ restarts \in 0..MaxRestarts

Rooms == {srv.rooms[r] : r \in DOMAIN srv.rooms}

(* A slot has one player, a player has at most one slot, and no slot is     *)
(* kept for somebody who left: whatever sequence of joins, claims,          *)
(* releases, departures and handovers led here.                             *)
SlotsAreExclusive ==
  \A room \in Rooms : /\ \A k \in DOMAIN room.slots :
                           room.slots[k] \in ToSet(room.players)
                      /\ \A j, k \in DOMAIN room.slots :
                           room.slots[j] = room.slots[k] => j = k

(* _sid_to_room and the rooms tell one story: a socket's entry names a room *)
(* that exists and in which the member, in that role, has that socket.      *)
EntriesMatchMembers ==
  \A s \in DOMAIN srv.where :
    LET e == srv.where[s] IN
      /\ e.room \in DOMAIN srv.rooms
      /\ e.pid = s[1]
      /\ e.pid \in Members(RoomOf(s))
      /\ e.spectator = (e.pid \in RoomOf(s).spectators)
      /\ RoomOf(s).sock[e.pid] = s

(* A member whose socket's disconnect has been handled is on a timer: no    *)
(* ghost keeps a slot for ever. (The members a restart restores have none:  *)
(* the cleanup is there for them.)                                          *)
NobodyIsAGhost ==
  restarts = 0 =>
    \A r \in DOMAIN srv.rooms : \A p \in Members(srv.rooms[r]) :
      sk[srv.rooms[r].sock[p]] = "closed" =>
        p \in DOMAIN srv.grace /\ srv.grace[p].room = r

(* A match always has its owner among its players, through disconnects,     *)
(* reconnects under other sids and expiries of several of them.             *)
MatchHasItsOwner ==
  \A room \in Rooms : room.playing /\ room.players # <<>> =>
    \E p \in ToSet(room.players) : room.sock[p] = room.owner

(* Between two handlers Redis holds exactly the rooms in memory.            *)
RedisIsCurrent == srv.saved = srv.rooms

(* What holds of the server's dictionaries between two handlers.            *)
RoomsSound ==
  TypeOK /\ SlotsAreExclusive /\ EntriesMatchMembers /\ MatchHasItsOwner /\ RedisIsCurrent

(* A player whose socket is connected loses his place only by a request of  *)
(* that socket: no timer of an earlier socket and no other tab removes him. *)
OnlyOwnRequestUnseats ==
  [][\A r \in DOMAIN srv.rooms : \A p \in ToSet(srv.rooms[r].players) :
       LET s == srv.rooms[r].sock[p] IN
         sk[s] = "open" /\ (r \notin DOMAIN srv'.rooms
                              \/ p \notin ToSet(srv'.rooms[r].players))
           => \/ s \notin DOMAIN srv'.where
                 /\ srv' = Leave(srv, s)
              \/ s \in DOMAIN srv'.where /\ srv'.where[s].spectator
              \/ restarts' # restarts]_vars

(* In a match a player keeps his slot, whoever joins, leaves, comes back or *)
(* becomes the owner, and across a restart of the server.                   *)
SlotsFixedInAMatch ==
  [][\A r \in DOMAIN srv.rooms \cap DOMAIN srv'.rooms :
       srv.rooms[r].playing /\ srv'.rooms[r].playing =>
         \A k \in DOMAIN srv.rooms[r].slots :
           LET p == srv.rooms[r].slots[k] IN
             p \in ToSet(srv'.rooms[r].players) =>
               k \in DOMAIN srv'.rooms[r].slots /\ srv'.rooms[r].slots[k] = p]_vars

(* Every player of a room has a slot of his own. *)
EveryPlayerHasASlot ==
  \A room \in Rooms : \A p \in ToSet(room.players) :
    \E k \in DOMAIN room.slots : room.slots[k] = p

(* A room with players has an owner among them. *)
NoRoomIsOwnerless ==
  \A room \in Rooms : room.players # <<>> =>
    \E p \in ToSet(room.players) : room.sock[p] = room.owner

(* The cleanup deletes no room in which a member is connected. *)
CleanupSparesLiveRooms ==
  [][\A r \in DOMAIN srv.rooms \ DOMAIN srv'.rooms :
       sweep.phase = "waiting" /\ sweep'.phase # "waiting" =>
         \A p \in Members(srv.rooms[r]) : sk[srv.rooms[r].sock[p]] # "open"]_vars

(* The periodic cleanup goes on for as long as the server runs. *)
CleanupKeepsRunning == sweep.phase # "dead"

Deserted(r) == /\ r \in DOMAIN srv.rooms
               /\ \A p \in Members(srv.rooms[r]) : sk[srv.rooms[r].sock[p]] # "open"

(* A room nobody is connected to goes away or somebody comes back to it:    *)
(* its timers end one by one, the last one takes the room along, and the    *)
(* sweep takes what a restart left, whoever joins, leaves, or returns       *)
(* under another socket meanwhile: as long as no tab is in two rooms and no *)
(* sweep is late.  Without this the code leaves deserted rooms for ever.    *)
DesertedRoomGoes ==
  []Orderly => \A r \in RoomIds : Deserted(r) ~> ~ Deserted(r)

(* Broken by the code: the same without the premise. *)
AnyDesertedRoomGoes == \A r \in RoomIds : Deserted(r) ~> ~ Deserted(r)

=============================================================================

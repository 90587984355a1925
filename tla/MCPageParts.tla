------------------------------ MODULE MCPageParts ------------------------------
(* The parts of the page for TLC: those of PageParts, and four more on instances  *)
(* of their own.                                                             *)
EXTENDS PageParts, FiniteSets

VARIABLES v9, v10, v11

Stream == INSTANCE Streaming WITH
  Guests <- {"g1", "g2"}, Spectators <- {"g2"}, Early <- {"g1"}, MaxOffers <- 6,
  MaxLosses <- 1, MaxPresses <- 1, stage <- v1, stream <- v2, hostPeer <- v3,
  guest <- v4, wire <- v5, inputs <- v6, applied <- v7, used <- v8

Transfer == INSTANCE RomTransfer WITH
  Pieces <- 2, Roms <- {1, 2}, MaxLinks <- 2, MaxTimers <- 2, MaxClicks <- 3,
  MaxRetries <- 1, place <- v1, host <- v2, guest <- v3, link <- v4, wire <- v5,
  clicks <- v6, seen <- v7

Lobby == INSTANCE LobbyPage WITH
  MaxMatches <- 3, MaxDrops <- 2, owner <- v1, page <- v2, flows <- v3, room <- v4,
  wire <- v5, drops <- v6, lost <- v7

(* One presses, the other watches: what happens to a press is the same for either. *)
Presses == [p \in {"P1", "P2"} |-> IF p = "P1" THEN 1 ELSE 0]

Menu == INSTANCE MenuLockstep WITH
  Peers <- {"P1", "P2"}, Delay <- 1, BootFrames <- 2, MenuCount <- 1, MaxFrame <- 5,
  MaxPresses <- Presses, MaxLost <- 1, frame <- v1, scene <- v2, local <- v3,
  remote <- v4, newest <- v5, barrier <- v6, engine <- v7, net <- v8, dc <- v9,
  lost <- v10, trail <- v11

More == <<v9, v10, v11>>
NoMore == v9 = 0 /\ v10 = 0 /\ v11 = 0

MCInit ==
  \/ PageInit /\ NoMore
  \/ part = "stream" /\ Stream!Init /\ NoMore
  \/ part = "transfer" /\ Transfer!Init /\ Only7 /\ NoMore
  \/ part = "lobby" /\ Lobby!Init /\ Only7 /\ NoMore
  \/ part = "menu" /\ Menu!Init

(* Bound: the log has all its lines, fills its ring and overwrites it, only    *)
(* with one match; with a second one nothing is about a line past the second.  *)
LongLogsAreOfOneMatch ==
  part = "log" /\ v7.matches > 1 =>
    /\ v1.next <= 2 /\ \A k \in DOMAIN v3 : v3[k].last <= 2
    /\ \A p \in v1.timers \cup v6.up : p.to <= 2
    /\ \A q \in {v5.up, v7.last} \cup {v4[k] : k \in DOMAIN v4} : \A i \in DOMAIN q : q[i].to <= 2

(* Bound: input packets under way at once. *)
FewPackets == Cardinality(v8) <= 3

MCNext ==
  \/ PageNext /\ UNCHANGED More /\ LongLogsAreOfOneMatch'
  \/ part = "stream" /\ Stream!Next /\ Keep8 /\ UNCHANGED More
  \/ part = "transfer" /\ Transfer!Next /\ Keep7 /\ UNCHANGED More
  \/ part = "lobby" /\ Lobby!Next /\ Keep7 /\ UNCHANGED More
  \/ part = "menu" /\ Menu!Next /\ FewPackets' /\ Keep8

MCSpec == MCInit /\ [][MCNext]_<<pageVars, More>>

(* Everybody who watches a settled stream sees it, and the host presses     *)
(* nothing for a guest who let go or left.                                  *)
StreamSound == part = "stream" => Stream!StreamTypeOK /\ Stream!StreamSound

(* A ROM that was paused, resumed and asked for again is the whole ROM of   *)
(* the host, and no guest waits without a timer.                            *)
TransferSound == part = "transfer" => Transfer!TransferTypeOK /\ Transfer!TransferSound

(* A page that has received everything agrees with the room on whether a    *)
(* match runs and on which.                                                 *)
PageFollowsRoom == part = "lobby" => Lobby!LobbyTypeOK /\ Lobby!PageFollowsRoom

(* In the menus all players take the same path through the same inputs, and *)
(* never all wait for each other.                                           *)
MenuSound == part = "menu" => Menu!MenuTypeOK /\ Menu!MenuSound

================================================================================

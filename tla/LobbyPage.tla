------------------------------- MODULE LobbyPage -------------------------------
(***************************************************************************)
(* The page of one member of a room (play.js) and the server's idea of the   *)
(* room: the page connects, looks the room up over HTTP, joins it, follows    *)
(* matches that start and end, joins one that runs already, and comes back   *)
(* when its socket was lost.  The page is the owner's, or that of somebody    *)
(* else in a room whose owner starts and ends matches.                       *)
(*                                                                         *)
(* Between page and server messages keep their order.  What is under way     *)
(* when the socket is lost is lost; what the page sends while it has none     *)
(* goes out first when it has one again (Socket.IO's send buffer).  An        *)
(* acknowledgement is a message of the server's.  Where a page gets its ROM   *)
(* and what the emulator does is in RomAndEmulator.                         *)
(***************************************************************************)
EXTENDS Naturals, SequencesExt

CONSTANTS
  MaxMatches,  (* bound: matches the server starts                          *)
  MaxDrops     (* bound: sockets lost                                      *)

VARIABLES
  owner,    (* the page is the owner's                                     *)
  page,     (* the page's own idea                                         *)
  flows,    (* joins under way on the page                                 *)
  room,     (* the server's                                               *)
  wire,     (* messages under way                                         *)
  drops,    (* how many sockets were lost                                  *)
  lost      (* what the properties make an exception for                    *)

lobbyVars == <<owner, page, flows, room, wire, drops, lost>>

None == 0

(* running: gameRunning.  engine: there is one.  pending: _pendingLateJoin,   *)
(* the prompt for a ROM.  ended: _lastHandledGameEndMatchId.  ending:         *)
(* _endGameInFlight.  timers: the matches of which the five seconds run.      *)
Page == [connected : BOOLEAN, rom : BOOLEAN, running : BOOLEAN, engine : BOOLEAN,
         pending : BOOLEAN, match : 0..MaxMatches, ended : 0..MaxMatches,
         ending : BOOLEAN, timers : SUBSET (0..MaxMatches)]

Room == [playing : BOOLEAN, match : 0..MaxMatches, member : BOOLEAN]

LobbyTypeOK ==
  /\ owner \in BOOLEAN
  /\ page \in Page /\ room \in Room
  /\ \A i \in DOMAIN flows : flows[i] \in {"fetch", "asked"}
  /\ lost \in [status : BOOLEAN, events : BOOLEAN, end : BOOLEAN]

Init ==
  /\ owner \in BOOLEAN
  /\ page \in [connected : {FALSE}, rom : BOOLEAN, running : {FALSE}, engine : {FALSE},
               pending : {FALSE}, match : {None}, ended : {None}, ending : {FALSE},
               timers : {{}}]
  /\ owner => page.rom
  /\ flows = <<>>
  /\ room = [playing |-> FALSE, match |-> None, member |-> FALSE]
  /\ wire = [up |-> <<>>, down |-> <<>>]
  /\ drops = 0
  /\ lost = [status |-> FALSE, events |-> FALSE, end |-> FALSE]

(* The server tells the members: a page it cannot reach misses it. *)
Down(w, m) == IF room.member THEN [w EXCEPT !.down = Append(@, m)] ELSE w
Up(w, m) == [w EXCEPT !.up = Append(@, m)]

-----------------------------------------------------------------------------
(* Connecting and joining                                                    *)

(* onConnect: in a match it joins again and looks at nothing; otherwise the    *)
(* owner opens the room and anybody else looks it up first.                  *)
Connects ==
  /\ ~page.connected
  /\ page' = [page EXCEPT !.connected = TRUE]
  /\ IF page.running THEN wire' = Up(wire, <<"rejoin">>) /\ UNCHANGED flows
     ELSE IF owner THEN wire' = Up(wire, <<"open">>) /\ UNCHANGED flows
     ELSE flows' = Append(flows, "fetch") /\ UNCHANGED wire
  /\ UNCHANGED <<owner, room, drops, lost>>

(* The answer of /room comes back; the page asks to join and will act on the   *)
(* status it was told.                                                      *)
LooksUp(i) ==
  /\ flows[i] = "fetch"
  /\ flows' = [flows EXCEPT ![i] = "asked"]
  /\ wire' = Up(wire, <<"join", room.playing>>)
  /\ UNCHANGED <<owner, page, room, drops, lost>>

(* The server takes a request: open-room, join-room, start-game, end-game.     *)
ServerTakes ==
  /\ page.connected /\ wire.up # <<>>
  /\ LET m == Head(wire.up)
         w == [wire EXCEPT !.up = Tail(@)] IN
     CASE m[1] \in {"rejoin", "open"} ->
            room' = [room EXCEPT !.member = TRUE] /\ wire' = w /\ UNCHANGED lost
       [] m[1] = "join" ->
            /\ room' = [room EXCEPT !.member = TRUE]
            /\ wire' = [w EXCEPT !.down = Append(@, <<"joined", m[2], room.match>>)]
            /\ lost' = [lost EXCEPT !.status = @ \/ m[2] # room.playing]
       [] m[1] = "start" ->
            IF ~room.member \/ room.match = MaxMatches THEN wire' = w /\ UNCHANGED <<room, lost>>
            ELSE /\ room' = [room EXCEPT !.playing = TRUE, !.match = @ + 1]
                 /\ wire' = Down(w, <<"started", room.match + 1>>)
                 /\ UNCHANGED lost
       [] m[1] = "end" ->
            IF ~room.member \/ ~room.playing
            THEN wire' = [w EXCEPT !.down = Append(@, <<"refused">>)] /\ UNCHANGED <<room, lost>>
            ELSE /\ room' = [room EXCEPT !.playing = FALSE]
                 /\ wire' = [w EXCEPT !.down = @ \o << <<"ended", room.match>>,
                                                       <<"acked", m[2]>> >>]
                 /\ UNCHANGED lost
  /\ UNCHANGED <<owner, page, flows, drops>>

(* initEngine, with or without a ROM. *)
EngineStarts(p) == [p EXCEPT !.engine = TRUE]

(* The acknowledgement of join-room.  The prompt stands in for the engine      *)
(* until there is a ROM.                                                    *)
Joined(p, playing, match) ==
  IF ~playing THEN p
  ELSE IF p.rom THEN EngineStarts([p EXCEPT !.running = TRUE, !.match = match])
  ELSE [p EXCEPT !.running = TRUE, !.match = match, !.pending = TRUE]

(* onGameStarted. *)
Started(p, match) == EngineStarts([p EXCEPT !.running = TRUE, !.match = match])

(* variant: the prompt for a ROM stays *)
EndedButPending(p, match) ==
  IF (match # None /\ p.ended = match) \/ ~(p.running \/ p.engine \/ p.pending) THEN p
  ELSE [p EXCEPT !.ended = IF match # None THEN match ELSE @, !.ending = FALSE,
          !.running = FALSE, !.engine = FALSE, !.match = None]

(* onGameEnded: once per match. *)
Ended(p, match) ==
  IF (match # None /\ p.ended = match) \/ ~(p.running \/ p.engine \/ p.pending) THEN p
  ELSE [p EXCEPT !.ended = IF match # None THEN match ELSE @, !.ending = FALSE,
          !.running = FALSE, !.pending = FALSE, !.engine = FALSE, !.match = None]

PageTakes ==
  /\ page.connected /\ wire.down # <<>>
  /\ LET m == Head(wire.down) IN
     /\ page' = CASE m[1] = "joined" -> Joined(page, m[2], m[3])
                  [] m[1] = "started" -> Started(page, m[2])
                  [] m[1] = "ended" -> Ended(page, m[2])
                  [] m[1] = "acked" -> Ended(page, m[2])
                  [] m[1] = "refused" -> [page EXCEPT !.ending = FALSE]
     /\ flows' = IF m[1] = "joined" THEN RemoveFirst(flows, "asked") ELSE flows
  /\ wire' = [wire EXCEPT !.down = Tail(@)]
  /\ UNCHANGED <<owner, room, drops, lost>>

(* dismissLateJoinPrompt, when the ROM the prompt asks for is there. *)
RomComes ==
  /\ ~page.rom
  /\ page' = IF page.pending
             THEN EngineStarts([page EXCEPT !.rom = TRUE, !.pending = FALSE])
             ELSE [page EXCEPT !.rom = TRUE]
  /\ UNCHANGED <<owner, flows, room, wire, drops, lost>>

-----------------------------------------------------------------------------
(* Matches                                                                  *)

(* startGame: the button is there in the lobby. *)
StartClicked ==
  /\ owner /\ page.rom /\ ~page.running /\ page.connected /\ room.member
  /\ wire.up = <<>> /\ room.match < MaxMatches
  /\ wire' = Up(wire, <<"start">>)
  /\ UNCHANGED <<owner, page, flows, room, drops, lost>>

(* endGame: five seconds for an answer. *)
EndClicked ==
  /\ owner /\ page.running /\ ~page.ending /\ page.match \notin page.timers
  /\ page' = [page EXCEPT !.ending = TRUE, !.timers = @ \cup {page.match}]
  /\ wire' = Up(wire, <<"end", page.match>>)
  /\ UNCHANGED <<owner, flows, room, drops, lost>>

(* The timer of an endGame, which nothing cancels: what is in flight may be    *)
(* a later one.                                                             *)
EndTimesOut(match) ==
  /\ match \in page.timers
  /\ LET p == [page EXCEPT !.timers = @ \ {match}]
         q == [p EXCEPT !.ending = FALSE] IN
     /\ page' = IF ~page.ending THEN p
                ELSE IF q.running \/ q.engine THEN Ended(q, match) ELSE q
     /\ lost' = [lost EXCEPT !.events = @ \/ page.ending]
  /\ UNCHANGED <<owner, flows, room, wire, drops>>

(* The owner of somebody else's room; the server refuses to start while a      *)
(* member has no ROM.                                                       *)
OtherStarts ==
  /\ ~owner /\ ~room.playing /\ room.match < MaxMatches /\ (room.member => page.rom)
  /\ room' = [room EXCEPT !.playing = TRUE, !.match = @ + 1]
  /\ wire' = Down(wire, <<"started", room.match + 1>>)
  /\ UNCHANGED <<owner, page, flows, drops, lost>>

OtherEnds ==
  /\ ~owner /\ room.playing
  /\ room' = [room EXCEPT !.playing = FALSE]
  /\ wire' = Down(wire, <<"ended", room.match>>)
  /\ lost' = [lost EXCEPT !.end = @ \/ (~room.member /\ page.running)]
  /\ UNCHANGED <<owner, page, flows, drops>>

(* The socket is lost, with what is under way and the acknowledgements due.    *)
Drops ==
  /\ page.connected /\ drops < MaxDrops
  /\ drops' = drops + 1
  /\ page' = [page EXCEPT !.connected = FALSE]
  /\ wire' = [up |-> <<>>, down |-> <<>>]
  /\ flows' = SelectSeq(flows, LAMBDA f : f = "fetch")
  /\ room' = [room EXCEPT !.member = FALSE]
  /\ LET gone(kind) == \E i \in DOMAIN wire.down : wire.down[i][1] = kind IN
     lost' = [lost EXCEPT !.events = @ \/ gone("started") \/ gone("ended"),
                          !.end = @ \/ gone("ended")]
  /\ UNCHANGED owner

-----------------------------------------------------------------------------
Next ==
  \/ Connects \/ ServerTakes \/ PageTakes \/ RomComes
  \/ StartClicked \/ EndClicked \/ OtherStarts \/ OtherEnds \/ Drops
  \/ \E i \in DOMAIN flows : LooksUp(i)
  \/ \E match \in page.timers : EndTimesOut(match)

Spec == Init /\ [][Next]_lobbyVars

-----------------------------------------------------------------------------
(* Properties                                                               *)

Settled ==
  page.connected /\ room.member /\ flows = <<>> /\ wire.up = <<>> /\ wire.down = <<>>

(* Whatever is lost, repeated or late, a page that has received everything     *)
(* agrees with the room on whether a match runs and on which: it has the       *)
(* engine (or asks for the ROM) exactly then.  Exceptions: the status looked   *)
(* up was no longer true; an owner missed an event or ended by itself; a       *)
(* member missed the end of its match.                                       *)
PageFollowsRoom ==
  Settled /\ ~lost.status /\ ~(IF owner THEN lost.events ELSE lost.end) =>
    /\ page.running = room.playing
    /\ page.engine = (room.playing /\ ~page.pending)
    /\ page.running => page.match = room.match

(* Broken by the code: the page acts on the status it looked up before it      *)
(* joined, not on the one in the acknowledgement.                            *)
JoinSeesTheMatch ==
  Settled /\ ~owner /\ ~lost.events /\ drops = 0 => page.running = room.playing

(* Broken by the code: a page that comes back looks at nothing when it thinks   *)
(* that it is in a match, and the owner's looks at nothing at all.            *)
ReturnSeesTheMatch == Settled /\ ~lost.status => page.running = room.playing

=============================================================================

------------------------------ MODULE RomTransfer ------------------------------
(***************************************************************************)
(* Sharing the host's ROM with a guest (play.js).  The guest asks for it     *)
(* with rom-accepted; the host opens a data channel, in the lobby on a       *)
(* connection of its own that is negotiated over rom-signal, in a match on   *)
(* the connection the engine has.  The guest says on the channel how many    *)
(* bytes it has already, and the host sends the rest.  A transfer that       *)
(* stalls or whose channel closes is paused and asked for again, up to       *)
(* three times by itself and after that by the Retry button.                *)
(*                                                                         *)
(* One guest; a ROM is Pieces pieces <<rom, 1>>, <<rom, 2>>, ..., and all    *)
(* ROMs are of one size.  A channel is ordered and loses nothing while it is *)
(* up.  What the host sends on a channel is all in its queue at once, and    *)
(* backpressure that never ends is a queue that ends early.                 *)
(***************************************************************************)
EXTENDS Naturals, Sequences, SequencesExt

CONSTANTS
  Pieces,      (* the pieces of a ROM                                       *)
  Roms,        (* the ROMs the host may load                                *)
  MaxLinks,    (* bound: channels the host opens                            *)
  MaxTimers,   (* bound: resume timers armed at a time                      *)
  MaxClicks,   (* bound: clicks of guest and host, and lost connections     *)
  MaxRetries   (* the code has 3                                           *)

VARIABLES
  place,    (* in the lobby or in a match                                  *)
  host,     (* the host's page                                             *)
  guest,    (* the guest's page                                            *)
  link,     (* the channels the host has opened, in order                   *)
  wire,     (* what is under way through the server                        *)
  clicks,   (* how much of the bound is used                               *)
  seen      (* what happened that the properties tell apart                 *)

transferVars == <<place, host, guest, link, wire, clicks, seen>>

None == 0

(* sharing: _romSharingEnabled.  pc: the channel of _preGamePCs[guest].  dc:    *)
(* _romTransferDCs[guest].                                                  *)
Host == [sharing : BOOLEAN, rom : Roms, pc : 0..MaxLinks, dc : 0..MaxLinks]

(* bytes: _romTransferBytesReceived, in pieces.  header: the ROM named by the *)
(* header.  armed: the resume timers that have not fired; tracked: the last   *)
(* one is _romTransferResumeTimer.  pc: the channel of _preGamePC.            *)
Guest == [decided : BOOLEAN, sharing : BOOLEAN,
          state : {"idle", "resuming", "receiving", "paused", "complete"},
          chunks : Seq(Roms \X (1..Pieces)), bytes : Nat, header : Roms \cup {None},
          retries : Nat, dc : 0..MaxLinks, stall : BOOLEAN,
          armed : Seq({"giveUp", "again"}), tracked : BOOLEAN,
          pc : 0..MaxLinks, listens : BOOLEAN, rom : Seq(Roms \X (1..Pieces))]

(* A channel: offered, answered (a channel of a match is at once), up, down.  *)
(* closing: the guest's onclose is due; hears: the host's is.                 *)
Link == [stage : {"offered", "answered", "up", "down"}, queue : Seq(STRING \X Seq(Nat)),
         resume : 0..Pieces + 1, closing : BOOLEAN, hears : BOOLEAN]

TransferTypeOK ==
  /\ place \in {"lobby", "match"}
  /\ DOMAIN guest = {"decided", "sharing", "state", "chunks", "bytes", "header", "retries",
                     "dc", "stall", "armed", "tracked", "pc", "listens", "rom"}
  /\ guest.state \in {"idle", "resuming", "receiving", "paused", "complete"}
  /\ guest.bytes \in Nat /\ guest.retries \in Nat
  /\ host \in Host
  /\ \A l \in DOMAIN link : link[l].stage \in {"offered", "answered", "up", "down"}

Init ==
  /\ place \in {"lobby", "match"}
  /\ host = [sharing |-> TRUE, rom |-> CHOOSE r \in Roms : TRUE, pc |-> 0, dc |-> 0]
  /\ guest = [decided |-> FALSE, sharing |-> TRUE, state |-> "idle", chunks |-> <<>>,
              bytes |-> 0, header |-> None, retries |-> 0, dc |-> 0, stall |-> FALSE,
              armed |-> <<>>, tracked |-> FALSE, pc |-> 0, listens |-> FALSE, rom |-> <<>>]
  /\ link = <<>>
  /\ wire = [toHost |-> <<>>, toGuest |-> <<>>]
  /\ clicks = 0
  /\ seen = [waiting |-> 0, overlap |-> FALSE, changed |-> FALSE]

Now == [h |-> host, g |-> guest, k |-> link, w |-> wire, s |-> seen]
Becomes(n) ==
  /\ host' = n.h /\ guest' = n.g /\ link' = n.k /\ wire' = n.w /\ seen' = n.s
  /\ UNCHANGED place

Click == clicks < MaxClicks /\ clicks' = clicks + 1

-----------------------------------------------------------------------------
(* Closing, timers and requests                                             *)

(* close of a channel or of its connection: what is queued on it is lost.     *)
(* The end that closes gets its own onclose when the channel is closed, and   *)
(* may or may not when it is the connection; the other end always does.       *)
Drop(k, l, g, h) ==
  IF l = 0 \/ k[l].stage = "down" THEN k
  ELSE [k EXCEPT ![l] = [@ EXCEPT !.stage = "down", !.queue = <<>>, !.resume = 0,
                                  !.closing = g /\ k[l].stage = "up",
                                  !.hears = h /\ k[l].stage # "offered"]]

GuestCloses(n, l) == [n EXCEPT !.k = Drop(@, l, TRUE, TRUE)]

Arm(g, kind) == [g EXCEPT !.armed = Append(@, kind), !.tracked = TRUE]
Disarm(g) ==
  [g EXCEPT !.armed = IF g.tracked THEN SubSeq(@, 1, Len(@) - 1) ELSE @, !.tracked = FALSE]

(* A request that is not answered yet, or an answer that is still up. *)
Unsettled(n) == n.s.waiting > 0 \/ \E l \in DOMAIN n.k : n.k[l].stage # "down"

(* requestResumeTransfer: the handle of a timer that is still armed is lost.  *)
Request(n) ==
  [n EXCEPT !.g = Arm([@ EXCEPT !.state = "resuming"], "giveUp"),
            !.w.toHost = Append(@, <<"accepted">>),
            !.s.overlap = @ \/ Unsettled(n), !.s.waiting = @ + 1]

CanRequest == Len(guest.armed) < MaxTimers /\ seen.waiting < 2

(* cleanupPreGameConnections on the guest.  The connection it closes may      *)
(* still report that its channel has closed.                                 *)
GuestCleansUp(n) ==
  {[n EXCEPT !.g.pc = 0, !.g.listens = FALSE, !.k = Drop(@, n.g.pc, told, TRUE)] :
     told \in BOOLEAN}

Emptied(g) == [g EXCEPT !.chunks = <<>>, !.header = None, !.bytes = 0, !.retries = 0]

-----------------------------------------------------------------------------
(* The guest's clicks                                                        *)

(* acceptRomSharing.  In a match, when the engine's channel is open, the      *)
(* request goes over it and nothing times it.                               *)
Accept ==
  /\ Click
  /\ ~guest.decided /\ guest.sharing /\ guest.rom = <<>> /\ CanRequest
  /\ LET n == [Now EXCEPT !.g = [Emptied(@) EXCEPT !.decided = TRUE, !.state = "resuming"]] IN
     IF place = "lobby"
     THEN Becomes(Request([n EXCEPT !.g.listens = TRUE]))
     ELSE Becomes([n EXCEPT !.w.toHost = Append(@, <<"accepted">>),
                            !.s.overlap = @ \/ Unsettled(n), !.s.waiting = @ + 1])

(* cancelRomTransfer. *)
Cancelled(n) ==
  GuestCleansUp(LET c == GuestCloses(n, n.g.dc) IN
    [c EXCEPT !.g = [Disarm(Emptied(@)) EXCEPT !.state = "idle", !.dc = 0, !.stall = FALSE]])

Cancel ==
  /\ Click
  /\ guest.state \in {"resuming", "receiving", "paused"}
  /\ \E n \in Cancelled(Now) : Becomes(n)

(* retryRomTransfer: the button is there after a failure too. *)
Retry ==
  /\ Click
  /\ guest.decided /\ guest.state \in {"paused", "idle"} /\ CanRequest
  /\ Becomes(Request([Now EXCEPT !.g.retries = 0]))

-----------------------------------------------------------------------------
(* Opening a channel                                                         *)

(* onDataMessage on the host, startPreGameRomTransfer and startRomTransferTo. *)
HostSeesAccepted ==
  /\ wire.toHost # <<>> /\ Head(wire.toHost) = <<"accepted">> /\ Len(link) < MaxLinks
  /\ LET n == [Now EXCEPT !.w.toHost = Tail(@), !.s.waiting = @ - 1]
         l == Len(link) + 1
         new(stage) == [stage |-> stage, queue |-> <<>>, resume |-> 0,
                        closing |-> FALSE, hears |-> FALSE] IN
     IF ~host.sharing THEN Becomes(n)
     ELSE IF place = "lobby"
     THEN Becomes([n EXCEPT !.k = Append(@, new("offered")), !.h.pc = l, !.h.dc = l,
                            !.w.toGuest = Append(@, <<"offer", l>>)])
     ELSE Becomes([n EXCEPT !.k = Append(@, new("answered")), !.h.dc = l])
  /\ UNCHANGED clicks

(* variant: the connection there was stays open *)
KeepsConnection(n, l) == {[n EXCEPT !.g.pc = l]}

(* The guest's _romSignalHandler: an offer ends the connection there was.     *)
TakesOffer(n, l) ==
  {[n EXCEPT !.g.pc = l, !.k = Drop(@, n.g.pc, told, TRUE)] : told \in BOOLEAN}

GuestSeesOffer ==
  /\ wire.toGuest # <<>> /\ Head(wire.toGuest)[1] = "offer"
  /\ LET l == Head(wire.toGuest)[2]
         n == [Now EXCEPT !.w.toGuest = Tail(@)] IN
     IF ~guest.listens THEN Becomes(n)
     ELSE \E t \in TakesOffer(n, l) :
            Becomes([t EXCEPT !.w.toHost = Append(@, <<"answer", l>>)])
  /\ UNCHANGED clicks

(* The host's _romSignalHandler: the answer goes to the connection there is   *)
(* now, which one made for another offer does not survive.                   *)
HostSeesAnswer ==
  /\ wire.toHost # <<>> /\ Head(wire.toHost)[1] = "answer"
  /\ LET l == Head(wire.toHost)[2]
         n == [Now EXCEPT !.w.toHost = Tail(@)] IN
     Becomes(IF host.pc = 0 \/ link[host.pc].stage # "offered" THEN n
             ELSE IF host.pc = l THEN [n EXCEPT !.k[l].stage = "answered"]
             ELSE [n EXCEPT !.k[host.pc].stage = "down"])
  /\ UNCHANGED clicks

(* onExtraDataChannel: a transfer that was paused goes on. *)
TakesChannel(g, l) ==
  [(IF g.state \in {"resuming", "paused"} THEN Disarm(g) ELSE Emptied(g))
     EXCEPT !.state = "receiving", !.dc = l, !.stall = TRUE]

ChannelOpens(l) ==
  /\ link[l].stage = "answered"
  /\ place = "lobby" => guest.pc = l
  /\ IF ~guest.decided
     THEN Becomes([Now EXCEPT !.k = Drop([@ EXCEPT ![l].stage = "up"], l, FALSE, TRUE)])
     ELSE LET g == TakesChannel(guest, l) IN
          Becomes([Now EXCEPT !.g = g, !.k[l].stage = "up", !.k[l].resume = g.bytes + 1])
  /\ UNCHANGED clicks

(* sendRomOverChannel: the pieces of the ROM the host has now, and a header    *)
(* only before the first one.                                               *)
Sent(r, from, upTo) ==
  (IF from = 0 THEN << <<"header", <<r>> >> >> ELSE <<>>)
    \o [i \in 1..(upTo - from) |-> <<"piece", <<r, from + i>> >>]
    \o (IF upTo = Pieces THEN << <<"complete", <<>> >> >> ELSE <<>>)

HostSends(l) ==
  /\ link[l].resume > 0
  /\ LET from == link[l].resume - 1 IN
     \E upTo \in (IF from < Pieces THEN from..Pieces ELSE {Pieces}) :
       Becomes([Now EXCEPT !.k[l].resume = 0,
         !.k[l].queue = @ \o Sent(host.rom, from, upTo)])
  /\ UNCHANGED clicks

-----------------------------------------------------------------------------
(* Receiving                                                                *)

(* finishRomTransfer and afterRomTransferComplete: only the size is tested;    *)
(* when it is wrong the count and the header stay.                           *)
Finished(n) ==
  IF n.g.header # None /\ Len(n.g.chunks) # Pieces
  THEN {[n EXCEPT !.g = [@ EXCEPT !.state = "idle", !.chunks = <<>>, !.stall = FALSE]]}
  ELSE GuestCleansUp([n EXCEPT !.g = [@ EXCEPT !.state = "complete", !.rom = n.g.chunks,
                                               !.chunks = <<>>, !.dc = 0, !.stall = FALSE]])

(* The messages of any channel that is up go into the same pieces.            *)
Received(n, l, m) ==
  CASE m[1] = "header" ->
         LET other == n.g.header # None /\ n.g.header # m[2][1] IN
         {[n EXCEPT !.g = [@ EXCEPT !.header = m[2][1],
                             !.chunks = IF other THEN <<>> ELSE @,
                             !.bytes = IF other THEN 0 ELSE @]]}
    [] m[1] = "piece" ->
         LET g == [n.g EXCEPT !.chunks = Append(@, m[2]), !.bytes = @ + 1] IN
         IF g.header # None /\ g.bytes > Pieces
         THEN Cancelled(GuestCloses([n EXCEPT !.g = g], l))
         ELSE {[n EXCEPT !.g = [g EXCEPT !.stall = TRUE]]}
    [] m[1] = "complete" -> Finished(n)

Receive(l) ==
  /\ link[l].queue # <<>>
  /\ LET n == [Now EXCEPT !.k[l].queue = Tail(@)] IN
     \E r \in Received(n, l, Head(link[l].queue)) : Becomes(r)
  /\ UNCHANGED clicks

(* channel.onclose of any channel, while something is received. *)
ChannelCloses(l) ==
  /\ link[l].closing
  /\ LET n == [Now EXCEPT !.k[l].closing = FALSE]
         g == [guest EXCEPT !.dc = 0, !.stall = FALSE, !.retries = @ + 1, !.state = "paused"] IN
     IF guest.state # "receiving" THEN Becomes(n)
     ELSE IF g.retries <= MaxRetries /\ g.bytes > 0
     THEN Len(g.armed) < MaxTimers /\ Becomes([n EXCEPT !.g = Arm(g, "again")])
     ELSE Becomes([n EXCEPT !.g = g])
  /\ UNCHANGED clicks

(* dc.onclose on the host, of any channel: the last one made for the guest is    *)
(* forgotten, and the connection there is now is closed.                      *)
HostSeesClose(l) ==
  /\ link[l].hears
  /\ LET n == [Now EXCEPT !.k[l].hears = FALSE, !.h.dc = 0] IN
     Becomes(IF place = "match" THEN n
             ELSE [n EXCEPT !.h.pc = 0, !.k = Drop(@, n.h.pc, TRUE, FALSE)])
  /\ UNCHANGED clicks

(* onStallTimeout. *)
StallEnds(n) == GuestCloses([n EXCEPT !.g.stall = FALSE], n.g.dc)

(* Ten seconds without a piece. *)
Stalls ==
  /\ guest.stall
  /\ \A l \in DOMAIN link : link[l].queue = <<>> /\ link[l].resume = 0
  /\ Becomes(IF guest.state = "receiving" THEN StallEnds(Now) ELSE [Now EXCEPT !.g.stall = FALSE])
  /\ UNCHANGED clicks

(* The answer to a request has not come in fifteen seconds. *)
GivesUp(n) ==
  LET g == [n.g EXCEPT !.state = "paused", !.retries = @ + 1] IN
  [n EXCEPT !.g = IF g.retries <= MaxRetries THEN Arm(g, "again") ELSE g]

(* A resume timer fires, the last one or one whose handle was lost: it only   *)
(* looks at the state.                                                      *)
TimerFires(i) ==
  /\ LET n == [Now EXCEPT !.g.armed = RemoveAt(@, i),
                          !.g.tracked = @ /\ i < Len(guest.armed)] IN
     CASE guest.armed[i] = "giveUp" /\ guest.state = "resuming" -> Becomes(GivesUp(n))
       [] guest.armed[i] = "again" /\ guest.state = "paused" ->
            seen.waiting < 2 /\ Becomes(Request(n))
       [] OTHER -> Becomes(n)
  /\ UNCHANGED clicks

-----------------------------------------------------------------------------
(* Sharing on and off, another ROM                                           *)

(* toggleRomSharing: the server tells everybody.  Off closes the channel that   *)
(* was last made for the guest, and the connections of the lobby.             *)
Toggle ==
  /\ Click
  /\ LET on == ~host.sharing
         told == [Now EXCEPT !.w = [toHost |-> Append(@.toHost, <<"sharing", on>>),
                                    toGuest |-> Append(@.toGuest, <<"sharing", on>>)]] IN
     /\ ~\E i \in DOMAIN wire.toHost : wire.toHost[i][1] = "sharing"
     /\ IF on THEN Becomes(told)
        ELSE \E hears \in (IF place = "match" THEN {TRUE} ELSE BOOLEAN) :
               Becomes([told EXCEPT !.h.dc = 0, !.h.pc = 0,
                          !.k = Drop(Drop(@, host.dc, TRUE, hears), host.pc, TRUE, FALSE)])

HostSeesSharing ==
  /\ wire.toHost # <<>> /\ Head(wire.toHost)[1] = "sharing"
  /\ LET on == Head(wire.toHost)[2]
         n == [Now EXCEPT !.w.toHost = Tail(@), !.h.sharing = on] IN
     Becomes(IF host.sharing /\ ~on
             THEN [n EXCEPT !.h.pc = 0, !.k = Drop(@, n.h.pc, TRUE, FALSE)] ELSE n)
  /\ UNCHANGED clicks

(* onRomSharingUpdated on the guest: off pauses, on goes on. *)
GuestSeesSharing ==
  /\ wire.toGuest # <<>> /\ Head(wire.toGuest)[1] = "sharing"
  /\ LET on == Head(wire.toGuest)[2]
         n == [Now EXCEPT !.w.toGuest = Tail(@), !.g.sharing = on] IN
     CASE ~on /\ guest.sharing ->
            \E c \in GuestCleansUp(
                 IF guest.state \notin {"receiving", "resuming"} THEN n
                 ELSE [GuestCloses(n, guest.dc) EXCEPT
                         !.g = [Disarm(@) EXCEPT !.state = "paused", !.dc = 0,
                                                 !.stall = FALSE]]) :
              Becomes(c)
       [] on /\ ~guest.sharing /\ guest.decided /\ guest.rom = <<>>
             /\ (guest.state = "idle" \/ (guest.state = "paused" /\ guest.bytes > 0)) ->
            CanRequest /\ Becomes(Request(n))
       [] OTHER -> Becomes(n)
  /\ UNCHANGED clicks

(* The host loads another ROM. *)
HostChangesRom ==
  /\ Click
  /\ \E r \in Roms \ {host.rom} :
       Becomes([Now EXCEPT !.h.rom = r, !.s.changed = TRUE,
                           !.w.toGuest = Append(@, <<"other rom">>)])

(* handleHostRomChanged: resetTransferForHostRomChange, and clearLoadedRom    *)
(* when the guest had the former one.                                       *)
GuestSeesOtherRom ==
  /\ wire.toGuest # <<>> /\ Head(wire.toGuest) = <<"other rom">>
  /\ LET n == GuestCloses([Now EXCEPT !.w.toGuest = Tail(@)], guest.dc) IN
     \E c \in GuestCleansUp([n EXCEPT
                !.g = [Disarm(Emptied(@)) EXCEPT !.state = "idle", !.dc = 0, !.stall = FALSE,
                         !.rom = <<>>, !.decided = @ /\ ~guest.sharing]]) :
       Becomes(c)
  /\ UNCHANGED clicks

(* A channel is lost: both ends hear of it. *)
LinkLost(l) ==
  /\ Click
  /\ link[l].stage = "up"
  /\ Becomes([Now EXCEPT !.k = Drop(@, l, TRUE, TRUE)])

-----------------------------------------------------------------------------
Next ==
  \/ Accept \/ Cancel \/ Retry
  \/ HostSeesAccepted \/ GuestSeesOffer \/ HostSeesAnswer
  \/ Stalls \/ Toggle \/ HostSeesSharing \/ GuestSeesSharing
  \/ HostChangesRom \/ GuestSeesOtherRom
  \/ \E i \in DOMAIN guest.armed : TimerFires(i)
  \/ \E l \in DOMAIN link :
       ChannelOpens(l) \/ HostSends(l) \/ Receive(l) \/ ChannelCloses(l) \/ HostSeesClose(l)
         \/ LinkLost(l)

Spec == Init /\ [][Next]_transferVars

-----------------------------------------------------------------------------
(* Properties                                                               *)

Whole(r) == [i \in 1..Pieces |-> <<r, i>>]

(* finishRomTransfer takes the bytes to be those of the host's ROM because    *)
(* their number is right.  In the lobby, or when no request was made before   *)
(* the last was answered, they are: however transfers are interrupted,        *)
(* paused, resumed and switched off, as long as the host keeps its ROM.       *)
RomIsWhole ==
  guest.rom # <<>> /\ ~seen.changed /\ (place = "lobby" \/ ~seen.overlap) =>
    guest.rom = Whole(host.rom)

(* A guest in the lobby that waits for an answer has a timer that ends it.    *)
WaitingEnds ==
  place = "lobby" /\ guest.state = "resuming" =>
    \E i \in DOMAIN guest.armed : guest.armed[i] = "giveUp"

TransferSound == RomIsWhole /\ WaitingEnds

(* Broken by the code: two channels of one match feed the same pieces when a  *)
(* request that timed out is answered after all.                            *)
BytesAreVerified == guest.rom # <<>> /\ ~seen.changed => guest.rom = Whole(host.rom)

=============================================================================

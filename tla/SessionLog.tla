------------------------------- MODULE SessionLog -------------------------------
(***************************************************************************)
(* The log a player's page keeps of a match and sends to the server in        *)
(* pieces (netplay-rollback.js, shared.js; on the server signaling.py, app.py *)
(* and db.py).  Lines have numbers and wait in a ring.  A flush carries the   *)
(* lines past the last number the server has acknowledged, over the socket,   *)
(* or over HTTP when there is none, when two flushes went unanswered, and     *)
(* when the page is hidden.  The server appends what is new to it, one flush  *)
(* at a time, and turns away what comes when one runs and one waits.  It keeps *)
(* the newest lines of a flush that is too large, stores a flush in chunks,    *)
(* and deletes the oldest chunks of a match when they exceed their budget.     *)
(*                                                                         *)
(* A line is its number in its ring; the ring is new (another epoch) after    *)
(* every stop and reload.  acked and last count lines: -1 in the code is 0.   *)
(* Limits are bytes in the code and lines here, as if all lines were of a     *)
(* length.  The audit of the inputs rides along under the same rules.         *)
(***************************************************************************)
EXTENDS Naturals, Sequences, FiniteSets

CONSTANTS
  Ring,        (* SYNC_LOG_MAX: lines the ring holds                         *)
  FlushMax,    (* SYNC_LOG_FLUSH_MAX_ENTRIES                                *)
  HiddenMax,   (* lines that fit a keepalive request                         *)
  TakeMax,     (* lines of a flush the server keeps: _SESSION_LOG_MAX        *)
  ChunkMax,    (* _SESSION_LOG_CHUNK_MAX                                    *)
  Cap,         (* _SESSION_LOG_CHUNK_CAP                                    *)
  MaxLines,    (* bound: lines of one ring                                  *)
  MaxMatches,  (* bound: matches                                            *)
  MaxFlushes,  (* bound: flushes                                            *)
  MaxTrouble   (* bound: refusals, failures, lost sockets and reloads        *)

VARIABLES
  client,    (* the page                                                   *)
  roomMatch, (* match_id of the room                                        *)
  rows,      (* match |-> what is stored                                    *)
  appends,   (* match |-> flushes that wait for their turn                    *)
  sock,      (* what is under way on the socket                             *)
  http,      (* what is under way over HTTP                                 *)
  past       (* what the properties have to know                            *)

logVars == <<client, roomMatch, rows, appends, sock, http, past>>

Matches == 1..MaxMatches
Lower(a, b) == IF a < b THEN a ELSE b
Higher(a, b) == IF a < b THEN b ELSE a
Minus(a, b) == IF a > b THEN a - b ELSE 0

(* next: seq.  match: KNState.matchId.  cached: _cachedMatchId.  running: the   *)
(* interval and the handlers are installed.  leaked: an interval that nothing  *)
(* clears, for a start installs two.  critical: _criticalFlushTimer.          *)
(* fails: _socketFlushFails.  timers: flushes whose five seconds run.          *)
Fresh(epoch) == [epoch |-> epoch, next |-> 0, acked |-> 0, match |-> 0, cached |-> 0,
                 running |-> FALSE, leaked |-> FALSE, critical |-> FALSE, fails |-> 0, timers |-> {}]

LogTypeOK ==
  /\ client.next \in 0..MaxLines /\ client.acked \in 0..client.next
  /\ client.match \in 0..MaxMatches /\ client.cached \in 0..MaxMatches
  /\ roomMatch \in 0..MaxMatches
  /\ \A k \in Matches : Len(appends[k]) <= 2 /\ rows[k].last \in 0..MaxLines
  /\ sock.on \in BOOLEAN
  /\ past.flushes \in 0..MaxFlushes /\ past.trouble \in 0..MaxTrouble

Init ==
  /\ client = Fresh(1)
  /\ roomMatch = 0
  /\ rows = [k \in Matches |-> [epoch |-> 0, last |-> 0, size |-> 0, chunks |-> {}]]
  /\ appends = [k \in Matches |-> <<>>]
  /\ sock = [on |-> TRUE, up |-> <<>>, down |-> <<>>]
  /\ http = [up |-> {}, down |-> {}]
  /\ past = [flushes |-> 0, trouble |-> 0, matches |-> 0,
             reloads |-> FALSE, last |-> <<>>, left |-> {}, gone |-> {}]

Trouble == past.trouble < MaxTrouble
Troubled == [past EXCEPT !.trouble = @ + 1]

-----------------------------------------------------------------------------
(* The page                                                                 *)

(* entriesAfter: the oldest that were not acknowledged and are still there.    *)
EntriesAfter(c) ==
  LET from == Higher(c.acked, Minus(c.next, Ring)) IN
  [from |-> from, to |-> Lower(from + FlushMax, c.next)]

(* _buildFlushPayload.  since: from, unless lines are left out further on.     *)
Payload(c, via) ==
  LET e == EntriesAfter(c) IN
  [id |-> past.flushes + 1, epoch |-> c.epoch, since |-> e.from, from |-> e.from, to |-> e.to, via |-> via,
   match |-> IF c.cached # 0 THEN c.cached ELSE c.match]

(* What stop() leaves of the page c: everything from the beginning.           *)
Stopped(c) == [Fresh(c.epoch + 1) EXCEPT !.timers = c.timers, !.leaked = c.leaked]

(* _flushSyncLog of the page c; the last one is that of stop().               *)
FlushThen(c, last) ==
  LET p == Payload(c, IF sock.on THEN "socket" ELSE "http")
      After(d) == IF last THEN Stopped(d) ELSE d
  IN
  IF p.match = 0 THEN client' = After(c) /\ UNCHANGED <<sock, http, past>>
  ELSE /\ past.flushes < MaxFlushes
       /\ past' = [past EXCEPT !.flushes = @ + 1, !.last = IF last THEN <<p>> ELSE @]
       /\ IF sock.on
          THEN /\ client' = After([c EXCEPT !.timers = @ \cup {p}])
               /\ sock' = [sock EXCEPT !.up = Append(@, p)]
               /\ UNCHANGED http
          ELSE client' = After(c) /\ http' = [http EXCEPT !.up = @ \cup {p}] /\ UNCHANGED sock

FlushAs(c) == FlushThen(c, FALSE)

(* _syncLog, of a line that is not critical. *)
Log ==
  /\ client.next < MaxLines
  /\ client' = [client EXCEPT !.next = @ + 1]
  /\ UNCHANGED <<roomMatch, rows, appends, sock, http, past>>

(* _flushSyncLogCritical: at once, or when three seconds have passed since the *)
(* one before; what comes in between waits for the same timer.               *)
LogCritical ==
  /\ client.next < MaxLines
  /\ LET c == [client EXCEPT !.next = @ + 1] IN
     \/ ~client.critical /\ FlushAs(c)
     \/ client' = [c EXCEPT !.critical = TRUE] /\ UNCHANGED <<sock, http, past>>
  /\ UNCHANGED <<roomMatch, rows, appends>>

(* The interval, the early flush and the critical timer. *)
Flush ==
  /\ client.running \/ client.leaked \/ client.critical
  /\ FlushAs([client EXCEPT !.critical = FALSE])
  /\ UNCHANGED <<roomMatch, rows, appends>>

(* _capPayloadEntriesForKeepalive: the newest lines that fit. *)
NewestThatFit(p) == [p EXCEPT !.from = Higher(@, Minus(p.to, HiddenMax))]

(* pagehide and visibilitychange. *)
Hidden ==
  /\ client.running /\ past.flushes < MaxFlushes
  /\ http' = [http EXCEPT !.up = @ \cup {NewestThatFit(Payload(client, "http"))}]
  /\ past' = [past EXCEPT !.flushes = @ + 1]
  /\ UNCHANGED <<client, roomMatch, rows, appends, sock>>

(* variant: an acknowledgement counts whichever ring it is about *)
AckAnyRing(c, p, last) == IF last > c.acked THEN [c EXCEPT !.acked = Lower(last, c.next)] ELSE c

(* _ackSyncLogFlush: 0 stands for an answer without a number. *)
Ack(c, p, last) ==
  IF p.epoch = c.epoch /\ last > c.acked THEN [c EXCEPT !.acked = last] ELSE c

SocketAck ==
  /\ sock.on /\ sock.down # <<>>
  /\ LET a == Head(sock.down) IN
     client' = Ack([client EXCEPT !.fails = 0, !.timers = @ \ {a[1]}], a[1], a[2])
  /\ sock' = [sock EXCEPT !.down = Tail(@)]
  /\ UNCHANGED <<roomMatch, rows, appends, http, past>>

HttpAck(a) ==
  /\ a \in http.down
  /\ client' = Ack(client, a[1], a[2])
  /\ http' = [http EXCEPT !.down = @ \ {a}]
  /\ UNCHANGED <<roomMatch, rows, appends, sock, past>>

(* Five seconds without an answer: the second time the same lines go by HTTP,  *)
(* for all the page knows a second time.                                     *)
AckTimesOut(p) ==
  /\ p \in client.timers
  /\ client' = [client EXCEPT !.timers = @ \ {p}, !.fails = Lower(@ + 1, 2)]
  /\ http' = IF client.fails >= 1
             THEN [http EXCEPT !.up = @ \cup {[p EXCEPT !.via = "http"]}] ELSE http
  /\ UNCHANGED <<roomMatch, rows, appends, sock, past>>

(* game-started is there. *)
Begins ==
  /\ roomMatch # 0 /\ client.match = 0
  /\ client' = [client EXCEPT !.match = roomMatch]
  /\ UNCHANGED <<roomMatch, rows, appends, sock, http, past>>

(* startLockstep. *)
Runs ==
  /\ client.match # 0 /\ ~client.running
  /\ client' = [client EXCEPT !.running = TRUE, !.leaked = TRUE, !.cached = client.match, !.acked = 0,
                              !.fails = 0]
  /\ UNCHANGED <<roomMatch, rows, appends, sock, http, past>>

(* stop: a last flush, and everything from the beginning.  The page also stops *)
(* by itself when nobody answers its end of the match.                       *)
Stops ==
  /\ client.match # 0 /\ roomMatch # client.match
  /\ FlushThen(client, TRUE)
  /\ UNCHANGED <<roomMatch, rows, appends>>

(* Another page for the same player: the timers are gone, a request that was    *)
(* sent is not.                                                             *)
Reload ==
  /\ Trouble /\ client.match # 0
  /\ client' = Fresh(client.epoch + 1)
  /\ sock' = [sock EXCEPT !.up = <<>>, !.down = <<>>]
  /\ http' = [http EXCEPT !.down = {}]
  /\ appends' = [k \in Matches |-> [i \in DOMAIN appends[k] |->
                                      [appends[k][i] EXCEPT !.via = "gone"]]]
  /\ past' = [Troubled EXCEPT !.reloads = TRUE]
  /\ UNCHANGED <<roomMatch, rows>>

-----------------------------------------------------------------------------
(* The socket                                                               *)

SocketDrops ==
  /\ Trouble /\ sock.on
  /\ sock' = [on |-> FALSE, up |-> <<>>, down |-> <<>>]
  /\ appends' = [k \in Matches |-> [i \in DOMAIN appends[k] |->
       IF appends[k][i].via = "socket" THEN [appends[k][i] EXCEPT !.via = "gone"]
       ELSE appends[k][i]]]
  /\ past' = Troubled
  /\ UNCHANGED <<client, roomMatch, rows, http>>

SocketReturns ==
  /\ ~sock.on
  /\ sock' = [sock EXCEPT !.on = TRUE]
  /\ UNCHANGED <<client, roomMatch, rows, appends, http, past>>

-----------------------------------------------------------------------------
(* The server                                                               *)

RoomStarts ==
  /\ roomMatch = 0 /\ past.matches < MaxMatches
  /\ roomMatch' = past.matches + 1
  /\ past' = [past EXCEPT !.matches = @ + 1]
  /\ UNCHANGED <<client, rows, appends, sock, http>>

(* _end_game_locked: the room has no match by the time it tells the pages. *)
RoomEnds ==
  /\ roomMatch # 0
  /\ roomMatch' = 0
  /\ UNCHANGED <<client, rows, appends, sock, http, past>>

(* session_log_busy, _acquire_append_lock. *)
Busy(k) == Len(appends[k]) >= 2

(* session_log_handler: turned away at the limit of the rate, when the room     *)
(* plays another match or none, and when two are at it.                      *)
SocketTakes ==
  /\ sock.on /\ sock.up # <<>>
  /\ LET p == Head(sock.up)
         rest == [sock EXCEPT !.up = Tail(@)]
         refused == [rest EXCEPT !.down = Append(@, <<p, 0>>)] IN
     \/ /\ roomMatch = p.match /\ ~Busy(p.match)
        /\ appends' = [appends EXCEPT ![p.match] = Append(@, p)]
        /\ sock' = rest /\ UNCHANGED past
     \/ /\ roomMatch # p.match \/ Busy(p.match)
        /\ sock' = refused /\ UNCHANGED <<appends, past>>
     \/ Trouble /\ sock' = refused /\ past' = Troubled /\ UNCHANGED appends
  /\ UNCHANGED <<client, roomMatch, rows, http>>

(* session_log_http: for half an hour after the end of a match, too. *)
HttpTakes(p) ==
  /\ p \in http.up
  /\ http' = [http EXCEPT !.up = @ \ {p}]
  /\ \/ /\ ~Busy(p.match)
        /\ appends' = [appends EXCEPT ![p.match] = Append(@, p)]
        /\ UNCHANGED past
     \/ Busy(p.match) /\ UNCHANGED <<appends, past>>
     \/ Trouble /\ past' = Troubled /\ UNCHANGED appends
  /\ UNCHANGED <<client, roomMatch, rows, sock>>

(* _session_log_entries: the newest lines that fit. *)
Taken(p) == [p EXCEPT !.from = Higher(@, Minus(p.to, TakeMax))]

(* _split_entries: the lines of p from one on.  at: lines that were stored      *)
(* before, whether they are still there or not.                              *)
Chunks(p, from, size) ==
  {[epoch |-> p.epoch, from |-> n, to |-> Lower(n + ChunkMax, p.to), at |-> size + (n - from)] :
     n \in {m \in from..(p.to - 1) : (m - from) % ChunkMax = 0}}

(* _append_session_log_locked and _entries_past: a flush of another ring is     *)
(* new from its first line.                                                 *)
Appended(row, p) ==
  LET last == IF p.epoch = row.epoch THEN row.last ELSE 0
      from == Higher(p.from, last) IN
  [epoch |-> p.epoch, last |-> Higher(last, IF p.to > p.from THEN p.to ELSE 0),
   size |-> row.size + Minus(p.to, from), chunks |-> row.chunks \cup Chunks(p, from, row.size)]

(* variant: the newest chunks are deleted *)
CappedFromTheEnd(row) == [row EXCEPT !.chunks = {c \in @ : c.at < Cap}]

(* _chunk_cap_statement: a chunk stays if it and all newer ones fit. *)
Capped(row) == [row EXCEPT !.chunks = {c \in @ : row.size - c.at <= Cap}]

LinesOf(chunks) == UNION {{<<c.epoch, n>> : n \in c.from..(c.to - 1)} : c \in chunks}

(* What the stored flush p has left out. *)
LeftOut(p) == {<<p.epoch, n>> : n \in p.since..(Taken(p).from - 1)}

Store(k) ==
  /\ appends[k] # <<>>
  /\ appends' = [appends EXCEPT ![k] = Tail(@)]
  /\ LET p == Head(appends[k])
         all == Appended(rows[k], Taken(p))
         row == Capped(all) IN
     \/ /\ rows' = [rows EXCEPT ![k] = row]
        /\ sock' = IF p.via = "socket" THEN [sock EXCEPT !.down = Append(@, <<p, row.last>>)]
                   ELSE sock
        /\ http' = IF p.via = "http" THEN [http EXCEPT !.down = @ \cup {<<p, row.last>>}]
                   ELSE http
        /\ past' = [past EXCEPT !.left = @ \cup LeftOut(p),
                               !.gone = @ \cup (LinesOf(all.chunks) \ LinesOf(row.chunks))]
     \/ Trouble /\ past' = Troubled /\ UNCHANGED <<rows, sock, http>>
  /\ UNCHANGED <<client, roomMatch>>

-----------------------------------------------------------------------------
Next ==
  \/ Log \/ LogCritical \/ Flush \/ Hidden \/ SocketAck
  \/ Begins \/ Runs \/ Stops \/ Reload \/ SocketDrops \/ SocketReturns
  \/ RoomStarts \/ RoomEnds \/ SocketTakes
  \/ \E a \in http.down : HttpAck(a)
  \/ \E p \in client.timers : AckTimesOut(p)
  \/ \E p \in http.up : HttpTakes(p)
  \/ \E k \in Matches : Store(k)

Spec == Init /\ [][Next]_logVars

-----------------------------------------------------------------------------
(* Properties                                                               *)

Stored == UNION {LinesOf(rows[k].chunks) : k \in Matches}

(* Whatever is refused, answered late, sent twice or sent two ways, across      *)
(* matches: a line the page counts as acknowledged and still holds was stored.  *)
(* Exception: it was left out of the flush that was, which had more lines than  *)
(* fit the request of a hidden page, or than the server keeps of one.          *)
AckedIsStored ==
  \A n \in Minus(client.next, Ring)..(client.next - 1) :
    n < client.acked => <<client.epoch, n>> \in Stored \cup past.gone \cup past.left

(* What is stored of a match has a line once and in order.  Exception: another  *)
(* page of the same player came into the match.                             *)
StoredOnce ==
  ~past.reloads =>
    \A k \in Matches : \A c, d \in rows[k].chunks :
      c # d => /\ c.epoch = d.epoch
               /\ IF c.at < d.at THEN c.to <= d.from ELSE d.to <= c.from

(* The budget costs only old lines: of all lines that were ever stored of a     *)
(* match, the newest are there, as many as fit beside one chunk.             *)
NewestStay ==
  \A k \in Matches : \A x \in Minus(rows[k].size, Cap - ChunkMax)..(rows[k].size - 1) :
    \E c \in rows[k].chunks : c.at <= x /\ x < c.at + (c.to - c.from)

LogSound == AckedIsStored /\ StoredOnce /\ NewestStay

(* Broken by the code: the acknowledgement of a flush's newest lines covers the  *)
(* older ones that were left out.                                            *)
AckedIsKept ==
  \A n \in Minus(client.next, Ring)..(client.next - 1) :
    n < client.acked => <<client.epoch, n>> \in Stored \cup past.gone

(* Broken by the code: the last flush of a match comes when the room has none,   *)
(* is turned away with an answer, and so is not sent over HTTP either.        *)
LastLinesArrive ==
  past.last # <<>> /\ past.trouble = 0 /\ client.timers = {} /\ sock.up = <<>>
    /\ http.up = {} /\ (\A k \in Matches : appends[k] = <<>>) =>
    LET p == past.last[1] IN \A n \in p.from..(p.to - 1) : <<p.epoch, n>> \in Stored

=============================================================================

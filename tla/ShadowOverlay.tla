---------------------------- MODULE ShadowOverlay ----------------------------
(***************************************************************************)
(* The shadow emulator as a picture (netplay-rollback.js and the worker     *)
(* rollback-shadow-worker.js): a second core in a worker follows the match  *)
(* and its frames cover the live canvas while the main core replays.  The   *)
(* main thread counts the steps it has posted, learns from their answers    *)
(* whether the worker paints, shows the overlay when it does and asks for a *)
(* first paint (a prewarm) when it does not, hides it some time after the   *)
(* replay, and loads the corrected state into the worker when nothing       *)
(* covers the game.                                                        *)
(*                                                                         *)
(* Timers fire at any time after they were set, and a deadline may have     *)
(* passed at any time.  queue holds what the worker has been sent and not   *)
(* yet answered, in order: an answer is both computed and delivered when    *)
(* the oldest entry is taken.  The frames' pixels are one of: nothing new,  *)
(* black, good.  The options are those of shadowFrameBlit=1.               *)
(***************************************************************************)
EXTENDS Naturals, Sequences

CONSTANTS
  MaxInFlight,  (* RB_SHADOW_MAX_IN_FLIGHT                                  *)
  MaxPosts,     (* bound: messages posted to the worker                     *)
  MaxStarts     (* bound: workers started                                   *)

VARIABLES
  shadow,    (* worker, the unanswered messages, steps in flight, numbers   *)
  overlay,   (* what covers the game, and the timers that end it            *)
  resync,    (* a corrected state owed to the worker                        *)
  replaying  (* the main core is between the start and the end of a replay  *)

shadowVars == <<shadow, overlay, resync, replaying>>

Kinds == {"init", "normal", "raf", "prewarm", "resync", "resync-split"}
Steps == {"normal", "raf", "prewarm"}

(* The state of the three records, as one: every handler maps s to a new s. *)
State == [sh : [worker : {"off", "booting", "ready", "failed"},
                queue : Seq([kind : Kinds, seq : 0..MaxPosts]),
                inFlight : Nat, seq : 0..MaxPosts, starts : 0..MaxStarts],
          ov : [visible : BOOLEAN, liveHidden : BOOLEAN, frozen : BOOLEAN,
                hide : {"none", "hold", "fade"}, prewarm : 0..MaxPosts,
                paint : {"none", "black", "good"},
                raf : BOOLEAN, rafInFlight : BOOLEAN],
          rs : [owed : BOOLEAN, timer : BOOLEAN]]

ShadowTypeOK ==
  /\ [sh |-> shadow, ov |-> overlay, rs |-> resync] \in State
  /\ replaying \in BOOLEAN

Unshown == [visible |-> FALSE, liveHidden |-> FALSE, frozen |-> FALSE, hide |-> "none",
            prewarm |-> 0, paint |-> "none", raf |-> FALSE, rafInFlight |-> FALSE]

Init ==
  /\ shadow = [worker |-> "off", queue |-> <<>>, inFlight |-> 0, seq |-> 0, starts |-> 0]
  /\ overlay = Unshown
  /\ resync = [owed |-> FALSE, timer |-> FALSE]
  /\ replaying = FALSE

Now == [sh |-> shadow, ov |-> overlay, rs |-> resync]
Becomes(s) == /\ shadow' = s.sh
              /\ overlay' = s.ov
              /\ resync' = s.rs

Ready(s) == s.sh.worker = "ready"

-----------------------------------------------------------------------------
(* Messages to the worker                                                   *)

CanPost(s) == s.sh.seq < MaxPosts

Post(s, kind) ==
  [s EXCEPT !.sh.seq = @ + 1,
            !.sh.queue = Append(@, [kind |-> kind, seq |-> s.sh.seq + 1])]

(* _shadowPostStep: at most MaxInFlight steps unless forced; the sequence   *)
(* number of the step is the new sh.seq.                                   *)
Posts(s, force) == Ready(s) /\ (force \/ s.sh.inFlight < MaxInFlight) /\ CanPost(s)

PostStep(s, kind) == [Post(s, kind) EXCEPT !.sh.inFlight = @ + 1]

(* _shadowSendState: the split state of the engine, or the whole one.       *)
SendState(s) ==
  IF Ready(s) /\ CanPost(s)
  THEN {Post(s, "resync-split"), Post(s, "resync")}
  ELSE {s}

(* _shadowIsOverlayCovering: not once the hold of a hide has run out.       *)
Covering(s) ==
  IF ~s.ov.visible THEN {FALSE} ELSE IF s.ov.hide # "none" THEN BOOLEAN ELSE {TRUE}

(* _shadowScheduleResync: later while the overlay covers the game, not at   *)
(* all soon after another, else now or when the timer fires.               *)
ScheduleResync(s) ==
  IF ~Ready(s) THEN {s}
  ELSE UNION {IF c THEN {[s EXCEPT !.rs.owed = TRUE]}
              ELSE {s, [s EXCEPT !.rs.timer = TRUE]} \cup (IF s.rs.timer THEN {} ELSE SendState(s))
              : c \in Covering(s)}

-----------------------------------------------------------------------------
(* Hiding, stopping, starting                                               *)

Uncovered(ov) ==
  [ov EXCEPT !.visible = FALSE, !.liveHidden = FALSE, !.hide = "none", !.prewarm = 0,
             !.raf = FALSE, !.rafInFlight = FALSE]

(* variant: a resync owed meanwhile is not scheduled *)
ForgetsOwed(s) == {[s EXCEPT !.ov = Uncovered(@)]}

(* _shadowDoHideOverlay *)
DoHide(s) ==
  LET t == [s EXCEPT !.ov = Uncovered(@)] IN
  IF t.rs.owed THEN ScheduleResync([t EXCEPT !.rs.owed = FALSE]) ELSE {t}

(* _shadowHideOverlay() of _hideRollbackVisualFreeze: when the hold is over *)
(* (at once, if it has run out already) the overlay fades or goes.         *)
Hide(s) ==
  LET t == [s EXCEPT !.ov.frozen = FALSE] IN
  IF ~t.ov.visible THEN {t}
  ELSE {[t EXCEPT !.ov.hide = "hold"], [t EXCEPT !.ov.hide = "fade"]} \cup DoHide(t)

(* _shadowStop, and _shadowDisable, after which no worker is started.       *)
Stop(s, worker) ==
  [s EXCEPT !.sh.worker = worker, !.sh.queue = <<>>, !.sh.inFlight = 0,
            !.ov = [Uncovered(@) EXCEPT !.paint = "none"],
            !.rs = [owed |-> FALSE, timer |-> FALSE]]

(* _shadowMaybeStart: not possible here (disabled), not yet, or the worker  *)
(* is sent the ROM and a state.                                            *)
MaybeStart(s) ==
  IF s.sh.worker # "off" \/ s.sh.starts = MaxStarts \/ ~CanPost(s) THEN {s}
  ELSE {s, Stop(s, "failed"),
        [Post(s, "init") EXCEPT !.sh.worker = "booting", !.sh.starts = @ + 1]}

-----------------------------------------------------------------------------
(* Showing                                                                  *)

(* _shadowRevealOverlay, with _shadowStartRafPump                           *)
Reveal(s) ==
  [s EXCEPT !.ov.visible = TRUE, !.ov.liveHidden = TRUE, !.ov.frozen = TRUE,
            !.ov.hide = "none", !.ov.raf = TRUE]

(* _shadowRequestPrewarm: one forced step whose answer may show the overlay *)
RequestPrewarm(s) ==
  LET t == [s EXCEPT !.ov.prewarm = 0] IN
  IF Posts(t, TRUE)
  THEN [PostStep(t, "prewarm") EXCEPT !.ov.prewarm = t.sh.seq + 1]
  ELSE t

(* _shadowShowOverlay: the paint gate holds while the last paint is good    *)
(* and not old.                                                            *)
ShowOverlay(s) ==
  IF ~Ready(s) THEN MaybeStart(s)
  ELSE {RequestPrewarm(s)} \cup (IF s.ov.paint = "good" THEN {Reveal(s)} ELSE {})

(* _showRollbackVisualFreeze: a depth too small shows nothing; where the    *)
(* overlay cannot be shown a still picture may be.                         *)
ShowFreeze(s) ==
  IF s.ov.frozen THEN {s}
  ELSE {s} \cup UNION {{t, [t EXCEPT !.ov.frozen = TRUE]} : t \in ShowOverlay(s)}

-----------------------------------------------------------------------------
(* The tick                                                                 *)

(* A normal frame: start the worker, or have it follow.                     *)
NormalTick ==
  /\ ~replaying
  /\ \E s \in MaybeStart(Now) :
       Becomes(IF ~s.ov.visible /\ Posts(s, FALSE) THEN PostStep(s, "normal") ELSE s)
  /\ UNCHANGED replaying

BeginReplay ==
  /\ ~replaying
  /\ replaying' = TRUE
  /\ \E s \in ShowFreeze(Now) : Becomes(s)

(* _finishCReplay: hide, then load the corrected state into the worker.     *)
FinishReplay ==
  /\ replaying
  /\ replaying' = FALSE
  /\ \E s \in Hide(Now) : \E t \in ScheduleResync(s) : Becomes(t)

(* applySyncState ends with a resync of the worker as well.                 *)
SyncApplied ==
  /\ \E s \in ScheduleResync(Now) : Becomes(s)
  /\ UNCHANGED replaying

(* _destroyRollbackVisualFreeze, when the match stops *)
Destroy ==
  /\ replaying' = FALSE
  /\ Becomes(Stop([Now EXCEPT !.ov.frozen = FALSE], "off"))

-----------------------------------------------------------------------------
(* Timers and callbacks                                                     *)

(* _shadowBeginHideFade, then _shadowDoHideOverlay                          *)
HoldOver ==
  /\ overlay.hide = "hold"
  /\ \E s \in {[Now EXCEPT !.ov.hide = "fade"]} \cup DoHide(Now) : Becomes(s)
  /\ UNCHANGED replaying

FadeOver ==
  /\ overlay.hide = "fade"
  /\ \E s \in DoHide(Now) : Becomes(s)
  /\ UNCHANGED replaying

PrewarmTooLate ==
  /\ overlay.prewarm # 0
  /\ Becomes([Now EXCEPT !.ov.prewarm = 0])
  /\ UNCHANGED replaying

(* _shadowRafPumpTick: one forced step at a time while the overlay shows    *)
RafTick ==
  /\ overlay.raf /\ ~overlay.rafInFlight
  /\ Posts(Now, TRUE)
  /\ Becomes([PostStep(Now, "raf") EXCEPT !.ov.rafInFlight = TRUE])
  /\ UNCHANGED replaying

ResyncDelayOver ==
  /\ resync.timer
  /\ \E s \in SendState([Now EXCEPT !.rs.timer = FALSE]) : Becomes(s)
  /\ UNCHANGED replaying

BootTimeout ==
  /\ shadow.worker = "booting"
  /\ Becomes(Stop(Now, "failed"))
  /\ UNCHANGED replaying

-----------------------------------------------------------------------------
(* The worker's answers (rollback-shadow-worker.js, _shadowOnMessage)        *)

(* boot: ready, once the state is loaded                                    *)
Booted(s) == [s EXCEPT !.sh.worker = "ready", !.sh.inFlight = 0, !.ov.paint = "none"]

(* What an answer says of the frame.  The worker samples the canvas, when   *)
(* it can read it, or posts the frame's pixels; main judges those itself,   *)
(* black or noise, but the step's answer follows and calls it good.  A step *)
(* that did not run shows nothing new.                                     *)
Sampled == {"none", "black", "good"}
PostedFrame == {"good"}
Painted == Sampled \cup PostedFrame

(* The answer to a step.                                                   *)
Stepped(s, h, painted) ==
  LET t == [s EXCEPT !.sh.inFlight = @ - 1,
                     !.ov.rafInFlight = @ /\ h.kind # "raf",
                     !.ov.paint = IF painted = "none" THEN @ ELSE painted] IN
  IF h.seq = s.ov.prewarm
  THEN LET u == [t EXCEPT !.ov.prewarm = 0] IN
       {u} \cup (IF painted = "good" THEN {Reveal(u)} ELSE {})
  ELSE {t}

(* loadSplitState may refuse; then the whole state follows.                 *)
Resynced(s, h) ==
  {[s EXCEPT !.ov.paint = "none"]} \cup
  (IF h.kind = "resync-split" THEN {IF CanPost(s) THEN Post(s, "resync") ELSE s} ELSE {})

Answer ==
  /\ shadow.queue # <<>>
  /\ LET h == Head(shadow.queue)
         s == [Now EXCEPT !.sh.queue = Tail(@)] IN
     CASE h.kind = "init" -> Becomes(Booted(s))
       [] h.kind \in Steps ->
            \E painted \in Painted :
              \E t \in Stepped(s, h, painted) : Becomes(t)
       [] OTHER -> \E t \in Resynced(s, h) : Becomes(t)
  /\ UNCHANGED replaying

(* fail: an exception in the worker; or its onerror                         *)
WorkerFails ==
  /\ shadow.queue # <<>>
  /\ Becomes(Stop(Now, "failed"))
  /\ UNCHANGED replaying

Next ==
  \/ NormalTick \/ BeginReplay \/ FinishReplay \/ SyncApplied \/ Destroy
  \/ HoldOver \/ FadeOver \/ PrewarmTooLate \/ RafTick \/ ResyncDelayOver
  \/ BootTimeout \/ Answer \/ WorkerFails

Spec == Init /\ [][Next]_shadowVars

-----------------------------------------------------------------------------
(* Properties                                                               *)

(* The steps among the first of the messages.                               *)
Unanswered(q) ==
  LET steps[i \in 0..Len(q)] ==
        IF i = 0 THEN 0 ELSE steps[i - 1] + (IF q[i].kind \in Steps THEN 1 ELSE 0)
  IN steps[Len(q)]

(* _rbShadowInFlight decides whether the worker gets another frame, and is  *)
(* moved by posting, by answers and by restarts: while a worker runs it is  *)
(* the number of steps the worker has not answered.                        *)
InFlightIsExact ==
  Ready(Now) => shadow.inFlight = Unanswered(shadow.queue)

(* Whatever fails or stops, the player is not left looking at a dead        *)
(* picture: the game's canvas is hidden only under an overlay a live worker *)
(* paints, and nothing is left that would show the overlay.                *)
DeadWorkerUncovers ==
  /\ overlay.liveHidden => overlay.visible
  /\ (overlay.visible \/ overlay.prewarm # 0 \/ overlay.raf) => Ready(Now)

(* A resync put off because the overlay covered the game is sent when it    *)
(* goes: while one is owed, a hide is still to come that will send it.      *)
OwedResyncHasItsHide == resync.owed => overlay.visible /\ Ready(Now)

(* The three together, for the shadow worker as a whole.                    *)
ShadowSound == InFlightIsExact /\ DeadWorkerUncovers /\ OwedResyncHasItsHide

(* Broken by the code: a prewarm's answer that arrives after the replay     *)
(* ended shows the overlay, and no hide is on the way: _shadowHideOverlay   *)
(* returned before it reached the prewarm, for nothing was visible then.   *)
ShownOverlayWillGo == overlay.visible /\ ~replaying => overlay.hide # "none"

=============================================================================

----------------------------- MODULE RomAndEmulator -----------------------------
(***************************************************************************)
(* The ROM a page has and its emulator (play.js).  A ROM comes from a file,   *)
(* whose hash is computed afterwards, or from the library in IndexedDB; a     *)
(* guest drops the one it has when the owner announces another, and takes     *)
(* the owner's from its library or from the owner (RomTransfer).  The         *)
(* emulator is created by a loader script once the core has been downloaded,  *)
(* survives the end of a match asleep, and wakes in the next one if that has   *)
(* the same ROM.                                                            *)
(*                                                                         *)
(* A ROM is a number, its hash too; all are of one size.  The server lets a   *)
(* match start when the page last said ready, for the ROM it said so for.     *)
(***************************************************************************)
EXTENDS Naturals, FiniteSets

CONSTANTS
  RomIds,     (* ROMs, from 1                                              *)
  Library,    (* those in the library at first                             *)
  MaxStarts   (* bound: matches                                            *)

VARIABLES
  guest,     (* the page is not the owner's                                *)
  rom,       (* the ROM of the page                                        *)
  loads,     (* loads under way                                            *)
  emu,       (* the emulator, and those being made                         *)
  match,     (* the match                                                  *)
  hazard     (* what the properties make an exception for                   *)

romVars == <<guest, rom, loads, emu, match, hazard>>

None == 0
Ids == RomIds \cup {None}

(* blob: _romBlob.  hash: _romHash.  gameUrl: EJS_gameUrl.  told: the ROM of   *)
(* the last rom-ready, none after one that took it back.  host: _hostRomHash.  *)
(* stored: the library.                                                     *)
Rom == [blob : Ids, hash : Ids, gameUrl : Ids, told : Ids, host : Ids, stored : SUBSET RomIds]

(* at: EJS_emulator.  rom: what it really runs.  label: _hibernatedRomHash.    *)
(* waiting: boots that wait for the core; loaders: scripts injected; flight:  *)
(* _emulatorBootInFlight.  twins: emulators that run and are forgotten.       *)
Emu == [at : {"none", "awake", "asleep"}, rom : Ids, label : Ids,
        waiting : Nat, loaders : Nat, flight : BOOLEAN, twins : Nat]

RomTypeOK ==
  /\ guest \in BOOLEAN
  /\ rom \in Rom /\ emu \in Emu
  /\ loads \subseteq {"hash", "library"} \X RomIds
  /\ match \in [running : BOOLEAN, rom : Ids, boot : BOOLEAN, starts : 0..MaxStarts]
  /\ hazard \in [loading : BOOLEAN, booting : BOOLEAN]

Init ==
  /\ guest \in BOOLEAN
  /\ rom = [blob |-> None, hash |-> None, gameUrl |-> None, told |-> None, host |-> None,
            stored |-> Library]
  /\ loads = {}
  /\ emu = [at |-> "none", rom |-> None, label |-> None, waiting |-> 0, loaders |-> 0,
            flight |-> FALSE, twins |-> 0]
  /\ match = [running |-> FALSE, rom |-> None, boot |-> FALSE, starts |-> 0]
  /\ hazard = [loading |-> FALSE, booting |-> FALSE]

(* romHashMismatch and hostRomMismatch. *)
Mismatch(r) == guest /\ r.blob # None /\ r.host # None /\ r.hash # None /\ r.hash # r.host

Booting == emu.waiting + emu.loaders > 0

-----------------------------------------------------------------------------
(* The emulator                                                             *)

(* destroyEmulator: a boot under way is not stopped. *)
Destroyed(e) == [e EXCEPT !.at = "none", !.rom = None, !.label = None, !.flight = FALSE]

(* discardHibernatedEmulatorForRomChange. *)
Discarded(e, next) ==
  IF e.at = "asleep" /\ (next = None \/ e.label # next) THEN Destroyed(e) ELSE e

(* bootEmulator: a boot that still waits for the core is not seen. *)
Boot(r, e) ==
  IF e.at # "none" \/ e.flight \/ r.blob = None THEN <<r, e>>
  ELSE <<[r EXCEPT !.gameUrl = r.blob], [e EXCEPT !.waiting = @ + 1]>>

(* ensureEmulatorBooted and wakeEmulator: only the ROM it was put to sleep     *)
(* with wakes.                                                              *)
Ensure(r, e) ==
  IF e.at = "asleep" /\ e.label = r.hash
  THEN <<r, [e EXCEPT !.at = "awake", !.label = None]>>
  ELSE IF e.at = "asleep" THEN Boot(r, Destroyed(e))
  ELSE Boot(r, e)

(* The core is there, or has been waited for long enough: the script goes in.  *)
CoreReady ==
  /\ emu.waiting > 0
  /\ emu' = [emu EXCEPT !.waiting = @ - 1, !.loaders = @ + 1, !.flight = TRUE]
  /\ UNCHANGED <<guest, rom, loads, match, hazard>>

(* The loader makes an emulator of the ROM EJS_gameUrl names by then. *)
LoaderRuns ==
  /\ emu.loaders > 0
  /\ emu' = [emu EXCEPT !.loaders = @ - 1, !.flight = FALSE,
               !.at = IF rom.gameUrl # None THEN "awake" ELSE @,
               !.rom = IF rom.gameUrl # None THEN rom.gameUrl ELSE @,
               !.twins = IF emu.at = "awake" /\ rom.gameUrl # None THEN @ + 1 ELSE @]
  /\ UNCHANGED <<guest, rom, loads, match, hazard>>

(* recoverSolidCanvas: the picture is dead; the engine asks for another.       *)
Recover ==
  /\ match.running /\ emu.at = "awake" /\ ~match.boot
  /\ emu' = Destroyed(emu)
  /\ match' = [match EXCEPT !.boot = TRUE]
  /\ UNCHANGED <<guest, rom, loads, hazard>>

-----------------------------------------------------------------------------
(* The ROM                                                                  *)

InLobby == ~match.running

(* loadRomData: the hash stays the one of the ROM before. *)
Drop(r) ==
  /\ InLobby /\ <<"hash", r>> \notin loads /\ rom.blob # r
  /\ rom' = [rom EXCEPT !.blob = r, !.gameUrl = r, !.stored = @ \cup {r}]
  /\ loads' = loads \cup {<<"hash", r>>}
  /\ hazard' = [hazard EXCEPT !.loading = @ \/ loads # {}]
  /\ UNCHANGED <<guest, emu, match>>

(* clearLoadedRom. *)
Cleared(r) == [r EXCEPT !.blob = None, !.hash = None, !.gameUrl = None, !.told = None]

(* The hash is there: a ROM that is not the owner's is dropped again. *)
HashKnown(r) ==
  /\ <<"hash", r>> \in loads
  /\ loads' = loads \ {<<"hash", r>>}
  /\ LET new == [rom EXCEPT !.hash = r]
         e == Discarded(emu, r) IN
     IF Mismatch(new) THEN rom' = Cleared(new) /\ emu' = Discarded(e, None)
     ELSE rom' = [new EXCEPT !.told = r] /\ emu' = e
  /\ UNCHANGED <<guest, match, hazard>>

(* The file cannot be read, or not in fifteen seconds. *)
HashFails(r) ==
  /\ <<"hash", r>> \in loads
  /\ loads' = loads \ {<<"hash", r>>}
  /\ hazard' = [hazard EXCEPT !.loading = TRUE]
  /\ UNCHANGED <<guest, rom, emu, match>>

(* loadRomFromLibrary, from the list or by itself at the start. *)
UseFromLibrary(r) ==
  /\ InLobby /\ <<"library", r>> \notin loads /\ r \in rom.stored /\ r # rom.hash
  /\ loads' = loads \cup {<<"library", r>>}
  /\ hazard' = [hazard EXCEPT !.loading = @ \/ loads # {}]
  /\ UNCHANGED <<guest, rom, emu, match>>

(* variant: the hash stays that of the ROM before *)
AnswersWithoutHash(r) ==
  /\ <<"library", r>> \in loads
  /\ loads' = loads \ {<<"library", r>>}
  /\ IF r \notin rom.stored THEN UNCHANGED <<rom, emu>>
     ELSE LET new == [rom EXCEPT !.blob = r, !.gameUrl = r,
                                 !.hash = IF @ = None THEN r ELSE @] IN
          /\ rom' = [new EXCEPT !.told = IF Mismatch(new) THEN None ELSE r]
          /\ emu' = Discarded(emu, r)
  /\ UNCHANGED <<guest, match, hazard>>

LibraryAnswers(r) ==
  /\ <<"library", r>> \in loads
  /\ loads' = loads \ {<<"library", r>>}
  /\ IF r \notin rom.stored THEN UNCHANGED <<rom, emu>>
     ELSE LET new == [rom EXCEPT !.blob = r, !.hash = r, !.gameUrl = r] IN
          /\ rom' = [new EXCEPT !.told = IF Mismatch(new) THEN None ELSE r]
          /\ emu' = Discarded(emu, r)
  /\ UNCHANGED <<guest, match, hazard>>

(* deleteRomFromLibrary. *)
Delete(r) ==
  /\ InLobby /\ r \in rom.stored
  /\ rom' = [(IF rom.hash = r THEN Cleared(rom) ELSE rom) EXCEPT !.stored = @ \ {r}]
  /\ emu' = IF rom.hash = r THEN Discarded(emu, None) ELSE emu
  /\ UNCHANGED <<guest, loads, match, hazard>>

(* applyHostRomFromData and handleHostRomChanged. *)
HostAnnounces(r) ==
  /\ guest /\ InLobby /\ r # rom.host
  /\ LET new == [rom EXCEPT !.host = r] IN
     IF Mismatch(new)
     THEN /\ rom' = Cleared(new)
          /\ emu' = Discarded(emu, None)
          /\ loads' = loads \cup {<<"library", r>>}
          /\ hazard' = [hazard EXCEPT !.loading = @ \/ loads # {}]
     ELSE /\ rom' = IF rom.blob # None THEN [new EXCEPT !.told = rom.hash] ELSE new
          /\ UNCHANGED <<emu, loads, hazard>>
  /\ UNCHANGED <<guest, match>>

(* The owner has no ROM any more: the guest keeps its own and takes its word   *)
(* back.                                                                    *)
HostClears ==
  /\ guest /\ InLobby /\ rom.host # None
  /\ rom' = [rom EXCEPT !.host = None, !.told = None]
  /\ UNCHANGED <<guest, loads, emu, match, hazard>>

(* finishRomTransfer: the owner's ROM, with the hash the owner said.           *)
TransferEnds(r) ==
  /\ guest /\ InLobby /\ r = rom.host
  /\ rom' = [rom EXCEPT !.blob = r, !.hash = r, !.gameUrl = r, !.told = r, !.stored = @ \cup {r}]
  /\ emu' = Discarded(emu, r)
  /\ hazard' = [hazard EXCEPT !.loading = @ \/ loads # {}]
  /\ UNCHANGED <<guest, loads, match>>

-----------------------------------------------------------------------------
(* Matches                                                                  *)

(* onGameStarted and initEngine: the owner's emulator starts at once, a        *)
(* guest's when its engine asks for it.                                      *)
GameStarts ==
  /\ InLobby /\ match.starts < MaxStarts
  /\ rom.blob # None /\ rom.told # None
  /\ IF guest THEN rom.told = rom.host /\ ~Mismatch(rom) ELSE rom.hash = rom.told
  /\ match' = [running |-> TRUE, rom |-> rom.told, boot |-> guest, starts |-> match.starts + 1]
  /\ hazard' = [loading |-> hazard.loading \/ loads # {}, booting |-> hazard.booting \/ Booting]
  /\ LET pair == Ensure(rom, emu) IN
     IF guest THEN UNCHANGED <<rom, emu>> ELSE rom' = pair[1] /\ emu' = pair[2]
  /\ UNCHANGED <<guest, loads>>

(* KNStartEmulatorBoot. *)
EngineBoots ==
  /\ match.running /\ match.boot
  /\ match' = [match EXCEPT !.boot = FALSE]
  /\ LET pair == Ensure(rom, emu) IN rom' = pair[1] /\ emu' = pair[2]
  /\ hazard' = [hazard EXCEPT !.booting = @ \/ Booting]
  /\ UNCHANGED <<guest, loads>>

(* onGameEnded and hibernateEmulator: there may be no emulator yet. *)
GameEnds ==
  /\ match.running
  /\ match' = [match EXCEPT !.running = FALSE, !.rom = None, !.boot = FALSE]
  /\ emu' = IF emu.at = "none" THEN emu
            ELSE [emu EXCEPT !.at = "asleep", !.label = rom.hash]
  /\ hazard' = [loading |-> hazard.loading \/ loads # {}, booting |-> hazard.booting \/ Booting]
  /\ UNCHANGED <<guest, rom, loads>>

-----------------------------------------------------------------------------
Next ==
  \/ CoreReady \/ LoaderRuns \/ Recover \/ GameStarts \/ EngineBoots \/ GameEnds \/ HostClears
  \/ \E r \in RomIds :
       \/ Drop(r) \/ HashKnown(r) \/ HashFails(r) \/ Delete(r)
       \/ UseFromLibrary(r) \/ LibraryAnswers(r) \/ HostAnnounces(r) \/ TransferEnds(r)

Spec == Init /\ [][Next]_romVars

-----------------------------------------------------------------------------
(* Properties                                                               *)

(* Through loads, changes by either side, sleep, deletion and recovery, what   *)
(* runs in a match is the ROM of the match, in one emulator, and nothing runs  *)
(* in the lobby: when loads come one at a time and end in the lobby, and       *)
(* every boot ends before its match does.                                    *)
EmulatorRunsTheRom ==
  ~hazard.loading /\ ~hazard.booting =>
    /\ match.running /\ emu.at = "awake" => emu.rom = match.rom
    /\ emu.twins = 0
    /\ InLobby => emu.at # "awake"

(* Broken by the code: a boot that still waits for the core is not seen by     *)
(* the next one, and a match that ends finds no emulator to put to sleep.      *)
OneEmulator == emu.twins = 0

(* Broken by the code: loadRomData keeps the former hash until the new one is  *)
(* known, and the hash that comes last wins.                                 *)
HashIsTheBlobs == rom.blob # None /\ rom.hash # None /\ loads = {} => rom.hash = rom.blob

=============================================================================

------------------------------ MODULE GmEdits ------------------------------
(***************************************************************************)
(* How game masters change the live world's ships: by a commit of staged   *)
(* changes, and by promoting a playtest, whose forked copy of the world    *)
(* runs on its own (ws/admin_handler.rs, state.rs, bw-playtest's           *)
(* simulation.rs and state_provider.rs).                                   *)
(*                                                                         *)
(* A ship is a place in each world: a sector, NoSector when its sector was *)
(* destroyed under it, Gone when the world does not hold it.  Each sector  *)
(* also lists its ships.  What changes only a ship's data (hull, stores,   *)
(* position; the first part of a promotion, which copies them, and staged  *)
(* updates) moves no ship and is left out.                                 *)
(***************************************************************************)
EXTENDS Naturals, FiniteSets, Sequences

CONSTANTS
    OldShips,           \* ships the live world starts with
    NewShips,           \* identifiers of ships spawned later
    Sectors,
    NoSector, Gone,
    MaxStaged           \* the longest commit taken here

ASSUME MaxStagedAssumption == MaxStaged \in Nat \ {0}
ASSUME PlacesAssumption == NoSector \notin Sectors /\ Gone \notin Sectors

VARIABLES
    live,               \* the live world: its sectors, where its ships are,
                        \* and the lists of its sectors
    play,               \* the playtest's world, likewise
    created,            \* created_ship_ids
    deleted,            \* deleted_ship_ids
    forked,             \* the ships the fork copied
    promoting,          \* the promotion under way
    staged              \* the commit under way: the changes left to apply

geVars == <<live, play, created, deleted, forked, promoting, staged>>

AllShips == OldShips \cup NewShips
Worlds == [sectors : SUBSET Sectors,
           at : [AllShips -> Sectors \cup {NoSector, Gone}],
           list : [Sectors -> SUBSET AllShips]]
Empty == [sectors |-> {}, at |-> [s \in AllShips |-> Gone],
          list |-> [c \in Sectors |-> {}]]
Flying(w) == {s \in AllShips : w.at[s] # Gone}
NotPromoting == [step |-> "no", todo |-> {}, ship |-> Gone,
                 sector |-> NoSector, deletes |-> FALSE]
Changes == [kind : {"delete"}, ship : AllShips, sector : {NoSector}]
    \cup [kind : {"spawn"}, ship : NewShips, sector : Sectors]
    \cup [kind : {"sector"}, ship : {Gone}, sector : Sectors]

\* Type correctness.
GmEditsTypeOK ==
    /\ live \in Worlds /\ play \in Worlds
    /\ created \subseteq AllShips /\ deleted \subseteq AllShips
    /\ forked \subseteq AllShips
    /\ promoting \in [step : {"no", "spawn", "listing", "delete"},
                      todo : SUBSET AllShips, ship : AllShips \cup {Gone},
                      sector : Sectors \cup {NoSector},
                      deletes : BOOLEAN]
    /\ staged \in UNION {[1..n -> Changes] : n \in 0..MaxStaged}

GmEditsInit ==
    /\ \E f \in [OldShips -> Sectors] :
        live = [sectors |-> Sectors,
                at |-> [s \in AllShips |-> IF s \in OldShips THEN f[s] ELSE Gone],
                list |-> [c \in Sectors |-> {s \in OldShips : f[s] = c}]]
    /\ play = Empty
    /\ created = {} /\ deleted = {} /\ forked = {}
    /\ promoting = NotPromoting
    /\ staged = <<>>

-----------------------------------------------------------------------------
(* What either world does to a ship *)

\* A ship is inserted, and listed if the world has the sector.
Put(w, s, c) ==
    [w EXCEPT !.at[s] = c,
              !.list = [d \in Sectors |->
                  IF d = c /\ c \in w.sectors THEN @[d] \cup {s} ELSE @[d]]]

\* DestroyEntity of a ship: it leaves the map and its own sector's list.
Drop(w, s) ==
    [w EXCEPT !.at[s] = Gone,
              !.list = [d \in Sectors |->
                  IF d = w.at[s] /\ d \in w.sectors THEN @[d] \ {s} ELSE @[d]]]

\* DestroyEntity of a sector: the ships it lists are left without one.
DropSector(w, c) ==
    [w EXCEPT !.sectors = @ \ {c},
              !.at = [s \in AllShips |->
                  IF s \in w.list[c] /\ @[s] # Gone THEN NoSector ELSE @[s]],
              !.list[c] = {}]

\* A new identifier, used in neither world yet.
Fresh(s) ==
    /\ s \in NewShips \ (created \cup forked \cup deleted)
    /\ live.at[s] = Gone /\ play.at[s] = Gone
    /\ \A i \in DOMAIN staged : staged[i].ship # s

-----------------------------------------------------------------------------
(* The live world goes on *)

\* A ship joins another sector.
LiveMove(s, c) ==
    /\ live.at[s] \in Sectors /\ c \in live.sectors \ {live.at[s]}
    /\ live' = [live EXCEPT !.at[s] = c,
                    !.list = [d \in Sectors |->
                        CASE d = live.at[s] -> @[d] \ {s}
                          [] d = c -> @[d] \cup {s}
                          [] OTHER -> @[d]]]
    /\ UNCHANGED <<play, created, deleted, forked, promoting, staged>>

\* Scripts destroy a ship or a sector.
LiveDestroy(s) ==
    /\ s \in Flying(live)
    /\ live' = Drop(live, s)
    /\ UNCHANGED <<play, created, deleted, forked, promoting, staged>>

LiveDestroySector(c) ==
    /\ c \in live.sectors
    /\ live' = DropSector(live, c)
    /\ UNCHANGED <<play, created, deleted, forked, promoting, staged>>

-----------------------------------------------------------------------------
(* The playtest's world *)

\* fork_to_playtest: the sectors first,
ForkSectors(cs) ==
    /\ play.sectors = {} /\ cs # {} /\ cs \subseteq live.sectors
    /\ forked = {} /\ created = {} /\ deleted = {}
    /\ play' = [play EXCEPT !.sectors = cs]
    /\ UNCHANGED <<live, created, deleted, forked, promoting, staged>>

\* then, one by one, ships found in them, as the configuration chooses.
ForkShip(s) ==
    /\ promoting = NotPromoting /\ created = {} /\ deleted = {}
    /\ s \notin forked /\ live.at[s] \in play.sectors
    /\ play' = Put(play, s, live.at[s])
    /\ forked' = forked \cup {s}
    /\ UNCHANGED <<live, created, deleted, promoting, staged>>

\* A script of the playtest spawns a ship, in whatever sector it names.
PlaySpawn(s, c) ==
    /\ play.sectors # {} /\ Fresh(s)
    /\ play' = Put(play, s, c)
    /\ created' = created \cup {s}
    /\ UNCHANGED <<live, deleted, forked, promoting, staged>>

PlayDestroy(s) ==
    /\ s \in Flying(play)
    /\ play' = Drop(play, s)
    /\ deleted' = IF s \in created THEN deleted ELSE deleted \cup {s}
    /\ created' = created \ {s}
    /\ UNCHANGED <<live, forked, promoting, staged>>

\* Mutant of LostInCombat: created ships are recorded as deleted too.
LostInCombatAll(s) == deleted \cup {s}

\* A ship that came with the fork is recorded as deleted.
LostInCombat(s) == IF s \in created THEN deleted ELSE deleted \cup {s}

\* process_playtest_combats: the last hull goes and the ship is removed; a
\* created ship keeps its entry among the created.
PlayKill(s) ==
    /\ play.at[s] \in play.sectors /\ s \in play.list[play.at[s]]
    /\ play' = Drop(play, s)
    /\ deleted' = LostInCombat(s)
    /\ UNCHANGED <<live, created, forked, promoting, staged>>

PlayDestroySector(c) ==
    /\ c \in play.sectors
    /\ play' = DropSector(play, c)
    /\ UNCHANGED <<live, created, deleted, forked, promoting, staged>>

-----------------------------------------------------------------------------
(* handle_promote_playtest, beside the playtest's loop and the live world *)

\* The ships to spawn, if that is wanted: the created ones.
PromoteBegin(spawns, deletes) ==
    /\ promoting = NotPromoting /\ play # Empty
    /\ promoting' = [NotPromoting EXCEPT
            !.step = "spawn", !.deletes = deletes,
            !.todo = IF spawns THEN created ELSE {}]
    /\ UNCHANGED <<live, play, created, deleted, forked, staged>>

\* The ship is still in the playtest and the live world has its sector.
MaySpawn(s) == play.at[s] \in live.sectors

\* The copy is inserted, over a live ship of that identifier if there is one,
PromoteInsert(s) ==
    /\ promoting.step = "spawn" /\ s \in promoting.todo
    /\ IF MaySpawn(s)
         THEN /\ live' = [live EXCEPT !.at[s] = play.at[s]]
              /\ promoting' = [promoting EXCEPT !.step = "listing",
                    !.todo = @ \ {s}, !.ship = s, !.sector = play.at[s]]
         ELSE /\ promoting' = [promoting EXCEPT !.todo = @ \ {s}]
              /\ live' = live
    /\ UNCHANGED <<play, created, deleted, forked, staged>>

\* and listed in that sector, if it is still there.
PromoteList ==
    /\ promoting.step = "listing"
    /\ LET c == promoting.sector
       IN  live' = IF c \in live.sectors
                     THEN [live EXCEPT !.list[c] = @ \cup {promoting.ship}]
                     ELSE live
    /\ promoting' = [promoting EXCEPT !.step = "spawn",
                        !.ship = Gone, !.sector = NoSector]
    /\ UNCHANGED <<play, created, deleted, forked, staged>>

\* The deletions are last, if they are wanted.
PromoteDeletes ==
    /\ promoting.step = "spawn" /\ promoting.todo = {}
    /\ promoting' = [promoting EXCEPT !.step = "delete",
                        !.todo = IF promoting.deletes THEN deleted ELSE {}]
    /\ UNCHANGED <<live, play, created, deleted, forked, staged>>

PromoteDelete(s) ==
    /\ promoting.step = "delete" /\ s \in promoting.todo
    /\ live' = IF s \in Flying(live) THEN Drop(live, s) ELSE live
    /\ promoting' = [promoting EXCEPT !.todo = @ \ {s}]
    /\ UNCHANGED <<play, created, deleted, forked, staged>>

PromoteDone ==
    /\ promoting.step = "delete" /\ promoting.todo = {}
    /\ promoting' = NotPromoting
    /\ UNCHANGED <<live, play, created, deleted, forked, staged>>

-----------------------------------------------------------------------------
(* handle_commit_staged *)

\* validate_and_preview_change: the ship to change, or the sector, is there;
\* of a spawn nothing is asked.
Valid(change) ==
    CASE change.kind = "delete" -> change.ship \in Flying(live)
      [] change.kind = "sector" -> change.sector \in live.sectors
      [] change.kind = "spawn" -> TRUE

\* One invalid change and none is applied; else they are all taken up.
CommitBegin(changes) ==
    /\ staged = <<>> /\ changes # <<>>
    /\ \A i \in DOMAIN changes :
        /\ Valid(changes[i])
        /\ changes[i].kind = "spawn" =>
            /\ Fresh(changes[i].ship)
            /\ \A j \in DOMAIN changes :
                j # i => changes[j].ship # changes[i].ship
    /\ staged' = changes
    /\ UNCHANGED <<live, play, created, deleted, forked, promoting>>

\* apply_change: a ship that has gone since counts as changed; updates of a
\* sector always fail, after what came before them was applied.
Applied(change) ==
    CASE change.kind = "delete" /\ change.ship \in Flying(live) ->
            Drop(live, change.ship)
      [] change.kind = "spawn" -> Put(live, change.ship, change.sector)
      [] OTHER -> live

CommitApply ==
    /\ staged # <<>>
    /\ live' = Applied(Head(staged))
    /\ staged' = Tail(staged)
    /\ UNCHANGED <<play, created, deleted, forked, promoting>>

GmEditsNext ==
    \/ \E s \in AllShips, c \in Sectors : LiveMove(s, c)
    \/ \E s \in AllShips : LiveDestroy(s)
    \/ \E c \in Sectors : LiveDestroySector(c)
    \/ \E cs \in SUBSET Sectors : ForkSectors(cs)
    \/ \E s \in AllShips : ForkShip(s)
    \/ \E s \in AllShips, c \in Sectors : PlaySpawn(s, c)
    \/ \E s \in AllShips : PlayDestroy(s)
    \/ \E s \in AllShips : PlayKill(s)
    \/ \E c \in Sectors : PlayDestroySector(c)
    \/ \E spawns, deletes \in BOOLEAN : PromoteBegin(spawns, deletes)
    \/ \E s \in AllShips : PromoteInsert(s)
    \/ PromoteList
    \/ PromoteDeletes
    \/ \E s \in AllShips : PromoteDelete(s)
    \/ PromoteDone
    \/ \E n \in 1..MaxStaged : \E changes \in [1..n -> Changes] :
        CommitBegin(changes)
    \/ CommitApply

GmEditsSpec == GmEditsInit /\ [][GmEditsNext]_geVars

-----------------------------------------------------------------------------
(* Properties *)

\* Every live ship is in the list of the sector it is in, as long as the
\* live world has that sector, whatever commits, promotions, moves and
\* destructions come between; only the ship a promotion has just inserted
\* waits for its entry.  (The converse does not hold: promoting a created
\* ship twice leaves it listed where it had moved in between.)
ListedWhereFlying ==
    \A s \in AllShips :
        live.at[s] \in live.sectors /\ s # promoting.ship =>
            s \in live.list[live.at[s]]

\* What a promotion deletes from the live world are ships that the playtest
\* had copied from it and lost, never one the playtest had made: not even
\* when the ship was promoted first and lost in the playtest afterwards.
DeletedWereForked ==
    deleted \subseteq forked \ created

\* What game masters do to the live world leaves its lists whole and takes
\* nothing away that was not the playtest's to lose.
EditsAgree == ListedWhereFlying /\ DeletedWereForked
=============================================================================

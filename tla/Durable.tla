------------------------------ MODULE Durable ------------------------------
(***************************************************************************)
(* What the server promises about its data over saves, shutdowns, crashes  *)
(* and restarts: a map db while it runs, a map disk that outlives it.  A   *)
(* save that is not cut short makes disk equal to db but for the digits of *)
(* scores, a start makes db equal to disk but for strings that have        *)
(* expired.  A crash while disk is written leaves a part of db there; a    *)
(* shutdown in the middle of a command, or of a start, saves a part of     *)
(* what there was.  Persistence.tla implements it.                         *)
(*                                                                         *)
(* The promise ends, and broken becomes TRUE, only in the middle of a      *)
(* start, a load, a FLUSHALL or an update: Persistence.tla says when.      *)
(***************************************************************************)
EXTENDS Integers

CONSTANTS Keys, Members, NULL,
  Reread  (* what a score is after a save and a load                        *)

VARIABLES
  clock,  (* the milliseconds of timeStamp()                                *)
  db,     (* the object at each key while the server is up                  *)
  disk,   (* the object at each key in the file                             *)
  up,     (* the server holds data                                          *)
  busy,   (* it is in the middle of a command, or of its start              *)
  broken  (* nothing is promised any more                                   *)

vars == <<clock, db, disk, up, busy, broken>>

Nothing == [k \in Keys |-> NULL]

Expired(o) == o # NULL /\ o.type = "string" /\ o.exp < clock

(* p is the object o, or a part of it: a set may have lost members.        *)
PartOf(p, o) ==
  \/ p = NULL \/ p = o
  \/ /\ o # NULL /\ o.type = "zset" /\ p.type = "zset"
     /\ \A m \in Members : p.score[m] \in {NULL, o.score[m]}

(* What disk has of the map m once it is saved.                            *)
Written(m) ==
  [k \in Keys |->
     IF m[k] = NULL \/ m[k].type # "zset" THEN m[k]
     ELSE [m[k] EXCEPT !.score = [x \in Members |-> IF @[x] = NULL THEN NULL ELSE Reread[@[x]]]]]

Init ==
  /\ clock = 0 /\ db = Nothing /\ disk = Nothing
  /\ up = FALSE /\ busy = FALSE /\ broken = FALSE

Tick == clock' = clock + 1 /\ UNCHANGED <<db, disk, up, busy, broken>>

(* A command changes the object at one key.                                *)
Command ==
  /\ up /\ UNCHANGED <<up, clock, broken, disk>>
  /\ \E k \in Keys : \A j \in Keys \ {k} : db'[j] = db[j]

Flush ==
  /\ up /\ busy /\ ~busy' /\ UNCHANGED <<up, clock, broken, disk>>
  /\ db' = Nothing

(* LOADDB adds the objects of disk to those that are there.  Only a bitmap *)
(* may meet another object at its key: it takes its place.                 *)
LoadDb ==
  /\ up /\ busy /\ ~busy' /\ UNCHANGED <<up, clock, broken, disk>>
  /\ \A k \in Keys :
       \/ db'[k] = db[k] /\ (disk[k] = NULL \/ Expired(disk[k]))
       \/ /\ disk[k] # NULL /\ db'[k] = disk[k]
          /\ db[k] = NULL \/ Expired(db[k]) \/ disk[k].type = "bitmap"

Save ==
  /\ up /\ UNCHANGED <<up, busy, clock, broken, db>>
  /\ disk' = Written(db)

Start ==
  /\ ~up /\ ~busy /\ busy'
  /\ UNCHANGED <<up, clock, broken, db, disk>>

Ready ==
  /\ ~up /\ busy /\ up' /\ ~busy' /\ UNCHANGED <<clock, broken, disk>>
  /\ \A k \in Keys : db'[k] = disk[k] \/ (db'[k] = NULL /\ Expired(disk[k]))

(* SIGINT in the middle of a command or of the start: a part is left.      *)
Cut ==
  /\ busy /\ ~busy' /\ up' /\ UNCHANGED <<clock, broken, disk>>
  /\ \A k \in Keys : PartOf(db'[k], disk[k]) \/ (up /\ PartOf(db'[k], db[k]))

Shutdown ==
  /\ up /\ ~up' /\ UNCHANGED <<busy, clock, broken>>
  /\ db' = Nothing /\ disk' = Written(db)

Crash ==
  /\ ~up' /\ ~busy' /\ UNCHANGED <<clock, broken>>
  /\ db' = Nothing
  /\ \/ disk' = disk
     \/ up /\ ~busy /\ \A k \in Keys : PartOf(disk'[k], Written(db)[k])

Break == (broken \/ busy) /\ broken'

Next ==
  \/ Tick
  \/ Command \/ Flush \/ LoadDb \/ Save
  \/ Start \/ Ready \/ Cut \/ Shutdown \/ Crash
  \/ Break

Spec == Init /\ [][Next]_vars
=============================================================================

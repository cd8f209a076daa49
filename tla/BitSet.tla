------------------------------- MODULE BitSet -------------------------------
(***************************************************************************)
(* What a client is promised of a bitmap: it is a set of bit positions.    *)
(* The promise ends, broken = TRUE, with a number that overflows or an     *)
(* allocation that fails.                                                  *)
(***************************************************************************)
EXTENDS Integers

CONSTANTS
  Offsets,    (* what clients send for a position                           *)
  Number,     (* the number each is, -1 when it is none                    *)
  OFFSET_MAX,
  BitArgs,    (* what clients send for a bit: 0 and 1 are legal             *)
  NULL, Plain (* no object; an object of another type                       *)

VARIABLES
  obj,    (* the object of the key                                          *)
  disk,   (* the object of the key in the rdb file                          *)
  reply,
  broken

vars == <<obj, disk, reply, broken>>

Legal(n) == Number[n] \in 0..OFFSET_MAX
Bits == IF obj = NULL THEN {} ELSE obj
Bit(b) == IF b THEN ":1" ELSE ":0"

Init == obj = NULL /\ disk = NULL /\ reply = "none" /\ broken = FALSE

SetBit(n, b) ==
  \/ ~Legal(n) /\ reply' = "offset" /\ UNCHANGED obj
  \/ Legal(n) /\ b \notin {0, 1} /\ reply' = "bit" /\ UNCHANGED obj
  \/ Legal(n) /\ b \in {0, 1} /\ obj = Plain /\ reply' = "type" /\ UNCHANGED obj
  \/ /\ Legal(n) /\ b \in {0, 1} /\ obj # Plain
     /\ reply' = Bit(Number[n] \in Bits)
     /\ obj' = IF b = 1 THEN Bits \cup {Number[n]} ELSE Bits \ {Number[n]}

GetBit(n) ==
  /\ \/ ~Legal(n) /\ reply' = "offset"
     \/ Legal(n) /\ obj = Plain /\ reply' = "type"
     \/ Legal(n) /\ obj # Plain /\ reply' = Bit(Number[n] \in Bits)
  /\ UNCHANGED obj

SetPlain == obj' = Plain /\ reply' = "ok"
Del == obj' = NULL /\ reply' = "ok"
Save == disk' = obj /\ reply' = "ok" /\ UNCHANGED obj
Load == disk # Plain /\ obj' = (IF disk = NULL THEN obj ELSE disk) /\ reply' = "ok"
Restart == obj' = disk /\ reply' = "none"

Next ==
  /\ ~broken
  /\ \/ /\ UNCHANGED <<disk, broken>>
        /\ \/ \E n \in Offsets, b \in BitArgs : SetBit(n, b)
           \/ \E n \in Offsets : GetBit(n)
           \/ SetPlain \/ Del \/ Load \/ Restart
     \/ Save /\ UNCHANGED broken
     \/ broken'

(* Nothing is promised once broken.                                        *)
Spec == Init /\ [][broken \/ Next]_vars
=============================================================================

------------------------------- MODULE T3Card -------------------------------
(***************************************************************************)
(* card_t3.cpp and the first half of init_t3.cpp: the card as the second   *)
(* SD library drives it, over SPI and for reading only.  The library is    *)
(* compiled instead of the other if USE_TEENSY3_OPTIMIZED_CODE is defined. *)
(* It never writes, so its card is never busy.                             *)
(***************************************************************************)
EXTENDS SpiCard

CONSTANT Passes         \* passes of a loop in 250 ms, or in 1500 ms

ASSUME PassesAssumption == Passes \in Nat \ {0}

VARIABLES card_type,    \* 0 before begin, 1=SDv1, 2=SDv2, 3=SDHC
          pass          \* passes of the present loop

t3Vars == <<card_type, pass>>

T3Init == card_type = 0 /\ pass = 0

(* send_cmd, recv_r1 and end_cmd: an answer, or 0xFF if the card missed    *)
(* the command.                                                            *)
R1(label, answer) == IF pc = label THEN {answer, "none"} ELSE {}

Continue(label) == Goto(label) /\ pass' = 0 /\ UNCHANGED transactions

EndTransaction == transactions' = transactions - 1

T3Returns(ok, data) == Return(ok, data) /\ EndTransaction /\ pass' = 0

(* The transaction is ended and begun again between two passes.            *)
Repeat ==
  IF pass = Passes THEN T3Returns(FALSE, Junk)
  ELSE pass' = pass + 1 /\ Goto(pc) /\ UNCHANGED transactions

T3Rest == UNCHANGED <<store, type_, selected, clock, t0, init0>>
-----------------------------------------------------------------------------
T3begin ==
  /\ Call("init", 0, "cmd0")
  /\ transactions' = transactions + 1 /\ pass' = 0
  /\ UNCHANGED <<card, card_type>> /\ T3Rest

sd_cmd0 ==
  /\ \E r1 \in R1("cmd0", "idle") :
       IF r1 = "idle" THEN card' = GoTo("idle") /\ Continue("cmd8")
                      ELSE Repeat /\ UNCHANGED card
  /\ UNCHANGED card_type /\ T3Rest

(* Any other answer than idle is taken for a card of version 1.  The check *)
(* pattern may be damaged.                                                 *)
sd_cmd8 ==
  /\ \E r1 \in R1("cmd8", IF card.kind = "SD1" THEN "illegal" ELSE "idle") :
       \/ r1 # "idle" /\ card_type' = 1 /\ Continue("acmd41")
       \/ r1 = "idle" /\ card_type' = 2 /\ Continue("acmd41")
       \/ r1 = "idle" /\ UNCHANGED card_type /\ T3Returns(FALSE, Junk)
  /\ UNCHANGED card /\ T3Rest

(* hcs is set for cards of version 2.  No answer ends the loop.            *)
sd_acmd41 ==
  /\ \E r1 \in R1("acmd41", "idle") \cup R1("acmd41", "ready") :
       \/ /\ r1 = "ready" /\ (card.kind = "SDHC" => card_type = 2)
          /\ card' = GoTo("tran") /\ Continue(IF card_type = 2 THEN "cmd58" ELSE "begun")
       \/ r1 = "idle" /\ Repeat /\ UNCHANGED card
       \/ r1 = "none" /\ T3Returns(FALSE, Junk) /\ UNCHANGED card
  /\ UNCHANGED card_type /\ T3Rest

(* A missed CMD58 leaves the type at 2, which is addressed like 3.         *)
sd_cmd58 ==
  /\ \E r1 \in R1("cmd58", "ready") :
       card_type' = IF r1 = "ready" /\ card.kind = "SDHC" THEN 3 ELSE card_type
  /\ Continue("begun")
  /\ UNCHANGED card /\ T3Rest

T3Begun == pc = "begun" /\ T3Returns(TRUE, Junk) /\ UNCHANGED <<card, card_type>> /\ T3Rest
-----------------------------------------------------------------------------
T3Address == AddressOf(call.block, card_type < 2)

(* sd_read within the transaction of SDCache::read.                        *)
T3read(block) ==
  /\ Call("read", block, "cmd17")
  /\ transactions' = transactions + 1
  /\ UNCHANGED <<card, t3Vars>> /\ T3Rest

sd_read ==
  /\ \E r1 \in R1("cmd17", IF Takes(T3Address) THEN "ready" ELSE "error") :
       IF r1 = "ready" THEN Continue("t3token") ELSE T3Returns(FALSE, Junk)
  /\ UNCHANGED <<card, card_type>> /\ T3Rest

(* The wait for the token has no time limit ("TODO: timeout"): a card that *)
(* sends none is waited for.                                               *)
T3Token ==
  /\ pc = "t3token"
  /\ T3Returns(TRUE, store[Addressed(T3Address)]) \/ T3Returns(FALSE, Junk)
  /\ UNCHANGED <<card, card_type>> /\ T3Rest

T3Step ==
  \/ sd_cmd0 \/ sd_cmd8 \/ sd_acmd41 \/ sd_cmd58 \/ T3Begun
  \/ sd_read
=============================================================================

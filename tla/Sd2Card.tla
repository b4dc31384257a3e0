------------------------------ MODULE Sd2Card -------------------------------
(***************************************************************************)
(* The three drivers of a card.  Sd2Card.h: the calls init, readBlock and  *)
(* writeBlock go to the driver of the slot on the board if the pin is      *)
(* BUILTIN_SDCARD, and to the one for SPI otherwise.  The second SD        *)
(* library has a driver of its own.  A behaviour has one card and uses one *)
(* of the drivers.                                                         *)
(***************************************************************************)
EXTENDS KinetisSDHC, T3Card

VARIABLES pin,          \* chipSelectPin_, "spi" or "builtin"; or "t3"
          inited,       \* the last init returned true; not in the code
          asked         \* the writes called so far that a card of
                        \* this size has a place for; not in the code

vars == <<cardVars, callVars, spiVars, kinetisVars, t3Vars, pin, inited, asked>>

Init ==
  /\ CardInit /\ SpiInit /\ KinetisInit /\ T3Init
  /\ pin \in {"spi", "builtin", "t3"} /\ inited = FALSE /\ asked = {}

Spi == pin = "spi" /\ UNCHANGED <<kinetisVars, t3Vars, pin>>
Builtin == pin = "builtin" /\ UNCHANGED <<spiVars, t3Vars, pin>>
T3 == pin = "t3" /\ UNCHANGED <<kinetisVars, pin>>

(* SDClass::begin gives up when init fails, and so does every user of the  *)
(* SPI driver, which reads without a check.  The builtin driver checks for *)
(* itself.                                                                 *)
Initialised == inited \/ (pin = "builtin" /\ call.name # "none")

(* The driver and the card mean the same block by the same address, but in *)
(* two cases: a card got ready at the last pass of InitCard's loop, and    *)
(* the second library's sd_read has a card of version 2 that is none of    *)
(* high capacity.                                                          *)
ByBlock ==
  CASE pin = "spi" -> type_ = "SDHC"
    [] pin = "builtin" -> desc.highCapacity
    [] OTHER -> card_type >= 2

LastPass == pin = "builtin" /\ card.kind = "SDHC" /\ ~ByBlock
StandardV2 == pin = "t3" /\ card.kind = "SD2" /\ ByBlock
Misaddressed == LastPass \/ StandardV2

(* Where the block of a write ends up: the builtin driver gives a byte     *)
(* address to a card whose capacity it has forgotten, and the card takes   *)
(* it for the number of a block.                                           *)
Lands(a) == IF a.forgotten THEN (a.block * BlockBytes) % AddressMod ELSE a.block

init ==
  /\ \/ Spi /\ \E now \in Millis : SD_init(now)
     \/ Builtin /\ InitCard
     \/ T3 /\ T3begin
  /\ inited' = FALSE /\ UNCHANGED asked

readBlock ==
  /\ Initialised
  /\ \E block \in Asked :
       \/ Spi /\ \E now \in Millis : SD_readBlock(block, now)
       \/ Builtin /\ ReadBlock(block)
       \/ T3 /\ T3read(block)
  /\ UNCHANGED <<inited, asked>>

writeBlock ==
  /\ Initialised
  /\ \E block \in Asked :
       /\ \/ Spi /\ \E now \in Millis : SD_writeBlock(block, now)
          \/ Builtin /\ WriteBlock(block)
       /\ LET a == [block |-> block, forgotten |-> LastPass]
          IN  asked' = IF Lands(a) \in Block THEN asked \cup {a} ELSE asked
  /\ UNCHANGED inited

Drive ==
  /\ (Spi /\ SpiStep) \/ (Builtin /\ KinetisStep) \/ (T3 /\ T3Step)
  /\ inited' = IF call.name = "init" /\ pc' = "free" THEN reply'.ok ELSE inited
  /\ UNCHANGED asked

Moves == Builtin /\ (Move \/ RaiseTC({"ended"})) /\ UNCHANGED <<inited, asked>>

Stops ==
  /\ Builtin /\ RaiseTC({"stopped", "corrupt", "timed out"})
  /\ UNCHANGED <<inited, asked>>

Sends == T3 /\ T3Token /\ UNCHANGED <<inited, asked>>

Programs ==
  /\ FinishProgramming
  /\ UNCHANGED <<spiVars, kinetisVars, t3Vars, pin, inited, asked>>

Next == init \/ readBlock \/ writeBlock \/ Drive \/ Moves \/ Stops \/ Sends \/ Programs

(* The driver runs while it is in a call, and the controller moves blocks  *)
(* or fails to; nothing says that a card is ever done with programming.    *)
Spec == Init /\ [][Next]_vars /\ WF_vars(Drive) /\ WF_vars(Moves)
-----------------------------------------------------------------------------
TypeOK ==
  /\ card \in [kind : Kinds, state : {"idle", "ready", "tran"}, good : BOOLEAN,
               job : {NoJob} \cup [what : {"send", "take", "program"}, block : Block]]
  /\ store \in [Block -> Content]
  /\ type_ \in {"none", "SD1", "SD2", "SDHC"}
  /\ selected \in BOOLEAN /\ transactions \in 0 .. 1
  /\ card_type \in 0 .. 3 /\ pass \in 0 .. Passes
  /\ {clock, t0, init0} \subseteq Millis
  /\ irq \subseteq {"error", "TC"} /\ i \in 0 .. MaxCount + Chunks
  /\ reply \in [ok : BOOLEAN, data : Content \cup {Junk}]

Returned(name) == pc = "free" /\ call.name = name /\ reply.ok

(* After an init that returned true the card is ready, and the driver      *)
(* gives it block numbers if it takes block numbers and byte addresses     *)
(* otherwise, whatever commands the card has missed: no test has a card of *)
(* each kind that misses CMD8.  The exceptions are the builtin driver when *)
(* a card gets ready at the very last pass of the loop of InitCard, which  *)
(* then forgets the capacity (line 398 of KinetisSDHC.c), and the second   *)
(* library, which gives block numbers to every card of version 2 (line 92  *)
(* of card_t3.cpp).                                                        *)
AddressingAgrees ==
  Returned("init") =>
    /\ card.state = "tran"
    /\ (ByBlock <=> card.kind = "SDHC") \/ (LastPass /\ i = MaxCount) \/ StandardV2

(* What a call that returned true has done: read returns the block's bytes *)
(* and write has them on the card.                                         *)
Done ==
  /\ Returned("read") => call.block \in Block /\ reply.data = store[call.block]
  /\ Returned("write") => call.block \in Block /\ store[call.block] = New

(* A call that returned true has done what it was called for, although the *)
(* SPI driver takes a card that is still busy for one that is ready and    *)
(* the card may miss a command, refuse the data or fail to program them.   *)
(* For the builtin driver only if the transfer went well, as it never      *)
(* looks at the flags after its last chunk, and for no card that is        *)
(* Misaddressed: the driver then reads and writes another block than the   *)
(* one it was called for, and returns true.                                *)
TrueMeansDone == (pin = "builtin" /\ ~card.good) \/ Misaddressed \/ Done

(* "RETURNS: result of operation" says the comment of the builtin driver's *)
(* write (line 516 of KinetisSDHC.c), with no exception.                   *)
ReturnsResult ==
  pin = "builtin" /\ ~Misaddressed /\ Returned("write") => store[call.block] = New

(* No block of the card changes but those a call was asked to write, and   *)
(* the SPI driver never changes block 0: neither a half-initialised card   *)
(* nor an answer of a busy one leads a write elsewhere.  One thing does:   *)
(* the builtin driver that has forgotten the capacity of a card (line 398  *)
(* of KinetisSDHC.c) writes to 512 times the block it was asked for, there *)
(* and nowhere else.                                                       *)
OnlyTheBlock ==
  \A b \in Block : store[b] # b =>
    /\ \E a \in asked : Lands(a) = b
    /\ pin = "spi" => b # 0

(* Between calls the card is not selected and every SPI transaction is     *)
(* ended, on each of the paths that leave a call.                          *)
BusReleased == pc = "free" => ~selected /\ transactions = 0

(* Where a call may hang: the SPI driver waits for a card that stays busy  *)
(* or sends no token, and began so late that the 16-bit clock wraps before *)
(* the limit; the builtin one waits for a card that stays busy, or for TC  *)
(* or words that do not come, and the second library for the token.        *)
Limit == IF pc = "token" THEN ReadTimeout + 1
         ELSE IF pc = "program" THEN WriteTimeout ELSE CommandWait

Hangs ==
  IF pin = "spi"
  THEN (Programming \/ pc = "token") /\ t0 + Limit >= ClockMod
  ELSE IF pin = "t3" THEN pc = "t3token"
  ELSE Programming \/ wire \notin {"idle", "moving", "ended"}

(* Every call returns, whatever the card misses, refuses or delays, except *)
(* in the waits that have no end.                                          *)
CallsReturn == []<>(pc = "free") \/ <>[]Hangs
=============================================================================

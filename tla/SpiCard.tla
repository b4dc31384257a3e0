------------------------------ MODULE SpiCard -------------------------------
(***************************************************************************)
(* The SPI half of Sd2Card.cpp.  A command is one step, which begins with  *)
(* the wait for the card in cardCommand and ends with the card's answer; a *)
(* pass of a waiting loop is one step and takes a millisecond.             *)
(*                                                                         *)
(* millis() is kept in 16 bits, ClockMod values.  The waits subtract two   *)
(* uint16_t as ints, so that the difference is negative once the clock has *)
(* wrapped; SD_init casts the difference instead.                          *)
(***************************************************************************)
EXTENDS SdCard

CONSTANTS ClockMod,     \* values of a uint16_t, 65536
          CommandWait,  \* the 300 ms of cardCommand
          InitTimeout, ReadTimeout, WriteTimeout    \* SD_INIT_TIMEOUT, ...

ASSUME ClockAssumption ==
  /\ ClockMod \in Nat \ {0}
  /\ {CommandWait, InitTimeout, ReadTimeout, WriteTimeout} \subseteq 1 .. ClockMod - 1

VARIABLES selected,     \* chip_select_asserted
          transactions, \* beginTransaction less endTransaction
          clock,        \* (uint16_t)millis()
          t0,           \* when the present wait began
          init0         \* when SD_init began

spiVars == <<selected, transactions, clock, t0, init0>>

Millis == 0 .. ClockMod - 1

SpiInit ==
  /\ selected = FALSE /\ transactions = 0
  /\ clock = 0 /\ t0 = 0 /\ init0 = 0

ChipSelectHigh_Mutated == selected' = FALSE /\ UNCHANGED transactions

ChipSelectHigh ==
  selected' = FALSE /\ transactions' = IF selected THEN transactions - 1 ELSE transactions

ChipSelectLow ==
  selected' = TRUE /\ transactions' = IF selected THEN transactions ELSE transactions + 1

Tick == clock' = (clock + 1) % ClockMod

(* Whether a wait is over for the clock alone. *)
Elapsed_Mutated(limit) == FALSE

Elapsed(limit) == clock - t0 >= limit

InitTimedOut == (clock - init0) % ClockMod > InitTimeout

(* waitNotBusy finds the data line low. *)
WaitNotBusy(limit) ==
  /\ Programming /\ ~Elapsed(limit)
  /\ Tick
  /\ UNCHANGED <<cardVars, callVars, selected, transactions, t0, init0>>

(* What a command is answered: nothing, 0xFF, if the card missed it, and   *)
(* 0x00, which is R1_READY_STATE, if it is still holding the line low.     *)
Answers(answer) == IF Programming THEN {"ready"} ELSE {answer, "none"}

Command(label) == pc = label /\ (~Programming \/ Elapsed(CommandWait))

(* The next statement, with a wait of its own.                             *)
Then(label) == Goto(label) /\ t0' = clock /\ UNCHANGED <<selected, transactions, clock, init0>>

Finish(ok, data) ==
  Return(ok, data) /\ ChipSelectHigh /\ clock' = 0 /\ t0' = 0 /\ init0' = 0

Fail == Finish(FALSE, Junk)

(* A statement of SD_init is repeated until its time is over.              *)
Again ==
  IF InitTimedOut THEN Fail
  ELSE Tick /\ t0' = clock' /\ UNCHANGED <<call, pc, reply, selected, transactions, init0>>
-----------------------------------------------------------------------------
(* A call is made at any time; between calls the clock is not looked at.   *)
SpiCall(name, block, entry, now) ==
  /\ Call(name, block, entry)
  /\ clock' = now /\ t0' = now
  /\ UNCHANGED cardVars

SD_init(now) ==
  /\ SpiCall("init", 0, "CMD0", now)
  /\ type_' = "none" /\ init0' = now
  /\ ChipSelectLow

InitCMD0 ==
  /\ Command("CMD0")
  /\ \E r1 \in Answers("idle") :
       IF r1 = "idle" THEN card' = GoTo("idle") /\ Then("CMD8")
                      ELSE Again /\ UNCHANGED card
  /\ UNCHANGED <<store, type_>>

(* No answer has the bit of R1_ILLEGAL_COMMAND set too.  The check pattern *)
(* that comes back may be wrong.                                           *)
InitCMD8 ==
  /\ Command("CMD8")
  /\ \E r1 \in Answers(IF card.kind = "SD1" THEN "illegal" ELSE "idle") :
       \/ r1 \in {"illegal", "none"} /\ type_' = "SD1" /\ Then("ACMD41")
       \/ r1 = "idle" /\ type_' = "SD2" /\ Then("ACMD41")
       \/ r1 = "idle" /\ UNCHANGED type_ /\ Fail
  /\ UNCHANGED cardVars

(* The argument says that the host supports SDHC if the type is SD2.       *)
InitACMD41 ==
  /\ Command("ACMD41")
  /\ \/ /\ card.kind = "SDHC" => type_ = "SD2"
        /\ card' = GoTo("tran") /\ Then(IF type_ = "SD2" THEN "CMD58" ELSE "rate")
     \/ Again /\ UNCHANGED card
  /\ UNCHANGED <<store, type_>>

(* The OCR of a card that is ready tells its capacity. *)
InitCMD58 ==
  /\ Command("CMD58")
  /\ \E r1 \in Answers("ready") :
       IF r1 # "ready" THEN Fail /\ UNCHANGED type_
       ELSE type_' = (IF card.kind = "SDHC" THEN "SDHC" ELSE type_) /\ Then("rate")
  /\ UNCHANGED cardVars

(* chipSelectHigh and setSckRate, which always returns true. *)
InitDone == pc = "rate" /\ Finish(TRUE, Junk) /\ UNCHANGED <<cardVars, type_>>
-----------------------------------------------------------------------------
Address_Mutated == AddressOf(call.block, type_ # "SD1")

Address == AddressOf(call.block, type_ # "SDHC")

SD_readBlock(block, now) ==
  /\ SpiCall("read", block, "CMD17", now)
  /\ ChipSelectLow
  /\ UNCHANGED <<type_, init0>>

(* CMD17 or CMD24.  A busy card seems to take the command.                 *)
BlockCommand(name, job, label) ==
  /\ Command(name)
  /\ \E r1 \in Answers(IF Takes(Address) THEN "ready" ELSE "error") :
       IF r1 = "ready"
       THEN /\ Then(label)
            /\ card' = IF Programming THEN card ELSE Begin(job, Addressed(Address))
       ELSE Fail /\ UNCHANGED card
  /\ UNCHANGED <<store, type_>>

ReadCMD17 == BlockCommand("CMD17", "send", "token")

(* The bytes the driver gets one after the other. *)
Received == store[card.job.block]

NoMoreJob == card' = IF Programming THEN card ELSE [card EXCEPT !.job = NoJob]

(* waitStartBlock.  A card that is busy or has not taken the command sends *)
(* no start token; one that has may still send nothing or an error token.  *)
(* The data are read without a look at their CRC.                          *)
ReadToken ==
  /\ pc = "token"
  /\ \/ card.job.what = "send" /\ NoMoreJob /\ Finish(TRUE, Received)
     \/ Fail /\ NoMoreJob
     \/ /\ ~Programming /\ clock - t0 <= ReadTimeout
        /\ Tick /\ UNCHANGED <<card, call, pc, reply, selected, transactions, t0, init0>>
  /\ UNCHANGED <<store, type_>>

(* Block 0 is not written. *)
SD_writeBlock(block, now) ==
  /\ IF block = 0
     THEN /\ pc = "free" /\ call' = [name |-> "write", block |-> 0]
          /\ pc' = pc /\ reply' = [ok |-> FALSE, data |-> Junk]
          /\ ChipSelectHigh
          /\ UNCHANGED <<cardVars, clock, t0>>
     ELSE SpiCall("write", block, "CMD24", now) /\ ChipSelectLow
  /\ UNCHANGED <<type_, init0>>

WriteCMD24 == BlockCommand("CMD24", "take", "data")

WriteData_Mutated ==
  /\ pc = "data"
  /\ \/ card.job.what = "take" /\ card' = Begin("program", card.job.block) /\ Then("program")
     \/ card.job.what # "take" /\ NoMoreJob /\ Then("program")
  /\ UNCHANGED <<store, type_>>

(* writeData: the card accepts the data or does not; one that has not      *)
(* taken the command accepts nothing.                                      *)
WriteData ==
  /\ pc = "data"
  /\ \/ card.job.what = "take" /\ card' = Begin("program", card.job.block) /\ Then("program")
     \/ NoMoreJob /\ Fail
  /\ UNCHANGED <<store, type_>>

WriteProgram ==
  /\ pc = "program"
  /\ \/ ~Programming /\ Then("CMD13")
     \/ Programming /\ Elapsed(WriteTimeout) /\ Fail
  /\ UNCHANGED <<cardVars, type_>>

(* Both bytes of the card's status have to be zero. *)
WriteCMD13 ==
  /\ Command("CMD13")
  /\ \E r1 \in Answers("ready") :
       IF r1 = "ready" /\ card.good THEN Finish(TRUE, Junk) ELSE Fail
  /\ UNCHANGED <<cardVars, type_>>

CommandLabels == {"CMD0", "CMD8", "ACMD41", "CMD58", "CMD17", "CMD24", "CMD13"}
Wait == \/ pc \in CommandLabels /\ WaitNotBusy(CommandWait)
        \/ pc = "program" /\ WaitNotBusy(WriteTimeout)

SpiStep ==
  \/ Wait
  \/ InitCMD0 \/ InitCMD8 \/ InitACMD41 \/ InitCMD58 \/ InitDone
  \/ ReadCMD17 \/ ReadToken
  \/ WriteCMD24 \/ WriteData \/ WriteProgram \/ WriteCMD13
=============================================================================

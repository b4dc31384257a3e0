--------------------------- MODULE Sd2Card_proofs ---------------------------
(***************************************************************************)
(* Proofs about the card drivers for cards of every size, every address    *)
(* width and every limit of the waits: between calls the card is released, *)
(* nothing on the card changes but what a call was asked to write, after   *)
(* an init the driver and the card agree on addresses, and a call that     *)
(* returned true has done what it was called for; but in the cases that    *)
(* the properties name.                                                    *)
(***************************************************************************)
EXTENDS Sd2Card, TLAPS

(* Each driver counts its transactions in its own way. *)
Bus ==
  /\ pin \in {"spi", "builtin", "t3"} /\ selected \in BOOLEAN
  /\ pin = "spi" => transactions = (IF selected THEN 1 ELSE 0) /\ (pc = "free" => ~selected)
  /\ pin = "builtin" => ~selected /\ transactions = 0
  /\ pin = "t3" => ~selected /\ transactions = (IF pc = "free" THEN 0 ELSE 1)

Job == {NoJob} \cup [what : {"send", "take", "program"}, block : Block]

CardOK ==
  /\ card \in [kind : {"SD1", "SD2", "SDHC"}, state : {"idle", "ready", "tran"}, good : BOOLEAN,
               job : Job]
  /\ store \in [Block -> Content]
  /\ pin \in {"spi", "builtin", "t3"}

(* The block whose data the card waits for, or is programming, is one in   *)
(* which a write that was asked for lands.                                 *)
Reached == {Lands(a) : a \in asked}

JobAsked ==
  card.job.what \in {"take", "program"} =>
    card.job.block \in Reached /\ (pin = "spi" => card.job.block # 0)

(* The SPI driver knows the kind of an initialised card.                   *)
SpiInitLabels == {"CMD0", "CMD8", "ACMD41", "CMD58"}
SpiLabels == {"rate", "CMD17", "token", "CMD24", "data", "program", "CMD13"}

SpiAgrees ==
  pin = "spi" =>
    /\ inited \/ pc \in SpiLabels => (type_ = "SDHC" <=> card.kind = "SDHC")
    /\ pc \in SpiInitLabels => ~inited
    /\ pc = "ACMD41" => type_ \in {"SD1", "SD2"}
    /\ pc = "CMD58" => type_ = "SD2"
    /\ pc = "CMD24" =>
         call.block \in Asked /\ (call.block \in Block => call.block \in Reached) /\ call.block # 0

(* The builtin driver takes no card that is in use for one of high         *)
(* capacity if it is not.  The other mistake it makes, and then a write    *)
(* lands elsewhere.                                                        *)
Overrated == desc.highCapacity /\ card.kind # "SDHC"
Underrated == ~desc.highCapacity /\ card.kind = "SDHC"

BuiltinAgrees ==
  /\ desc \in [status : {"ok", "NOINIT", "NODISK"}, highCapacity : BOOLEAN, version2 : BOOLEAN]
  /\ card.state = "tran" => ~Overrated
  /\ pc \in {"K0", "K8"} => ~desc.highCapacity
  /\ pc \in DOMAIN Following \cup {"done"} /\ card.state # "idle" => ~Overrated

TransferLabels == {"look", "chunk", "push", "ack", "check", "wait"}

Landing == Lands([block |-> call.block, forgotten |-> Underrated])

BuiltinWrites ==
  /\ pc = "K17" => call.name = "read"
  /\ pc = "K24" => call.block \in Asked /\ (Landing \in Block => Landing \in Reached)
  /\ wire = "moving" =>
       /\ pc \in TransferLabels /\ Takes(KinetisAddress)
       /\ call.name = "write" => Addressed(KinetisAddress) \in Reached

IInv ==
  /\ CardOK /\ JobAsked /\ OnlyTheBlock /\ SpiAgrees
  /\ pin = "builtin" => BuiltinAgrees /\ BuiltinWrites
-----------------------------------------------------------------------------
(* A step of the SPI driver releases the card or goes on in its call.      *)
GoesOn == UNCHANGED <<selected, transactions>> /\ pc' # "free"

LEMMA FinishReleases == ASSUME NEW ok, NEW data, Finish(ok, data) PROVE ChipSelectHigh
  BY DEF Finish

LEMMA ThenGoesOn == ASSUME NEW label, label # "free", Then(label) PROVE GoesOn
  BY DEF Then, Goto, GoesOn

LEMMA AgainGoesOn == ASSUME pc # "free", Again PROVE ChipSelectHigh \/ GoesOn
  BY FinishReleases DEF Again, Fail, GoesOn

LEMMA SpiStepReleases == ASSUME SpiStep PROVE ChipSelectHigh \/ GoesOn
  <1>1. CASE Wait
    BY <1>1 DEF Wait, CommandLabels, WaitNotBusy, callVars, GoesOn
  <1>2. CASE InitCMD0
    BY <1>2, ThenGoesOn, AgainGoesOn DEF InitCMD0, Command
  <1>3. CASE InitCMD8
    BY <1>3, ThenGoesOn, FinishReleases DEF InitCMD8, Fail
  <1>4. CASE InitACMD41
    BY <1>4, ThenGoesOn, AgainGoesOn DEF InitACMD41, Command
  <1>5. CASE InitCMD58
    BY <1>5, ThenGoesOn, FinishReleases DEF InitCMD58, Fail
  <1>6. CASE InitDone
    BY <1>6, FinishReleases DEF InitDone
  <1>7. CASE ReadCMD17 \/ WriteCMD24
    BY <1>7, ThenGoesOn, FinishReleases DEF ReadCMD17, WriteCMD24, BlockCommand, Fail
  <1>8. CASE ReadToken
    BY <1>8, FinishReleases DEF ReadToken, Fail, GoesOn
  <1>9. CASE WriteData
    BY <1>9, ThenGoesOn, FinishReleases DEF WriteData, Fail
  <1>10. CASE WriteProgram
    BY <1>10, ThenGoesOn, FinishReleases DEF WriteProgram, Fail
  <1>11. CASE WriteCMD13
    BY <1>11, FinishReleases DEF WriteCMD13, Fail
  <1> QED BY <1>1, <1>2, <1>3, <1>4, <1>5, <1>6, <1>7, <1>8, <1>9, <1>10, <1>11 DEF SpiStep

(* A step of the second library ends its transaction or goes on.           *)
T3GoesOn == UNCHANGED transactions /\ pc' # "free"
T3Ends == EndTransaction /\ pc' = "free"

LEMMA T3StepEnds ==
  ASSUME T3Step \/ T3Token PROVE pc # "free" /\ selected' = selected /\ (T3Ends \/ T3GoesOn)
  <1> USE DEF T3Rest, Continue, Goto, T3Returns, Return, Repeat, T3Ends, T3GoesOn
  <1>1. CASE sd_cmd0
    BY <1>1 DEF sd_cmd0, R1
  <1>2. CASE sd_cmd8
    BY <1>2 DEF sd_cmd8, R1
  <1>3. CASE sd_acmd41
    BY <1>3 DEF sd_acmd41, R1
  <1>4. CASE sd_cmd58
    BY <1>4 DEF sd_cmd58, R1
  <1>5. CASE T3Begun
    BY <1>5 DEF T3Begun
  <1>6. CASE sd_read
    BY <1>6 DEF sd_read, R1
  <1>7. CASE T3Token
    BY <1>7 DEF T3Token
  <1> QED BY <1>1, <1>2, <1>3, <1>4, <1>5, <1>6, <1>7 DEF T3Step

LEMMA BusStep == Bus /\ [Next]_vars => Bus'
  <1> SUFFICES ASSUME Bus, [Next]_vars PROVE Bus'
    OBVIOUS
  <1>1. ASSUME pin = "spi", pin' = pin, ChipSelectHigh \/ GoesOn PROVE Bus'
    <2>1. /\ selected \in BOOLEAN /\ transactions = (IF selected THEN 1 ELSE 0)
          /\ pin' = "spi"
      BY <1>1 DEF Bus
    <2>2. CASE ChipSelectHigh
      <3>1. selected' = FALSE /\ transactions' = 0
        BY <2>1, <2>2 DEF ChipSelectHigh
      <3> QED BY <2>1, <3>1 DEF Bus
    <2>3. CASE GoesOn
      BY <2>1, <2>3 DEF Bus, GoesOn
    <2> QED BY <1>1, <2>2, <2>3
  <1>2. ASSUME pin = "spi", pin' = pin, ChipSelectLow, pc' # "free" PROVE Bus'
    BY <1>2 DEF Bus, ChipSelectLow
  <1>3. ASSUME UNCHANGED <<spiVars, pin>>, pin = "builtin" PROVE Bus'
    BY <1>3 DEF Bus, spiVars
  <1>4. ASSUME pin = "t3", pin' = pin, selected' = selected, pc # "free", T3Ends \/ T3GoesOn
        PROVE  Bus'
    BY <1>4 DEF Bus, T3Ends, T3GoesOn, EndTransaction
  <1>5. ASSUME pin = "t3", pin' = pin, selected' = selected, pc = "free", pc' # "free",
               transactions' = transactions + 1
        PROVE  Bus'
    BY <1>5 DEF Bus
  <1>6. CASE init
    <2>1. CASE Spi /\ \E now \in Millis : SD_init(now)
      BY <2>1, <1>2 DEF Spi, SD_init, SpiCall, Call
    <2>2. CASE Builtin /\ InitCard
      BY <2>2, <1>3 DEF Builtin
    <2>3. CASE T3 /\ T3begin
      BY <2>3, <1>5 DEF T3, T3begin, Call, T3Rest
    <2> QED BY <1>6, <2>1, <2>2, <2>3 DEF init
  <1>7. CASE readBlock
    <2> PICK block \in Asked :
               \/ Spi /\ \E now \in Millis : SD_readBlock(block, now)
               \/ Builtin /\ ReadBlock(block)
               \/ T3 /\ T3read(block)
      BY <1>7 DEF readBlock
    <2>1. CASE Spi /\ \E now \in Millis : SD_readBlock(block, now)
      BY <2>1, <1>2 DEF Spi, SD_readBlock, SpiCall, Call
    <2>2. CASE Builtin /\ ReadBlock(block)
      BY <2>2, <1>3 DEF Builtin
    <2>3. CASE T3 /\ T3read(block)
      BY <2>3, <1>5 DEF T3, T3read, Call, T3Rest
    <2> QED BY <2>1, <2>2, <2>3
  <1>8. CASE writeBlock
    <2> PICK block \in Asked :
               \/ Spi /\ \E now \in Millis : SD_writeBlock(block, now)
               \/ Builtin /\ WriteBlock(block)
      BY <1>8 DEF writeBlock
    <2>1. CASE Spi /\ \E now \in Millis : SD_writeBlock(block, now)
      BY <2>1, <1>1, <1>2 DEF Spi, SD_writeBlock, SpiCall, Call
    <2>2. CASE Builtin /\ WriteBlock(block)
      BY <2>2, <1>3 DEF Builtin
    <2> QED BY <2>1, <2>2
  <1>9. CASE Drive
    <2>1. CASE Spi /\ SpiStep
      BY <2>1, <1>1, SpiStepReleases DEF Spi
    <2>2. CASE Builtin /\ KinetisStep
      BY <2>2, <1>3 DEF Builtin
    <2>3. CASE T3 /\ T3Step
      BY <2>3, <1>4, T3StepEnds DEF T3
    <2> QED BY <1>9, <2>1, <2>2, <2>3 DEF Drive
  <1>10. CASE Moves \/ Stops
    BY <1>10, <1>3 DEF Moves, Stops, Builtin
  <1>11. CASE Sends
    BY <1>11, <1>4, T3StepEnds DEF Sends, T3
  <1>12. CASE Programs \/ UNCHANGED vars
    BY <1>12 DEF Programs, FinishProgramming, vars, callVars, spiVars, Bus
  <1> QED BY <1>6, <1>7, <1>8, <1>9, <1>10, <1>11, <1>12 DEF Next

(* Whatever the card misses, refuses or delays, and on each of the paths   *)
(* that leave a call, the driver releases the card and ends its            *)
(* transaction.                                                            *)
THEOREM ReleasesTheBus == Spec => []BusReleased
  <1>1. Init => Bus
    BY DEF Init, SpiInit, CardInit, Bus
  <1>2. Bus => BusReleased
    BY DEF Bus, BusReleased
  <1> QED BY BusStep, <1>1, <1>2, PTL DEF Spec
-----------------------------------------------------------------------------
(* Addresses: what a card makes of the address of a block is the block, if *)
(* the driver knows the kind of the card.                                  *)
LEMMA Sizes ==
  /\ Blocks \in Nat \ {0} /\ BlockBytes \in Nat \ {0} /\ AddressMod \in Nat \ {0}
  /\ Kinds \subseteq {"SD1", "SD2", "SDHC"}
  BY CardAssumption

LEMMA WholeBlocks ==
  ASSUME NEW b \in Nat
  PROVE  (b * BlockBytes) % BlockBytes = 0 /\ (b * BlockBytes) \div BlockBytes = b
  <1> DEFINE q == (b * BlockBytes) \div BlockBytes
             r == (b * BlockBytes) % BlockBytes
  <1>1. q \in Int /\ r \in 0 .. BlockBytes - 1 /\ b * BlockBytes = BlockBytes * q + r
    BY Sizes
  <1>2. BlockBytes * (b - q) = r
    BY <1>1, Sizes
  <1> HIDE DEF q, r
  <1>3. b - q = 0
    <2>1. CASE b - q >= 1
      <3>1. BlockBytes * (b - q) >= BlockBytes
        BY <2>1, <1>1, Sizes
      <3> QED BY <3>1, <1>2, <1>1, Sizes
    <2>2. CASE b - q <= -1
      <3>1. BlockBytes * (b - q) <= -BlockBytes
        BY <2>2, <1>1, Sizes
      <3> QED BY <3>1, <1>2, <1>1, Sizes
    <2> QED BY <2>1, <2>2, <1>1
  <1>4. r = 0 /\ q = b
    BY <1>3, <1>2, <1>1, Sizes
  <1> QED BY <1>4 DEF q, r

LEMMA AddressFits ==
  ASSUME NEW b \in Asked
  PROVE  b \in Nat /\ (b * BlockBytes) % AddressMod = b * BlockBytes
  <1> DEFINE q == AddressMod \div BlockBytes
             a == b * BlockBytes
  <1>1. q \in Int /\ BlockBytes * q <= AddressMod
    BY Sizes
  <1> HIDE DEF q
  <1>2. b \in Nat /\ b + 1 <= q
    BY <1>1 DEF q, Asked
  <1>3. BlockBytes * (b + 1) <= BlockBytes * q
    BY <1>1, <1>2, Sizes
  <1>4. a \in Int /\ 0 <= a /\ a < AddressMod
    BY <1>1, <1>2, <1>3, Sizes
  <1> HIDE DEF a
  <1>5. a % AddressMod = a
    BY <1>4, Sizes
  <1> QED BY <1>2, <1>5 DEF a

LEMMA MeansTheBlock ==
  ASSUME NEW b \in Asked, NEW byByte \in BOOLEAN, byByte <=> card.kind # "SDHC"
  PROVE  Addressed(AddressOf(b, byByte)) = b
  <1>1. CASE byByte
    <2>1. AddressOf(b, byByte) = b * BlockBytes
      BY <1>1, AddressFits DEF AddressOf
    <2> QED BY <1>1, <2>1, AddressFits, WholeBlocks DEF Addressed
  <1>2. CASE ~byByte
    BY <1>2 DEF AddressOf, Addressed
  <1> QED BY <1>1, <1>2

(* What a step of a driver does to the card.                               *)
Gets(what, block) ==
  /\ what \in {"send", "take", "program"} /\ block \in Block
  /\ card' = Begin(what, block)
  /\ what # "send" => block \in Reached' /\ (pin = "spi" => block # 0)

CardStep ==
  /\ store' = store /\ pin' = pin /\ asked \subseteq asked'
  /\ \/ card' = card
     \/ \E st \in {"idle", "ready", "tran"} : card' = GoTo(st)
     \/ card' = [card EXCEPT !.job = NoJob]
     \/ \E good \in BOOLEAN : card' = [card EXCEPT !.good = good]
     \/ \E what, block : Gets(what, block)

LEMMA CardStepKeeps ==
  ASSUME CardOK, JobAsked, OnlyTheBlock, CardStep
  PROVE  CardOK' /\ JobAsked' /\ OnlyTheBlock' /\ card'.kind = card.kind
  <1> USE DEF CardStep
  <1>0. Reached \subseteq Reached'
    BY DEF Reached
  <1>1. OnlyTheBlock'
    BY DEF OnlyTheBlock
  <1>2. CASE card' = card
    BY <1>0, <1>1, <1>2 DEF CardOK, JobAsked
  <1>3. ASSUME NEW st \in {"idle", "ready", "tran"}, card' = GoTo(st)
        PROVE  CardOK' /\ JobAsked' /\ card'.kind = card.kind
    BY <1>0, <1>3 DEF CardOK, JobAsked, GoTo
  <1>4. CASE card' = [card EXCEPT !.job = NoJob]
    BY <1>0, <1>1, <1>4 DEF CardOK, JobAsked, Job, NoJob
  <1>5. ASSUME NEW good \in BOOLEAN, card' = [card EXCEPT !.good = good]
        PROVE  CardOK' /\ JobAsked' /\ card'.kind = card.kind
    BY <1>0, <1>5 DEF CardOK, JobAsked
  <1>6. ASSUME NEW what, NEW block, Gets(what, block)
        PROVE  CardOK' /\ JobAsked' /\ card'.kind = card.kind
    BY <1>6 DEF CardOK, JobAsked, Job, Gets, Begin
  <1> QED BY <1>1, <1>2, <1>3, <1>4, <1>5, <1>6
-----------------------------------------------------------------------------
(* The SPI driver.  A block it writes is the one it was asked for, since   *)
(* the address agrees with the kind of the card.                           *)
SpiInv == CardOK /\ JobAsked /\ OnlyTheBlock /\ SpiAgrees

LEMMA SpiAddress ==
  ASSUME SpiAgrees, pin = "spi", pc = "CMD24"
  PROVE  /\ Addressed(Address) = call.block /\ call.block # 0
         /\ call.block \in Block => call.block \in Reached
  <1>1. call.block \in Asked /\ (type_ # "SDHC" <=> card.kind # "SDHC")
    BY DEF SpiAgrees, SpiLabels
  <1> QED BY <1>1, MeansTheBlock DEF Address, SpiAgrees

LEMMA SpiStepMoves ==
  ASSUME SpiInv, pin = "spi", pin' = pin, asked' = asked, SpiStep
  PROVE  CardStep
  <1> USE DEF SpiInv, CardStep, cardVars
  <1>1. CASE Wait
    BY <1>1 DEF Wait, WaitNotBusy
  <1>2. CASE InitCMD0
    BY <1>2 DEF InitCMD0
  <1>3. CASE InitCMD8 \/ InitCMD58 \/ InitDone \/ WriteProgram \/ WriteCMD13
    BY <1>3 DEF InitCMD8, InitCMD58, InitDone, WriteProgram, WriteCMD13
  <1>4. CASE InitACMD41
    BY <1>4 DEF InitACMD41
  <1>5. ASSUME NEW name, NEW job, NEW label, BlockCommand(name, job, label),
               (name = "CMD24" /\ job = "take") \/ job = "send"
        PROVE  CardStep
    <2>1. store' = store /\ pc = name
      BY <1>5 DEF BlockCommand, Command
    <2>2. CASE card' = card
      BY <2>1, <2>2
    <2>3. CASE card' # card
      <3>1. Takes(Address) /\ card' = Begin(job, Addressed(Address))
        BY <1>5, <2>3 DEF BlockCommand, Answers
      <3>2. Addressed(Address) \in Block
        BY <3>1 DEF Takes
      <3>3. job # "send" => Addressed(Address) \in Reached' /\ Addressed(Address) # 0
        BY <1>5, <2>1, <3>2, SpiAddress DEF Reached
      <3>4. Gets(job, Addressed(Address))
        BY <1>5, <3>1, <3>2, <3>3 DEF Gets
      <3> QED BY <2>1, <3>4
    <2> QED BY <2>2, <2>3
  <1>6. CASE ReadCMD17 \/ WriteCMD24
    BY <1>5, <1>6 DEF ReadCMD17, WriteCMD24
  <1>7. CASE ReadToken
    BY <1>7 DEF ReadToken, NoMoreJob
  <1>8. CASE WriteData
    <2>1. CASE card.job.what = "take" /\ card' = Begin("program", card.job.block)
      <3>1. Gets("program", card.job.block)
        BY <2>1 DEF CardOK, Job, NoJob, JobAsked, Gets, Reached
      <3> QED BY <1>8, <3>1 DEF WriteData
    <2>2. CASE NoMoreJob
      BY <1>8, <2>2 DEF WriteData, NoMoreJob
    <2> QED BY <1>8, <2>1, <2>2 DEF WriteData
  <1> QED BY <1>1, <1>2, <1>3, <1>4, <1>6, <1>7, <1>8 DEF SpiStep

(* How a statement ends: it goes on to one, or the call returns.           *)
LEMMA Endings ==
  /\ \A label : Then(label) => pc' = label /\ call' = call
  /\ \A ok, data : Finish(ok, data) => pc' = "free" /\ call' = call /\ reply'.ok = ok
  /\ Fail => pc' = "free" /\ call' = call /\ reply'.ok = FALSE
  /\ Again => call' = call /\ ((pc' = "free" /\ reply'.ok = FALSE) \/ pc' = pc)
  BY DEF Then, Goto, Finish, Return, Fail, Again

(* What a step leaves of the agreement: the call goes on with what it      *)
(* knows, or returns.                                                      *)
SpiDriven == inited' = IF call.name = "init" /\ pc' = "free" THEN reply'.ok ELSE inited

LEMMA SpiStepAgrees ==
  ASSUME SpiInv, pin = "spi", pin' = pin, asked' = asked, card'.kind = card.kind,
         SpiStep, SpiDriven
  PROVE  SpiAgrees'
  <1> USE Endings DEF SpiInv, SpiDriven
  <1> DEFINE Agrees == type_ = "SDHC" <=> card.kind = "SDHC"
  <1>0. /\ inited \/ pc \in SpiLabels => Agrees
        /\ pc \in SpiInitLabels => ~inited
        /\ pc = "ACMD41" => type_ \in {"SD1", "SD2"}
        /\ pc = "CMD58" => type_ = "SD2"
        /\ pc = "CMD24" =>
             call.block \in Asked /\ (call.block \in Block => call.block \in Reached) /\ call.block # 0
        /\ Reached' = Reached
    BY DEF SpiAgrees, Reached
  <1>1. CASE Wait
    <2>1. UNCHANGED <<type_, call, pc>> /\ pc # "free"
      BY <1>1 DEF Wait, WaitNotBusy, CommandLabels, callVars
    <2> QED BY <2>1, <1>0 DEF SpiAgrees
  <1>2. CASE InitCMD0
    <2>1. type_' = type_ /\ call' = call /\ pc = "CMD0"
      BY <1>2 DEF InitCMD0, Command
    <2>2. pc' \in {"CMD0", "CMD8"} \/ (pc' = "free" /\ reply'.ok = FALSE)
      BY <1>2, <2>1 DEF InitCMD0
    <2> QED BY <1>0, <2>1, <2>2 DEF SpiAgrees, SpiLabels, SpiInitLabels
  <1>3. CASE InitCMD8
    <2>1. call' = call /\ pc = "CMD8"
      BY <1>3 DEF InitCMD8, Command
    <2>2. \/ pc' = "ACMD41" /\ type_' \in {"SD1", "SD2"}
          \/ pc' = "free" /\ reply'.ok = FALSE
      BY <1>3, <2>1 DEF InitCMD8
    <2> QED BY <1>0, <2>1, <2>2 DEF SpiAgrees, SpiLabels, SpiInitLabels
  <1>4. CASE InitACMD41
    <2>1. type_' = type_ /\ call' = call /\ pc = "ACMD41"
      BY <1>4 DEF InitACMD41, Command
    <2>2. \/ type_ = "SD2" /\ pc' = "CMD58"
          \/ type_ # "SD2" /\ pc' = "rate" /\ card.kind # "SDHC"
          \/ pc' = "ACMD41"
          \/ pc' = "free" /\ reply'.ok = FALSE
      BY <1>4, <2>1 DEF InitACMD41
    <2> QED BY <1>0, <2>1, <2>2 DEF SpiAgrees, SpiLabels, SpiInitLabels
  <1>5. CASE InitCMD58
    <2>1. call' = call /\ pc = "CMD58"
      BY <1>5 DEF InitCMD58, Command
    <2>2. \/ pc' = "rate" /\ type_' = IF card.kind = "SDHC" THEN "SDHC" ELSE type_
          \/ pc' = "free" /\ reply'.ok = FALSE
      BY <1>5, <2>1 DEF InitCMD58
    <2> QED BY <1>0, <2>1, <2>2 DEF SpiAgrees, SpiLabels, SpiInitLabels
  <1>6. ASSUME pc \in SpiLabels, type_' = type_, call' = call,
               pc' \in SpiLabels \cup {"free"}, pc' # "CMD24" \/ pc = "CMD24"
        PROVE  SpiAgrees'
    <2>1. Agrees /\ Agrees'
      BY <1>0, <1>6
    <2> QED BY <1>0, <1>6, <2>1 DEF SpiAgrees, SpiLabels, SpiInitLabels
  <1>7. CASE InitDone
    BY <1>6, <1>7 DEF InitDone, SpiLabels
  <1>8. CASE ReadCMD17 \/ WriteCMD24
    BY <1>6, <1>8 DEF ReadCMD17, WriteCMD24, BlockCommand, Command, SpiLabels
  <1>9. CASE ReadToken
    BY <1>6, <1>9 DEF ReadToken, SpiLabels
  <1>10. CASE WriteData
    BY <1>6, <1>10 DEF WriteData, SpiLabels
  <1>11. CASE WriteProgram
    BY <1>6, <1>11 DEF WriteProgram, SpiLabels
  <1>12. CASE WriteCMD13
    BY <1>6, <1>12 DEF WriteCMD13, Command, SpiLabels
  <1> QED BY <1>1, <1>2, <1>3, <1>4, <1>5, <1>7, <1>8, <1>9, <1>10, <1>11, <1>12 DEF SpiStep
-----------------------------------------------------------------------------
(* The builtin driver, up to the end of an init.                           *)
BuiltinInv == CardOK /\ JobAsked /\ OnlyTheBlock /\ BuiltinAgrees /\ BuiltinWrites

AfterLoop == {"CMD2", "CMD3", "CMD9", "CMD7", "CMD16", "ACMD6", "done"}

LEMMA FollowingLabels ==
  /\ DOMAIN Following = {"CMD2", "CMD3", "CMD9", "CMD7", "CMD16", "ACMD6"}
  /\ \A label \in DOMAIN Following : Following[label] \in AfterLoop
  BY DEF Following, AfterLoop

Desc == [status : {"ok", "NOINIT", "NODISK"}, highCapacity : BOOLEAN, version2 : BOOLEAN]

(* What an init command leaves of the agreement.                           *)
InitMoves ==
  /\ CardStep /\ BuiltinAgrees'
  /\ pc \notin TransferLabels /\ pc' \notin TransferLabels \cup {"K17", "K24"}
  /\ wire' = wire

LEMMA InitReturned ==
  ASSUME NEW ok, NEW d, InitReturns(ok, d)
  PROVE  desc' = d /\ pc' = "free" /\ wire' = wire
  BY DEF InitReturns, Return

LEMMA NotInited ==
  ASSUME BuiltinAgrees, NoInit
  PROVE  /\ desc' \in Desc /\ desc'.highCapacity = desc.highCapacity
         /\ pc' = "free" /\ wire' = wire
  <1>1. desc' = [desc EXCEPT !.status = "NOINIT"] /\ pc' = "free" /\ wire' = wire
    BY DEF NoInit, InitReturns, Return
  <1> QED BY <1>1 DEF BuiltinAgrees, Desc

LEMMA Stepped == ASSUME NEW label, Step(label) PROVE pc' = label /\ wire' = wire
  BY DEF Step, Goto

LEMMA InitCommandMoves ==
  ASSUME BuiltinInv, pin = "builtin", pin' = pin, asked' = asked,
         \/ KinetisCMD0 \/ KinetisCMD8 \/ KinetisACMD41 \/ ConditionLoop \/ Identify
         \/ CMD9_GetParameters \/ InitCardDone
  PROVE  InitMoves
  <1> USE InitReturned, NotInited, Stepped, FollowingLabels
      DEF BuiltinInv, BuiltinAgrees, Overrated, TransferLabels, AfterLoop, CMD_Do
  <1>0. card \in [kind : {"SD1", "SD2", "SDHC"}, state : {"idle", "ready", "tran"},
                  good : BOOLEAN, job : Job]
    BY DEF CardOK
  <1>1. ASSUME card' = card, store' = store PROVE CardStep
    BY <1>1 DEF CardStep
  <1>2. ASSUME NEW st \in {"idle", "ready", "tran"}, card' = GoTo(st), store' = store
        PROVE  CardStep /\ card'.state = st /\ card'.kind = card.kind
    BY <1>0, <1>2 DEF CardStep, GoTo
  <1>3. CASE KinetisCMD0
    <2>1. /\ pc = "K0" /\ store' = store /\ (card' = card \/ card' = GoTo("idle"))
          /\ desc' \in Desc /\ desc'.highCapacity = desc.highCapacity
          /\ pc' \in {"free", "K8"} /\ wire' = wire
      <3>1. CASE NoInit \/ (Step("K8") /\ UNCHANGED <<desc, i>>)
        BY <1>3, <3>1 DEF KinetisCMD0, CMD0_GoToIdle, cardVars, Desc
      <3>2. CASE InitReturns(FALSE, [desc EXCEPT !.status = "NODISK"])
        <4>1. desc' = [desc EXCEPT !.status = "NODISK"] /\ pc' = "free" /\ wire' = wire
          BY <3>2 DEF InitReturns, Return
        <4> QED BY <1>3, <4>1 DEF KinetisCMD0, CMD0_GoToIdle, cardVars, Desc
      <3> QED BY <1>3, <3>1, <3>2 DEF KinetisCMD0
    <2> QED BY <1>1, <1>2, <2>1 DEF InitMoves, Desc
  <1>4. CASE KinetisCMD8
    <2>1. pc = "K8" /\ UNCHANGED cardVars /\ ~desc.highCapacity
      BY <1>4 DEF KinetisCMD8
    <2>2. \/ card.state = "idle" /\ desc' = [desc EXCEPT !.highCapacity = TRUE]
             /\ pc' = "K41a" /\ wire' = wire
          \/ UNCHANGED desc /\ pc' = "K41a" /\ wire' = wire
          \/ NoInit
      BY <1>4 DEF KinetisCMD8, CMD8_SetInterface, Results, Missed
    <2> QED BY <1>1, <2>1, <2>2 DEF InitMoves, cardVars, Desc
  <1>5. CASE KinetisACMD41
    <2>1. pc = "K41a" /\ UNCHANGED cardVars
      BY <1>5 DEF KinetisACMD41
    <2>2. \/ card.state = "idle" /\ UNCHANGED desc /\ pc' \in {"K41", "CMD2"} /\ wire' = wire
          \/ NoInit
      BY <1>5 DEF KinetisACMD41, Results, Missed
    <2> QED BY <1>1, <2>1, <2>2 DEF InitMoves, cardVars, Desc
  <1>6. CASE ConditionLoop
    <2>1. pc = "K41" /\ store' = store
      BY <1>6 DEF ConditionLoop
    <2>2. PICK r \in Results(card.state = "idle"), ready \in BOOLEAN :
                 /\ card' = IF ready THEN GoTo("ready") ELSE card
                 /\ \/ r # "OK" /\ InitReturns(FALSE, desc)
                    \/ r = "OK" /\ ~ready /\ Step("K41") /\ UNCHANGED desc
                    \/ /\ r = "OK" /\ Step("CMD2")
                       /\ desc' = [desc EXCEPT !.highCapacity = Capacity(i + 1, ready)]
      BY <1>6 DEF ConditionLoop
    <2>3. CardStep /\ card'.kind = card.kind /\ (card'.state = "tran" => card.state = "tran")
      BY <1>1, <1>2, <2>1, <2>2
    <2>4. CASE UNCHANGED desc /\ pc' \in {"free", "K41"}
      BY <2>1, <2>2, <2>3, <2>4 DEF InitMoves
    <2>5. CASE desc' = [desc EXCEPT !.highCapacity = Capacity(i + 1, ready)] /\ Step("CMD2")
      <3>1. Capacity(i + 1, ready) \in BOOLEAN /\ (Capacity(i + 1, ready) => card.kind = "SDHC")
        BY DEF Capacity
      <3>2. desc' \in Desc /\ (desc'.highCapacity => card.kind = "SDHC")
        BY <2>5, <3>1 DEF Desc
      <3> QED BY <2>1, <2>3, <2>5, <3>2 DEF InitMoves, Desc
    <2> QED BY <2>2, <2>4, <2>5
  <1>7. CASE Identify
    <2>1. pc \in AfterLoop \ {"done"} /\ store' = store
      BY <1>7 DEF Identify
    <2>2. \/ card' = card
          \/ card' = GoTo("tran") /\ card.state = "ready"
      BY <1>7 DEF Identify, Serves
    <2>3. /\ desc' \in Desc /\ desc'.highCapacity = desc.highCapacity
          /\ pc' \in AfterLoop \cup {"free"} /\ wire' = wire
      BY <1>7 DEF Identify, NextCommand, Desc
    <2> QED BY <1>1, <1>2, <2>1, <2>2, <2>3 DEF InitMoves, Desc
  <1>8. CASE CMD9_GetParameters
    <2>1. pc = "CMD9" /\ UNCHANGED cardVars
      BY <1>8 DEF CMD9_GetParameters
    <2>2. /\ desc' \in Desc /\ desc'.highCapacity = desc.highCapacity
          /\ pc' \in AfterLoop \cup {"free"} /\ wire' = wire
      BY <1>8 DEF CMD9_GetParameters, NextCommand, WithParameters, Desc
    <2> QED BY <1>1, <2>1, <2>2 DEF InitMoves, cardVars, Desc
  <1>9. CASE InitCardDone
    <2>1. pc = "done" /\ UNCHANGED cardVars /\ InitReturns(TRUE, desc)
      BY <1>9 DEF InitCardDone
    <2> QED BY <1>1, <2>1 DEF InitMoves, cardVars, Desc
  <1> QED BY <1>3, <1>4, <1>5, <1>6, <1>7, <1>8, <1>9
-----------------------------------------------------------------------------
(* The builtin driver's transfers: a block moves only to where the card    *)
(* takes the address to be, where a write that was asked for lands.        *)
ToAsked == Takes(KinetisAddress) /\ (call.name = "write" => Addressed(KinetisAddress) \in Reached)

LEMMA WriteGoesToAsked ==
  ASSUME BuiltinInv, pc = "K24", Takes(KinetisAddress)
  PROVE  ToAsked
  <1>1. desc.highCapacity \in BOOLEAN /\ card.state = "tran" /\ ~Overrated
    BY DEF BuiltinInv, BuiltinAgrees, Takes
  <1>2. call.block \in Asked /\ (Landing \in Block => Landing \in Reached)
    BY DEF BuiltinInv, BuiltinWrites
  <1>3. CASE Underrated
    <2>1. Addressed(KinetisAddress) = (call.block * BlockBytes) % AddressMod
      BY <1>3 DEF Underrated, KinetisAddress, Addressed, AddressOf
    <2>2. Landing = (call.block * BlockBytes) % AddressMod
      BY <1>3 DEF Landing, Lands
    <2> QED BY <1>2, <2>1, <2>2 DEF ToAsked, Takes
  <1>4. CASE ~Underrated
    <2>1. ~desc.highCapacity <=> card.kind # "SDHC"
      BY <1>1, <1>4 DEF Overrated, Underrated
    <2>2. Addressed(KinetisAddress) = call.block
      BY <1>1, <1>2, <2>1, MeansTheBlock DEF KinetisAddress
    <2>3. Landing = call.block
      BY <1>4 DEF Landing, Lands
    <2> QED BY <1>2, <2>2, <2>3 DEF ToAsked, Takes
  <1> QED BY <1>3, <1>4

LEMMA TransferKeeps ==
  ASSUME BuiltinInv, pin = "builtin", CardStep, asked' = asked,
         card'.state = card.state, desc' = desc, call' = call,
         pc' = pc \/ pc' \in TransferLabels \cup {"free"},
         wire' = "moving" => pc' \in TransferLabels /\ (wire = "moving" \/ ToAsked)
  PROVE  BuiltinAgrees' /\ BuiltinWrites'
  <1>1. card'.kind = card.kind
    BY CardStepKeeps DEF BuiltinInv
  <1>2. BuiltinAgrees'
    BY <1>1, FollowingLabels
       DEF BuiltinInv, BuiltinAgrees, Overrated, TransferLabels
  <1>3. Takes(KinetisAddress) => Takes(KinetisAddress)'
    BY <1>1 DEF Takes, KinetisAddress, Addressed, AddressOf
  <1>4. Addressed(KinetisAddress)' = Addressed(KinetisAddress)
    BY <1>1 DEF KinetisAddress, Addressed, AddressOf
  <1>5. BuiltinWrites'
    BY <1>1, <1>3, <1>4
       DEF BuiltinInv, BuiltinWrites, Reached, ToAsked, Landing, Underrated, TransferLabels
  <1> QED BY <1>2, <1>5

LEMMA TransferStep ==
  ASSUME BuiltinInv, pin = "builtin", pin' = pin, asked' = asked,
         \/ KinetisCMD17 \/ KinetisCMD24 \/ LookBeforeRead \/ ReadChunk
         \/ WriteChunk \/ ClearBWR \/ LookAfterWrite \/ TransferComplete
         \/ Move \/ \E from : RaiseTC(from)
  PROVE  CardStep /\ BuiltinAgrees' /\ BuiltinWrites'
  <1> USE DEF Goto, Return, cardVars, callVars
  <1> DEFINE Result == CardStep /\ BuiltinAgrees' /\ BuiltinWrites'
  <1>0. card \in [kind : {"SD1", "SD2", "SDHC"}, state : {"idle", "ready", "tran"},
                  good : BOOLEAN, job : Job]
    BY DEF BuiltinInv, CardOK
  <1>1. ASSUME UNCHANGED <<cardVars, desc, call>>,
               pc' = pc \/ pc' \in TransferLabels \cup {"free"},
               wire' = "moving" => pc' \in TransferLabels /\ wire = "moving"
        PROVE  Result
    BY <1>1, TransferKeeps DEF CardStep
  <1>2. ASSUME NEW label \in {"K17", "K24"}, NEW next \in {"look", "push"},
               Transferring(label, next)
        PROVE  Result
    <2>1. UNCHANGED <<store, desc, call>> /\ pc = label
      BY <1>2 DEF Transferring, CMD_Do
    <2>2. CASE /\ pc' = next /\ wire' = IF Takes(KinetisAddress) THEN "moving" ELSE "silent"
               /\ card' = [card EXCEPT !.good = Takes(KinetisAddress)]
      <3>1. Takes(KinetisAddress) \in BOOLEAN
        BY DEF Takes
      <3>2. CardStep /\ card'.state = card.state
        BY <1>0, <2>1, <2>2, <3>1 DEF CardStep
      <3>3. Takes(KinetisAddress) => ToAsked
        BY <2>1, WriteGoesToAsked DEF ToAsked, BuiltinInv, BuiltinWrites
      <3> QED BY <2>1, <2>2, <3>2, <3>3, TransferKeeps DEF TransferLabels
    <2>3. CASE pc' = "free" /\ UNCHANGED <<card, wire>>
      <3>1. wire # "moving"
        BY <2>1 DEF BuiltinInv, BuiltinWrites, TransferLabels
      <3> QED BY <1>1, <2>1, <2>3, <3>1
    <2> QED BY <1>2, <2>2, <2>3 DEF Transferring
  <1>3. CASE KinetisCMD17 \/ KinetisCMD24
    BY <1>2, <1>3 DEF KinetisCMD17, KinetisCMD24
  <1>4. CASE LookBeforeRead \/ ReadChunk \/ WriteChunk \/ ClearBWR \/ LookAfterWrite
    <2>1. UNCHANGED <<cardVars, desc, call>>
      BY <1>4 DEF LookBeforeRead, ReadChunk, WriteChunk, ClearBWR, LookAfterWrite, StopTransfer
    <2>2. pc' \in TransferLabels /\ (wire' = wire \/ wire' = "stopped")
      BY <1>4 DEF LookBeforeRead, ReadChunk, WriteChunk, ClearBWR, LookAfterWrite,
                  StopTransfer, TransferLabels
    <2> QED BY <1>1, <2>1, <2>2
  <1>5. CASE TransferComplete
    BY <1>1, <1>5 DEF TransferComplete
  <1>6. CASE \E from : RaiseTC(from)
    BY <1>1, <1>6 DEF RaiseTC
  <1>7. CASE Move
    <2>1. UNCHANGED <<store, desc, call, pc>> /\ wire' # "moving"
      BY <1>7 DEF Move
    <2>2. CASE card' = card
      BY <1>1, <2>1, <2>2
    <2>3. CASE card' = [card EXCEPT !.good = FALSE]
      <3>1. CardStep /\ card'.state = card.state
        BY <1>0, <2>1, <2>3 DEF CardStep
      <3> QED BY <2>1, <3>1, TransferKeeps
    <2>4. CASE wire = "moving" /\ call.name = "write" /\ card' = Program(KinetisAddress)
      <3>1. Takes(KinetisAddress) /\ Addressed(KinetisAddress) \in Reached'
        BY <2>4 DEF BuiltinInv, BuiltinWrites, Reached
      <3>2. Gets("program", Addressed(KinetisAddress))
        BY <2>4, <3>1 DEF Gets, Program, Takes
      <3>3. CardStep /\ card'.state = card.state
        BY <1>0, <2>1, <2>4, <3>2 DEF CardStep, Program, Begin
      <3> QED BY <2>1, <3>3, TransferKeeps
    <2> QED BY <1>7, <2>2, <2>3, <2>4 DEF Move
  <1> QED BY <1>3, <1>4, <1>5, <1>6, <1>7
-----------------------------------------------------------------------------
(* The calls, and all steps together. *)
LEMMA CallMovesNothing ==
  ASSUME CardOK, JobAsked, OnlyTheBlock, UNCHANGED cardVars, pin' = pin, asked \subseteq asked'
  PROVE  CardStep /\ CardOK' /\ JobAsked' /\ OnlyTheBlock' /\ card'.kind = card.kind
  <1>1. CardStep
    BY DEF CardStep, cardVars
  <1> QED BY <1>1, CardStepKeeps

LEMMA InitStep == IInv /\ init => IInv'
  <1> SUFFICES ASSUME IInv, init PROVE IInv'
    OBVIOUS
  <1> USE DEF IInv
  <1>1. CASE Spi /\ \E now \in Millis : SD_init(now)
    <2>1. UNCHANGED <<cardVars, pin, asked>> /\ pin = "spi" /\ pc' = "CMD0" /\ inited' = FALSE
      BY <1>1 DEF init, Spi, SD_init, SpiCall, Call
    <2> QED BY <2>1, CallMovesNothing DEF SpiAgrees, SpiLabels
  <1>2. CASE Builtin /\ InitCard
    <2>1. /\ UNCHANGED <<cardVars, pin, asked>> /\ pin = "builtin" /\ pc' = "K0"
          /\ desc' = Fresh /\ wire' = "idle"
      BY <1>2 DEF init, Builtin, InitCard, Call
    <2>2. BuiltinAgrees' /\ BuiltinWrites'
      BY <2>1, FollowingLabels DEF BuiltinAgrees, BuiltinWrites, Fresh, Overrated
    <2> QED BY <2>1, <2>2, CallMovesNothing DEF SpiAgrees
  <1>3. CASE T3 /\ T3begin
    <2>1. UNCHANGED <<cardVars, pin, asked>> /\ pin = "t3"
      BY <1>3 DEF init, T3, T3begin, T3Rest, cardVars
    <2> QED BY <2>1, CallMovesNothing DEF SpiAgrees
  <1> QED BY <1>1, <1>2, <1>3 DEF init

LEMMA ReadStep == IInv /\ readBlock => IInv'
  <1> SUFFICES ASSUME IInv, readBlock PROVE IInv'
    OBVIOUS
  <1> USE DEF IInv
  <1>0. UNCHANGED <<inited, asked>> /\ Initialised
    BY DEF readBlock
  <1> PICK block \in Asked :
             \/ Spi /\ \E now \in Millis : SD_readBlock(block, now)
             \/ Builtin /\ ReadBlock(block)
             \/ T3 /\ T3read(block)
    BY DEF readBlock
  <1>1. CASE Spi /\ \E now \in Millis : SD_readBlock(block, now)
    <2>1. UNCHANGED <<cardVars, pin, type_>> /\ pin = "spi" /\ pc' = "CMD17" /\ inited
      BY <1>0, <1>1 DEF Initialised, Spi, SD_readBlock, SpiCall, Call
    <2> QED BY <1>0, <2>1, CallMovesNothing DEF SpiAgrees, SpiInitLabels
  <1>2. CASE Builtin /\ ReadBlock(block)
    <2>1. /\ UNCHANGED <<cardVars, pin, desc, wire>> /\ pin = "builtin" /\ pc = "free"
          /\ (pc' = "K17" /\ call'.name = "read") \/ pc' = "free"
      BY <1>2 DEF Builtin, ReadBlock, Transfer, Call
    <2>2. BuiltinAgrees' /\ BuiltinWrites'
      BY <1>0, <2>1, FollowingLabels
         DEF BuiltinAgrees, BuiltinWrites, Overrated, cardVars, TransferLabels
    <2> QED BY <1>0, <2>1, <2>2, CallMovesNothing DEF SpiAgrees
  <1>3. CASE T3 /\ T3read(block)
    <2>1. UNCHANGED <<cardVars, pin>> /\ pin = "t3"
      BY <1>3 DEF T3, T3read, T3Rest, cardVars
    <2> QED BY <1>0, <2>1, CallMovesNothing DEF SpiAgrees
  <1> QED BY <1>1, <1>2, <1>3

LEMMA WriteStep == IInv /\ writeBlock => IInv'
  <1> SUFFICES ASSUME IInv, writeBlock PROVE IInv'
    OBVIOUS
  <1> USE DEF IInv
  <1>0. inited' = inited /\ Initialised
    BY DEF writeBlock
  <1> PICK block \in Asked :
             /\ \/ Spi /\ \E now \in Millis : SD_writeBlock(block, now)
                \/ Builtin /\ WriteBlock(block)
             /\ LET a == [block |-> block, forgotten |-> LastPass]
                IN  asked' = IF Lands(a) \in Block THEN asked \cup {a} ELSE asked
    BY DEF writeBlock
  <1>1. CASE Spi /\ \E now \in Millis : SD_writeBlock(block, now)
    <2>1. UNCHANGED <<cardVars, pin, type_>> /\ pin = "spi" /\ inited /\ asked \subseteq asked'
      BY <1>0, <1>1 DEF Initialised, Spi, SD_writeBlock, SpiCall
    <2>2. block \in Block => block \in Reached'
      <3>1. ~LastPass
        BY <2>1 DEF LastPass
      <3>2. Lands([block |-> block, forgotten |-> LastPass]) = block
        BY <3>1 DEF Lands
      <3> QED BY <3>2 DEF Reached
    <2>3. pc' = "free" \/ (pc' = "CMD24" /\ call'.block = block /\ block # 0)
      BY <1>1 DEF SD_writeBlock, SpiCall, Call
    <2> QED BY <1>0, <2>1, <2>2, <2>3, CallMovesNothing DEF SpiAgrees, SpiInitLabels, SpiLabels
  <1>2. CASE Builtin /\ WriteBlock(block)
    <2>1. /\ UNCHANGED <<cardVars, pin, desc, wire>> /\ pin = "builtin" /\ pc = "free"
          /\ (pc' = "K24" /\ call'.block = block) \/ pc' = "free"
          /\ asked \subseteq asked'
      BY <1>2 DEF Builtin, WriteBlock, Transfer, Call
    <2>2. LET a == [block |-> block, forgotten |-> Underrated]
          IN  Lands(a) \in Block => Lands(a) \in Reached'
      BY <2>1 DEF LastPass, ByBlock, Underrated, Reached
    <2>3. BuiltinAgrees' /\ BuiltinWrites'
      BY <2>1, <2>2, FollowingLabels
         DEF BuiltinAgrees, BuiltinWrites, Landing, Overrated, Underrated, cardVars, TransferLabels
    <2> QED BY <2>1, <2>3, CallMovesNothing DEF SpiAgrees
  <1> QED BY <1>1, <1>2

LEMMA DriveStep == IInv /\ (Drive \/ Moves \/ Stops \/ Sends) => IInv'
  <1> SUFFICES ASSUME IInv, Drive \/ Moves \/ Stops \/ Sends PROVE IInv'
    OBVIOUS
  <1> USE DEF IInv
  <1>0. asked' = asked
    BY DEF Drive, Moves, Stops, Sends
  <1>1. CASE Drive /\ Spi /\ SpiStep
    <2>1. pin = "spi" /\ pin' = pin /\ SpiInv
      BY <1>1 DEF Spi, SpiInv
    <2>2. CardStep
      BY <1>0, <1>1, <2>1, SpiStepMoves
    <2>3. CardOK' /\ JobAsked' /\ OnlyTheBlock' /\ card'.kind = card.kind
      BY <2>2, CardStepKeeps
    <2>4. SpiAgrees'
      BY <1>0, <1>1, <2>1, <2>3, SpiStepAgrees DEF Drive, SpiDriven
    <2> QED BY <2>1, <2>3, <2>4
  <1>2. CASE Builtin /\ (KinetisStep \/ Move \/ \E from : RaiseTC(from))
    <2>1. pin = "builtin" /\ pin' = pin /\ BuiltinInv
      BY <1>2 DEF Builtin, BuiltinInv
    <2>2. CardStep /\ BuiltinAgrees' /\ BuiltinWrites'
      <3>1. CASE \/ KinetisCMD0 \/ KinetisCMD8 \/ KinetisACMD41 \/ ConditionLoop \/ Identify
                 \/ CMD9_GetParameters \/ InitCardDone
        <4>1. InitMoves
          BY <1>0, <2>1, <3>1, InitCommandMoves
        <4> QED BY <4>1, <2>1 DEF InitMoves, BuiltinInv, BuiltinWrites
      <3>2. CASE \/ KinetisCMD17 \/ KinetisCMD24 \/ LookBeforeRead \/ ReadChunk
                 \/ WriteChunk \/ ClearBWR \/ LookAfterWrite \/ TransferComplete
                 \/ Move \/ \E from : RaiseTC(from)
        BY <1>0, <2>1, <3>2, TransferStep
      <3> QED BY <1>2, <3>1, <3>2 DEF KinetisStep
    <2>3. CardOK' /\ JobAsked' /\ OnlyTheBlock'
      BY <2>2, CardStepKeeps
    <2> QED BY <2>1, <2>2, <2>3 DEF SpiAgrees
  <1>3. CASE T3 /\ (T3Step \/ T3Token)
    <2>1. pin = "t3" /\ pin' = pin /\ store' = store
      BY <1>3 DEF T3, T3Step, T3Token, sd_cmd0, sd_cmd8, sd_acmd41, sd_cmd58, T3Begun, sd_read,
                  T3Rest
    <2>2. card' = card \/ card' \in {GoTo("idle"), GoTo("tran")}
      BY <1>3 DEF T3Step, T3Token, sd_cmd0, sd_cmd8, sd_acmd41, sd_cmd58, T3Begun, sd_read
    <2>3. CardStep
      BY <1>0, <2>1, <2>2 DEF CardStep
    <2> QED BY <2>1, <2>3, CardStepKeeps DEF SpiAgrees
  <1> QED BY <1>1, <1>2, <1>3 DEF Drive, Moves, Stops, Sends

LEMMA ProgramStep == IInv /\ Programs => IInv'
  <1> SUFFICES ASSUME IInv, Programs PROVE IInv'
    OBVIOUS
  <1> USE DEF IInv
  <1>1. UNCHANGED <<type_, call, pc, desc, wire, pin, inited, asked>>
    BY DEF Programs, FinishProgramming, callVars, kinetisVars
  <1>2. PICK good \in BOOLEAN : card' = [card EXCEPT !.job = NoJob, !.good = good]
    BY DEF Programs, FinishProgramming
  <1>3. card'.kind = card.kind /\ card'.state = card.state /\ card'.job = NoJob
    BY <1>2 DEF CardOK
  <1>4. /\ card.job.block \in Block /\ card.job.block \in Reached
        /\ pin = "spi" => card.job.block # 0
    BY DEF Programs, FinishProgramming, Programming, CardOK, Job, NoJob, JobAsked
  <1>5. store' = store \/ store' = [store EXCEPT ![card.job.block] = New]
    BY DEF Programs, FinishProgramming
  <1>6. CardOK' /\ JobAsked'
    BY <1>1, <1>2, <1>3, <1>4, <1>5 DEF CardOK, JobAsked, Job, NoJob, Content
  <1>7. OnlyTheBlock'
    BY <1>1, <1>4, <1>5 DEF OnlyTheBlock, CardOK, Reached
  <1>8. SpiAgrees'
    BY <1>1, <1>3 DEF SpiAgrees, Reached
  <1>9. BuiltinAgrees => BuiltinAgrees'
    BY <1>1, <1>3 DEF BuiltinAgrees, Overrated
  <1>10. BuiltinWrites => BuiltinWrites'
    <2>1. Takes(KinetisAddress) => Takes(KinetisAddress)'
      BY <1>1, <1>3 DEF Takes, KinetisAddress, Addressed, AddressOf
    <2>2. Addressed(KinetisAddress)' = Addressed(KinetisAddress)
      BY <1>1, <1>3 DEF KinetisAddress, Addressed, AddressOf
    <2> QED BY <1>1, <1>3, <2>1, <2>2 DEF BuiltinWrites, Landing, Reached, Underrated
  <1> QED BY <1>1, <1>6, <1>7, <1>8, <1>9, <1>10

LEMMA InitInv == Init => IInv
  <1> SUFFICES ASSUME Init PROVE IInv
    OBVIOUS
  <1>1. CardOK /\ card.job = NoJob /\ store = [b \in Block |-> b] /\ pc = "free"
    BY Sizes DEF Init, CardInit, CardOK, Job, Content
  <1>2. JobAsked /\ OnlyTheBlock
    BY <1>1 DEF JobAsked, OnlyTheBlock, NoJob
  <1>3. SpiAgrees
    BY <1>1 DEF Init, SpiAgrees, SpiLabels, SpiInitLabels
  <1>4. BuiltinAgrees /\ BuiltinWrites
    BY <1>1, FollowingLabels
       DEF Init, KinetisInit, Fresh, BuiltinAgrees, BuiltinWrites, Overrated
  <1> QED BY <1>1, <1>2, <1>3, <1>4 DEF IInv

LEMMA StepInv == IInv /\ [Next]_vars => IInv'
  <1>1. IInv /\ UNCHANGED vars => IInv'
    BY DEF IInv, vars, cardVars, callVars, kinetisVars, CardOK, JobAsked, OnlyTheBlock, SpiAgrees,
           BuiltinAgrees, BuiltinWrites, Overrated, Underrated, Takes, KinetisAddress, Addressed,
           AddressOf, Landing, Reached
  <1> QED BY <1>1, InitStep, ReadStep, WriteStep, DriveStep, ProgramStep DEF Next

(* Nothing on the card changes but what a call was asked to write: for     *)
(* every kind of card and every size, whatever commands it misses and      *)
(* whatever a call takes for its answer.  The exception is a card of high  *)
(* capacity that the builtin driver takes for another when the write is    *)
(* called: there the block changes whose number is the byte address of the *)
(* one that was asked for, and no other.                                   *)
THEOREM WritesOnlyTheBlock == Spec => []OnlyTheBlock
  <1>1. IInv => OnlyTheBlock
    BY DEF IInv
  <1> QED BY InitInv, StepInv, <1>1, PTL DEF Spec
-----------------------------------------------------------------------------
(* Addresses agree once an init has returned true.  Each driver knows the  *)
(* kind of the card and its state by the place it has come to; i is        *)
(* MaxCount from the last pass of the loop to the end of the init.         *)
DataLabels == {"CMD17", "token", "CMD24", "data", "program", "CMD13", "K17", "K24", "cmd17", "t3token"}
              \cup TransferLabels

InitAgrees ==
  /\ AddressingAgrees
  /\ pc \in DataLabels => call.name # "init"
  /\ pin = "spi" /\ pc \in {"CMD58", "rate"} => card.state = "tran"
  /\ pin = "builtin" =>
       /\ pc = "K41" => i \in 0 .. MaxCount - 1
       /\ pc \in AfterLoop /\ card.state # "idle" /\ Underrated => i = MaxCount
       /\ pc \in {"CMD3", "CMD9", "CMD7"} => card.state = "ready"
       /\ pc \in {"CMD16", "ACMD6", "done"} => card.state = "tran"
  /\ pin = "t3" =>
       /\ pc \in {"acmd41", "cmd58", "begun"} =>
            card_type \in 1 .. 3 /\ (card_type >= 2 => card.kind # "SD1")
       /\ pc = "cmd58" => card_type = 2
       /\ pc \in {"cmd58", "begun"} =>
            card.state = "tran" /\ (card.kind = "SDHC" => card_type >= 2)

(* A step that leaves what matters keeps the agreement, and so does one    *)
(* that begins a call, ends one in vain, or is within a read or a write.   *)
LEMMA LeavesAgrees ==
  ASSUME InitAgrees, card'.kind = card.kind, card'.state = card.state,
         UNCHANGED <<type_, call, pc, reply, desc, i, pin, card_type>>
  PROVE  InitAgrees'
  BY DEF InitAgrees, AddressingAgrees, Returned, ByBlock, LastPass, StandardV2, Underrated

LEMMA OtherwiseAgrees ==
  ASSUME \/ pc' \in {"CMD0", "K0", "cmd0"}
         \/ pc' \in DataLabels \cup {"free"} /\ call'.name # "init"
         \/ pc' = "free" /\ reply'.ok = FALSE
  PROVE  InitAgrees'
  BY DEF InitAgrees, AddressingAgrees, Returned, DataLabels, TransferLabels, AfterLoop

LEMMA SpiStepInits ==
  ASSUME SpiInv, InitAgrees, pin = "spi", pin' = pin, UNCHANGED <<desc, i, card_type>>, SpiStep
  PROVE  InitAgrees'
  <1> USE Endings
  <1>1. CASE Wait
    BY <1>1, LeavesAgrees DEF Wait, WaitNotBusy, cardVars, callVars
  <1>2. ASSUME pc' \in {"CMD0", "CMD8", "ACMD41"} PROVE InitAgrees'
    BY <1>2 DEF InitAgrees, AddressingAgrees, Returned, DataLabels, TransferLabels, AfterLoop
  <1>3. CASE InitCMD0
    <2>1. pc = "CMD0"
      BY <1>3 DEF InitCMD0, Command
    <2> QED BY <1>2, <1>3, <2>1, OtherwiseAgrees DEF InitCMD0
  <1>4. CASE InitCMD8
    BY <1>2, <1>4, OtherwiseAgrees DEF InitCMD8
  <1>5. CASE InitACMD41
    <2>1. pc = "ACMD41"
      BY <1>5 DEF InitACMD41, Command
    <2>2. CASE card' = GoTo("tran") /\ pc' \in {"CMD58", "rate"}
      <3>1. card'.state = "tran"
        BY <2>2 DEF GoTo, SpiInv, CardOK
      <3> QED BY <2>2, <3>1
              DEF InitAgrees, AddressingAgrees, Returned, DataLabels, TransferLabels, AfterLoop
    <2>3. \/ card' = GoTo("tran") /\ pc' \in {"CMD58", "rate"}
          \/ pc' = "ACMD41" \/ (pc' = "free" /\ reply'.ok = FALSE)
      BY <1>5, <2>1 DEF InitACMD41
    <2> QED BY <1>2, <2>2, <2>3, OtherwiseAgrees
  <1>6. CASE InitCMD58
    <2>1. pc = "CMD58" /\ card' = card
      BY <1>6 DEF InitCMD58, Command, cardVars
    <2>2. CASE pc' = "rate"
      <3>1. card.state = "tran"
        BY <2>1 DEF InitAgrees
      <3> QED BY <2>1, <2>2, <3>1
              DEF InitAgrees, AddressingAgrees, Returned, DataLabels, TransferLabels, AfterLoop
    <2> QED BY <1>6, <2>2, OtherwiseAgrees DEF InitCMD58
  <1>7. CASE InitDone
    <2>1. pc = "rate" /\ card' = card /\ type_' = type_ /\ pc' = "free"
      BY <1>7 DEF InitDone, cardVars
    <2>2. card.state = "tran" /\ (type_ = "SDHC" <=> card.kind = "SDHC")
      BY <2>1 DEF InitAgrees, SpiInv, SpiAgrees, SpiLabels
    <2> QED BY <2>1, <2>2
            DEF InitAgrees, AddressingAgrees, ByBlock, DataLabels, TransferLabels, AfterLoop
  <1>8. ASSUME pc \in DataLabels, call' = call, pc' \in DataLabels \cup {"free"}
        PROVE  InitAgrees'
    BY <1>8, OtherwiseAgrees DEF InitAgrees
  <1>9. CASE ReadCMD17 \/ WriteCMD24 \/ ReadToken \/ WriteData \/ WriteProgram \/ WriteCMD13
    BY <1>8, <1>9
       DEF ReadCMD17, WriteCMD24, ReadToken, WriteData, WriteProgram, WriteCMD13, BlockCommand,
           Command, DataLabels
  <1> QED BY <1>1, <1>3, <1>4, <1>5, <1>6, <1>7, <1>9 DEF SpiStep

LEMMA T3StepInits ==
  ASSUME CardOK, InitAgrees, pin = "t3", pin' = pin, UNCHANGED <<type_, desc, i>>,
         T3Step \/ T3Token
  PROVE  InitAgrees'
  <1> USE DEF Continue, T3Returns, Return, Goto, R1
  <1>1. ASSUME pc' \in {"cmd0", "cmd8"} PROVE InitAgrees'
    BY <1>1 DEF InitAgrees, AddressingAgrees, Returned, DataLabels, TransferLabels, AfterLoop
  <1>2. CASE sd_cmd0
    <2>1. pc' \in {"cmd0", "cmd8"} \/ (pc' = "free" /\ reply'.ok = FALSE)
      BY <1>2 DEF sd_cmd0, Repeat
    <2> QED BY <1>1, <2>1, OtherwiseAgrees
  <1>3. CASE sd_cmd8
    <2>1. CASE pc' = "acmd41"
      <3>1. card' = card /\ card_type' \in 1 .. 3 /\ (card_type' >= 2 => card.kind # "SD1")
        BY <1>3, <2>1 DEF sd_cmd8
      <3> QED BY <2>1, <3>1
              DEF InitAgrees, AddressingAgrees, Returned, DataLabels, TransferLabels, AfterLoop
    <2>2. pc' = "acmd41" \/ (pc' = "free" /\ reply'.ok = FALSE)
      BY <1>3 DEF sd_cmd8
    <2> QED BY <2>1, <2>2, OtherwiseAgrees
  <1>4. CASE sd_acmd41
    <2>1. pc = "acmd41" /\ card_type' = card_type
      BY <1>4 DEF sd_acmd41
    <2>2. card_type \in 1 .. 3 /\ (card_type >= 2 => card.kind # "SD1")
      BY <2>1 DEF InitAgrees
    <2>3. CASE /\ card.kind = "SDHC" => card_type = 2
               /\ card' = GoTo("tran") /\ pc' = (IF card_type = 2 THEN "cmd58" ELSE "begun")
      <3>1. card'.state = "tran" /\ card'.kind = card.kind
        BY <2>3 DEF GoTo, CardOK
      <3> QED BY <2>1, <2>2, <2>3, <3>1
              DEF InitAgrees, AddressingAgrees, Returned, DataLabels, TransferLabels, AfterLoop
    <2>4. CASE pc' = "acmd41" /\ card' = card
      BY <2>1, <2>2, <2>4
         DEF InitAgrees, AddressingAgrees, Returned, DataLabels, TransferLabels, AfterLoop
    <2>5. \/ /\ card.kind = "SDHC" => card_type = 2
             /\ card' = GoTo("tran") /\ pc' = (IF card_type = 2 THEN "cmd58" ELSE "begun")
          \/ pc' = "acmd41" /\ card' = card
          \/ pc' = "free" /\ reply'.ok = FALSE
      BY <1>4, <2>1 DEF sd_acmd41, Repeat
    <2> QED BY <2>3, <2>4, <2>5, OtherwiseAgrees
  <1>5. CASE sd_cmd58
    <2>1. pc = "cmd58" /\ pc' = "begun" /\ card' = card /\ card_type' \in {3, card_type}
          /\ (card_type' = 3 => card.kind = "SDHC" \/ card_type = 3)
      BY <1>5 DEF sd_cmd58
    <2>2. card.state = "tran" /\ card.kind # "SD1" /\ card_type = 2
      BY <2>1 DEF InitAgrees
    <2> QED BY <2>1, <2>2
            DEF InitAgrees, AddressingAgrees, Returned, DataLabels, TransferLabels, AfterLoop
  <1>6. CASE T3Begun
    <2>1. pc = "begun" /\ pc' = "free" /\ card' = card /\ card_type' = card_type
      BY <1>6 DEF T3Begun
    <2>2. /\ card.state = "tran" /\ card_type \in 1 .. 3
          /\ card_type >= 2 => card.kind # "SD1"
          /\ card.kind = "SDHC" => card_type >= 2
      BY <2>1 DEF InitAgrees
    <2>3. card.kind \in {"SD1", "SD2", "SDHC"}
      BY DEF CardOK
    <2> QED BY <2>1, <2>2, <2>3
            DEF InitAgrees, AddressingAgrees, Returned, ByBlock, StandardV2, DataLabels,
                TransferLabels, AfterLoop
  <1>7. CASE sd_read \/ T3Token
    <2>1. pc \in DataLabels /\ call' = call /\ pc' \in DataLabels \cup {"free"}
      BY <1>7 DEF sd_read, T3Token, DataLabels
    <2> QED BY <2>1, OtherwiseAgrees DEF InitAgrees
  <1> QED BY <1>2, <1>3, <1>4, <1>5, <1>6, <1>7 DEF T3Step

LEMMA KinetisStepInits ==
  ASSUME BuiltinInv, InitAgrees, pin = "builtin", pin' = pin, card_type' = card_type,
         KinetisStep
  PROVE  InitAgrees'
  <1> USE FollowingLabels DEF CMD_Do, Step, Goto
  <1>0. /\ card.kind \in {"SD1", "SD2", "SDHC"} /\ desc \in Desc /\ MaxCount \in Nat \ {0}
        /\ pc = "K41" => i \in 0 .. MaxCount - 1
        /\ pc \in AfterLoop /\ card.state # "idle" /\ Underrated => i = MaxCount
        /\ pc \in AfterLoop /\ card.state # "idle" => ~Overrated
        /\ pc \in {"CMD3", "CMD9", "CMD7"} => card.state = "ready"
        /\ pc \in {"CMD16", "ACMD6", "done"} => card.state = "tran"
    BY CountAssumption DEF InitAgrees, BuiltinInv, BuiltinAgrees, CardOK, Desc, AfterLoop
  <1>1. ASSUME NEW d, NoInit \/ InitReturns(FALSE, d) PROVE InitAgrees'
    <2>1. pc' = "free" /\ reply'.ok = FALSE
      BY <1>1 DEF NoInit, InitReturns, Return
    <2> QED BY <2>1, OtherwiseAgrees
  <1>2. ASSUME pc' \in {"K8", "K41a"} PROVE InitAgrees'
    BY <1>2 DEF InitAgrees, AddressingAgrees, Returned, DataLabels, TransferLabels, AfterLoop
  <1>3. CASE KinetisCMD0 \/ KinetisCMD8
    BY <1>1, <1>2, <1>3 DEF KinetisCMD0, KinetisCMD8
  <1>4. CASE KinetisACMD41
    <2>1. CASE /\ card' = card /\ desc' = desc /\ i' = 0
               /\ pc' = "K41" \/ (pc' = "CMD2" /\ card.state = "idle")
      BY <1>0, <2>1
         DEF InitAgrees, AddressingAgrees, Returned, DataLabels, TransferLabels, AfterLoop
    <2> QED BY <1>1, <1>4, <2>1 DEF KinetisACMD41, Results, Missed, cardVars
  <1>5. CASE ConditionLoop
    <2>1. PICK r \in Results(card.state = "idle"), ready \in BOOLEAN :
                 /\ ready => CanGetReady
                 /\ card' = IF ready THEN GoTo("ready") ELSE card
                 /\ \/ InitReturns(FALSE, desc)
                    \/ /\ i + 1 < MaxCount
                       /\ i' = i + 1 /\ Step("K41") /\ UNCHANGED desc
                    \/ /\ r = "OK" /\ (ready \/ i + 1 = MaxCount)
                       /\ desc' = [desc EXCEPT !.highCapacity = Capacity(i + 1, ready)]
                       /\ i' = i + 1 /\ Step("CMD2")
      BY <1>5 DEF ConditionLoop
    <2>2. pc = "K41" /\ i \in 0 .. MaxCount - 1
      BY <1>0, <1>5 DEF ConditionLoop
    <2>3. CASE i + 1 < MaxCount /\ i' = i + 1 /\ pc' = "K41"
      BY <1>0, <2>2, <2>3
         DEF InitAgrees, AddressingAgrees, Returned, DataLabels, TransferLabels, AfterLoop
    <2>4. CASE /\ r = "OK" /\ i' = i + 1 /\ pc' = "CMD2"
               /\ desc' = [desc EXCEPT !.highCapacity = Capacity(i + 1, ready)]
      <3>1. card'.kind = card.kind /\ desc'.highCapacity = Capacity(i + 1, ready)
        BY <1>0, <2>1, <2>4 DEF GoTo, Desc, BuiltinInv, CardOK
      <3>2. ~ready => card'.state = "idle"
        BY <2>1, <2>4 DEF Results, Missed
      <3>3. ready /\ Underrated' => i' = MaxCount
        BY <2>1, <2>2, <2>4, <3>1, <1>0 DEF Underrated, Capacity, CanGetReady
      <3> QED BY <2>4, <3>2, <3>3
              DEF InitAgrees, AddressingAgrees, Returned, DataLabels, TransferLabels, AfterLoop
    <2> QED BY <1>1, <2>1, <2>3, <2>4
  <1>6. ASSUME pc \in DOMAIN Following, i' = i, pc' = Following[pc], desc'.highCapacity = desc.highCapacity,
               card'.kind = card.kind, Serves(pc),
               card'.state = IF pc = "CMD7" THEN "tran" ELSE card.state
        PROVE  InitAgrees'
    <2>1. Underrated' => Underrated
      BY <1>6 DEF Underrated
    <2>2. pc' \in AfterLoop \ {"CMD2"} /\ card.state # "idle"
      BY <1>6 DEF Serves, Following, AfterLoop
    <2>3. /\ pc' \in {"CMD3", "CMD9", "CMD7"} => card'.state = "ready"
          /\ pc' \in {"CMD16", "ACMD6", "done"} => card'.state = "tran"
      BY <1>6, <1>0 DEF Serves, Following
    <2>4. pc \in AfterLoop
      BY <1>6 DEF AfterLoop
    <2> QED BY <1>0, <1>6, <2>1, <2>2, <2>3, <2>4
            DEF InitAgrees, AddressingAgrees, Returned, DataLabels, TransferLabels, AfterLoop
  <1>7. CASE Identify
    <2>1. PICK r \in Results(Serves(pc)) :
                 /\ card' = IF pc = "CMD7" /\ Serves(pc) /\ r \in Taken THEN GoTo("tran") ELSE card
                 /\ NextCommand(r, desc)
      BY <1>7 DEF Identify
    <2>2. CASE r = "OK" /\ i' = i /\ pc' = Following[pc] /\ desc' = desc
      <3>1. Serves(pc) /\ r \in Taken
        BY <2>1, <2>2 DEF Results, Taken, Missed
      <3>2. card'.kind = card.kind /\ card'.state = (IF pc = "CMD7" THEN "tran" ELSE card.state)
        BY <2>1, <3>1 DEF GoTo, BuiltinInv, CardOK
      <3> QED BY <1>6, <1>7, <2>2, <3>1, <3>2 DEF Identify
    <2> QED BY <1>1, <2>1, <2>2 DEF NextCommand
  <1>8. CASE CMD9_GetParameters
    <2>1. PICK r \in Results(Serves("CMD9")) : NextCommand(r, WithParameters)
      BY <1>8 DEF CMD9_GetParameters
    <2>2. pc = "CMD9" /\ card' = card
      BY <1>8 DEF CMD9_GetParameters, cardVars
    <2>3. CASE r = "OK" /\ i' = i /\ pc' = Following[pc] /\ desc' = WithParameters
      <3>1. Serves(pc)
        BY <2>1, <2>2, <2>3 DEF Results, Missed
      <3>2. desc'.highCapacity = desc.highCapacity
        BY <1>0, <2>3 DEF WithParameters, Desc
      <3> QED BY <1>6, <2>2, <2>3, <3>1, <3>2
    <2> QED BY <1>1, <2>1, <2>3 DEF NextCommand
  <1>9. CASE InitCardDone
    <2>1. /\ pc = "done" /\ pc' = "free" /\ card' = card
          /\ UNCHANGED <<desc, i, call>>
      BY <1>9 DEF InitCardDone, InitReturns, Return, cardVars
    <2>2. card.state = "tran" /\ ~Overrated /\ (Underrated => i = MaxCount)
      BY <1>0, <2>1 DEF AfterLoop
    <2>3. (desc.highCapacity <=> card.kind = "SDHC") \/ (Underrated /\ i = MaxCount)
      BY <1>0, <2>2 DEF Overrated, Underrated, Desc
    <2> QED BY <2>1, <2>2, <2>3
            DEF InitAgrees, AddressingAgrees, ByBlock, LastPass, Underrated, DataLabels,
                TransferLabels, AfterLoop
  <1>10. CASE \/ KinetisCMD17 \/ KinetisCMD24 \/ LookBeforeRead \/ ReadChunk \/ WriteChunk
              \/ ClearBWR \/ LookAfterWrite \/ TransferComplete
    <2>1. pc \in DataLabels /\ call' = call /\ pc' \in DataLabels \cup {"free"}
      BY <1>10
         DEF KinetisCMD17, KinetisCMD24, Transferring, LookBeforeRead, ReadChunk, WriteChunk,
             ClearBWR, LookAfterWrite, StopTransfer, TransferComplete, Return, DataLabels,
             TransferLabels
    <2> QED BY <2>1, OtherwiseAgrees DEF InitAgrees
  <1> QED BY <1>3, <1>4, <1>5, <1>7, <1>8, <1>9, <1>10 DEF KinetisStep

(* What a write starts, whatever becomes of the writes called so far.      *)
WriteStarts ==
  \E block \in Asked :
    \/ Spi /\ \E now \in Millis : SD_writeBlock(block, now)
    \/ Builtin /\ WriteBlock(block)

LEMMA WriteCalled == ASSUME writeBlock PROVE WriteStarts
  BY DEF writeBlock, WriteStarts

LEMMA InitAgreesStep ==
  ASSUME IInv, InitAgrees, [Next]_vars
  PROVE  InitAgrees'
  <1> USE DEF IInv
  <1>1. CASE init
    <2>1. pc' \in {"CMD0", "K0", "cmd0"}
      BY <1>1 DEF init, SD_init, SpiCall, InitCard, T3begin, Call
    <2> QED BY <2>1, OtherwiseAgrees
  <1>2. CASE readBlock \/ writeBlock
    <2>1. pc' \in DataLabels \cup {"free"} /\ call'.name # "init"
      BY <1>2, WriteCalled
         DEF readBlock, WriteStarts, SD_readBlock, SD_writeBlock, SpiCall, ReadBlock, WriteBlock,
             Transfer, T3read, Call, DataLabels
    <2> QED BY <2>1, OtherwiseAgrees
  <1>3. CASE Drive
    <2>1. CASE Spi /\ SpiStep
      BY <2>1, SpiStepInits DEF Spi, kinetisVars, t3Vars, SpiInv
    <2>2. CASE Builtin /\ KinetisStep
      BY <2>2, KinetisStepInits DEF Builtin, t3Vars, BuiltinInv
    <2>3. CASE T3 /\ T3Step
      <3>1. type_' = type_
        BY <2>3 DEF T3Step, sd_cmd0, sd_cmd8, sd_acmd41, sd_cmd58, T3Begun, sd_read, T3Rest
      <3> QED BY <2>3, <3>1, T3StepInits DEF T3, kinetisVars
    <2> QED BY <1>3, <2>1, <2>2, <2>3 DEF Drive
  <1>4. CASE Moves \/ Stops
    <2>1. UNCHANGED <<type_, call, pc, reply, desc, i, pin, card_type>>
      BY <1>4 DEF Moves, Stops, Builtin, Move, RaiseTC, callVars, t3Vars
    <2>2. card'.kind = card.kind /\ card'.state = card.state
      BY <1>4 DEF Moves, Stops, Move, RaiseTC, cardVars, Program, Begin, CardOK
    <2> QED BY <2>1, <2>2, LeavesAgrees
  <1>5. CASE Sends
    <2>1. type_' = type_
      BY <1>5 DEF Sends, T3Token, T3Rest
    <2> QED BY <1>5, <2>1, T3StepInits DEF Sends, T3, kinetisVars
  <1>6. CASE Programs
    <2>1. UNCHANGED <<type_, call, pc, reply, desc, i, pin, card_type>>
      BY <1>6 DEF Programs, FinishProgramming, callVars, kinetisVars, t3Vars
    <2>2. card'.kind = card.kind /\ card'.state = card.state
      BY <1>6 DEF Programs, FinishProgramming, CardOK
    <2> QED BY <2>1, <2>2, LeavesAgrees
  <1>7. CASE UNCHANGED vars
    BY <1>7, LeavesAgrees DEF vars, cardVars, callVars, kinetisVars, t3Vars
  <1> QED BY <1>1, <1>2, <1>3, <1>4, <1>5, <1>6, <1>7 DEF Next

(* An init that returned true has left the card ready, and driver and card *)
(* mean the same by an address, whatever commands the card has missed on   *)
(* the way; but in the two cases of the property.                          *)
THEOREM AddressesAgree == Spec => []AddressingAgrees
  <1>1. Init => InitAgrees
    BY DEF Init, CardInit, InitAgrees, AddressingAgrees, Returned, DataLabels, TransferLabels,
           AfterLoop
  <1>2. InitAgrees => AddressingAgrees
    BY DEF InitAgrees
  <1>3. IInv /\ InitAgrees /\ [Next]_vars => InitAgrees'
    BY InitAgreesStep
  <1> QED BY InitInv, StepInv, <1>1, <1>2, <1>3, PTL DEF Spec
-----------------------------------------------------------------------------
(* A call that returned true has done what it was called for.  The labels  *)
(* tell the calls apart, and a block that is read or written is one that   *)
(* the drivers may be asked for.                                           *)
InitLabels == {"CMD0", "CMD8", "ACMD41", "CMD58", "rate", "K0", "K8", "K41a", "K41",
               "cmd0", "cmd8", "acmd41", "cmd58", "begun"} \cup AfterLoop

Named ==
  /\ pc \in InitLabels => call.name = "init"
  /\ pc \in {"CMD17", "token", "cmd17", "t3token"} => call.name = "read"
  /\ pc \in {"CMD24", "data", "program", "CMD13"} => call.name = "write"
  /\ pc \in DataLabels => call.name \in {"read", "write"} /\ call.block \in Asked

(* SPI: what the card sends or takes is the block of the call, and when    *)
(* the driver asks for the status the card has programmed it or says that  *)
(* it has not.  A card still busy with an earlier block, which the driver  *)
(* may take for a ready one, neither sends nor takes.                      *)
Written == card.good => store[call.block] = New

SpiDone ==
  /\ pc = "token" /\ card.job.what = "send" => card.job.block = call.block
  /\ pc = "data" /\ card.job.what = "take" => card.job.block = call.block
  /\ pc = "program" => call.block \in Block /\ IF Programming THEN card.job.block = call.block
                                                ELSE Written
  /\ pc = "CMD13" => call.block \in Block /\ ~Programming /\ Written
  /\ Returned("read") \/ Returned("write") => ~Programming

(* Builtin: the wire is at rest but in a transfer, an error flag or a      *)
(* transfer that went wrong leaves no good card, and TC comes when the     *)
(* card has programmed the block.                                          *)
BuiltinDone ==
  /\ pc \notin TransferLabels => wire = "idle" /\ irq = {}
  /\ wire \in {"silent", "corrupt", "timed out", "stopped"} \/ "error" \in irq =>
       ~card.good /\ ~Programming
  /\ wire = "moving" => "error" \notin irq
  /\ "TC" \in irq => wire = "done"
  /\ Programming =>
       wire = "ended" /\ call.name = "write" /\ card.job.block = Addressed(KinetisAddress)
  /\ pc \in TransferLabels /\ (card.good \/ Programming) => Takes(KinetisAddress)
  /\ pc \in TransferLabels /\ wire \in {"ended", "done"} /\ call.name = "write"
       /\ ~Programming /\ card.good => store[Addressed(KinetisAddress)] = New

(* The second library: the card is never busy.                             *)
T3Done ==
  /\ card.job = NoJob /\ card_type \in 0 .. 3
  /\ pc \in InitLabels => ~inited
  /\ inited \/ pc \in {"cmd17", "t3token"} => (ByBlock <=> card.kind = "SDHC") \/ StandardV2
  /\ pc = "t3token" => Takes(T3Address)

DoneInv ==
  /\ TrueMeansDone /\ Named
  /\ pin = "spi" => SpiDone
  /\ pin = "builtin" => BuiltinDone
  /\ pin = "t3" => T3Done

LEMMA NoReturn ==
  ASSUME pc' # "free" \/ reply'.ok = FALSE \/ call'.name \notin {"read", "write"}
  PROVE  Done' /\ ~(Returned("read") \/ Returned("write"))'
  BY DEF Done, Returned

(* An init command keeps to its labels. *)
LEMMA InitKeepsName ==
  ASSUME Named, pc \in InitLabels, call' = call, pc' \in InitLabels \cup {"free"}
  PROVE  /\ Named' /\ Done' /\ ~(Returned("read") \/ Returned("write"))'
         /\ pc' \notin DataLabels
  <1>1. call'.name = "init"
    BY DEF Named
  <1>2. pc' \notin DataLabels
    BY DEF InitLabels, AfterLoop, DataLabels, TransferLabels
  <1> QED BY <1>1, <1>2, NoReturn DEF Named, DataLabels

(* A read or a write keeps to its own.                                     *)
LEMMA DataKeepsName ==
  ASSUME Named, call' = call, pc \in DataLabels,
         \/ pc' = pc
         \/ pc \in {"CMD17", "token", "cmd17", "t3token"} /\ pc' \in {"token", "t3token"}
         \/ pc \in {"CMD24", "data", "program"} /\ pc' \in {"data", "program", "CMD13"}
         \/ pc' \in TransferLabels \cup {"free"}
  PROVE  Named'
  BY DEF Named, DataLabels, InitLabels, AfterLoop, TransferLabels
-----------------------------------------------------------------------------
LEMMA SpiCardCommand ==
  ASSUME CardOK, SpiAgrees, Named, SpiDone, pin = "spi", pin' = pin,
         ReadCMD17 \/ WriteCMD24
  PROVE  Named' /\ SpiDone' /\ Done'
  <1>1. ASSUME NEW name, NEW job, NEW label, BlockCommand(name, job, label),
               \/ name = "CMD17" /\ job = "send" /\ label = "token"
               \/ name = "CMD24" /\ job = "take" /\ label = "data"
        PROVE  Named' /\ SpiDone' /\ Done'
    <2>1. pc = name /\ store' = store
      BY <1>1 DEF BlockCommand, Command
    <2>2. call.block \in Asked /\ (type_ # "SDHC" <=> card.kind # "SDHC")
      BY <1>1, <2>1 DEF Named, DataLabels, SpiAgrees, SpiLabels
    <2>3. Addressed(Address) = call.block
      BY <2>2, MeansTheBlock DEF Address
    <2>4. CASE Fail /\ card' = card
      <3>1. pc' = "free" /\ call' = call /\ reply'.ok = FALSE
        BY <2>4, Endings
      <3> QED BY <1>1, <2>1, <3>1, NoReturn, DataKeepsName DEF SpiDone, DataLabels
    <2>5. CASE Then(label) /\ card' = (IF Programming THEN card ELSE Begin(job, Addressed(Address)))
      <3>1. pc' = label /\ call' = call
        BY <2>5, Endings
      <3>2. card'.job.what = job => card'.job.block = call'.block
        BY <1>1, <2>3, <2>5, <3>1 DEF Programming, Begin, CardOK
      <3>3. Done' /\ ~(Returned("read") \/ Returned("write"))'
        BY <1>1, <3>1, NoReturn
      <3> QED BY <1>1, <2>1, <3>1, <3>2, <3>3, DataKeepsName DEF SpiDone, DataLabels
    <2> QED BY <1>1, <2>4, <2>5 DEF BlockCommand
  <1> QED BY <1>1 DEF ReadCMD17, WriteCMD24

LEMMA SpiDoneStep ==
  ASSUME CardOK, SpiAgrees, Named, SpiDone, pin = "spi", pin' = pin, SpiStep
  PROVE  Named' /\ SpiDone' /\ Done'
  <1> USE Endings
  <1> DEFINE Result == Named' /\ SpiDone' /\ Done'
  <1>0. card \in [kind : {"SD1", "SD2", "SDHC"}, state : {"idle", "ready", "tran"},
                  good : BOOLEAN, job : Job]
    BY DEF CardOK
  <1>1. CASE Wait
    <2>1. UNCHANGED <<card, store, call, pc, reply>> /\ pc # "free"
      BY <1>1 DEF Wait, WaitNotBusy, CommandLabels, cardVars, callVars
    <2> QED BY <2>1 DEF Named, SpiDone, Done, Returned, Programming, Written
  <1>2. ASSUME pc \in SpiInitLabels \cup {"rate"}, call' = call,
               pc' \in SpiInitLabels \cup {"rate", "free"}
        PROVE  Result
    <2>1. pc \in InitLabels /\ pc' \in InitLabels \cup {"free"}
      BY <1>2 DEF SpiInitLabels, InitLabels
    <2> QED BY <1>2, <2>1, InitKeepsName DEF SpiDone, DataLabels
  <1>3. CASE InitCMD0 \/ InitCMD8 \/ InitACMD41 \/ InitCMD58 \/ InitDone
    <2>1. pc \in SpiInitLabels \cup {"rate"}
      BY <1>3 DEF InitCMD0, InitCMD8, InitACMD41, InitCMD58, InitDone, Command, SpiInitLabels
    <2>2. call' = call /\ pc' \in SpiInitLabels \cup {"rate", "free"}
      <3>1. CASE InitCMD0
        BY <2>1, <3>1 DEF InitCMD0, SpiInitLabels
      <3>2. CASE InitCMD8
        BY <3>2 DEF InitCMD8, SpiInitLabels
      <3>3. CASE InitACMD41
        BY <2>1, <3>3 DEF InitACMD41, SpiInitLabels
      <3>4. CASE InitCMD58
        BY <3>4 DEF InitCMD58
      <3>5. CASE InitDone
        BY <3>5 DEF InitDone
      <3> QED BY <1>3, <3>1, <3>2, <3>3, <3>4, <3>5
    <2> QED BY <1>2, <2>1, <2>2
  <1>4. ASSUME pc \in {"token", "data", "program", "CMD13"}, Fail PROVE Result
    <2>1. pc' = "free" /\ call' = call /\ reply'.ok = FALSE
      BY <1>4
    <2> QED BY <1>4, <2>1, NoReturn, DataKeepsName DEF SpiDone, DataLabels
  <1>5. CASE ReadToken
    <2>1. pc = "token" /\ store' = store
      BY <1>5 DEF ReadToken
    <2>2. CASE card.job.what = "send" /\ NoMoreJob /\ Finish(TRUE, Received)
      <3>1. /\ pc' = "free" /\ call' = call /\ reply'.data = store[card.job.block]
            /\ card.job.block = call.block /\ card'.job = NoJob
        BY <1>0, <2>1, <2>2 DEF Finish, Return, Received, NoMoreJob, Programming, SpiDone
      <3>2. call.block \in Block
        BY <1>0, <2>2, <3>1 DEF Job, NoJob
      <3>3. call.name = "read"
        BY <2>1 DEF Named
      <3>4. Done' /\ Named'
        BY <2>1, <3>1, <3>2, <3>3, DataKeepsName DEF Done, Returned, DataLabels
      <3>5. SpiDone'
        BY <3>1 DEF SpiDone, Programming, NoJob
      <3> QED BY <3>4, <3>5
    <2>3. CASE UNCHANGED <<card, call, pc, reply>>
      BY <2>1, <2>3 DEF Named, SpiDone, Done, Returned, Programming, Written
    <2> QED BY <1>4, <1>5, <2>1, <2>2, <2>3 DEF ReadToken
  <1>6. CASE WriteData
    <2>1. pc = "data" /\ store' = store
      BY <1>6 DEF WriteData
    <2>2. CASE card.job.what = "take" /\ card' = Begin("program", card.job.block) /\ Then("program")
      <3>1. /\ pc' = "program" /\ call' = call /\ card'.job.what = "program"
            /\ card'.job.block = call.block /\ call.block \in Block
        BY <1>0, <2>1, <2>2 DEF Begin, SpiDone, Job, NoJob
      <3>2. Named'
        BY <2>1, <3>1, DataKeepsName DEF DataLabels
      <3> QED BY <3>1, <3>2, NoReturn DEF SpiDone, Programming
    <2> QED BY <1>4, <1>6, <2>1, <2>2 DEF WriteData
  <1>7. CASE WriteProgram
    <2>1. pc = "program" /\ card' = card /\ store' = store
      BY <1>7 DEF WriteProgram, cardVars
    <2>2. CASE ~Programming /\ Then("CMD13")
      <3>1. pc' = "CMD13" /\ call' = call
        BY <2>2
      <3>2. Named'
        BY <2>1, <3>1, DataKeepsName DEF DataLabels
      <3>3. call.block \in Block /\ Written
        BY <2>1, <2>2 DEF SpiDone
      <3> QED BY <2>1, <2>2, <3>1, <3>2, <3>3, NoReturn DEF SpiDone, Programming, Written
    <2> QED BY <1>4, <1>7, <2>1, <2>2 DEF WriteProgram
  <1>8. CASE WriteCMD13
    <2>1. pc = "CMD13" /\ card' = card /\ store' = store
      BY <1>8 DEF WriteCMD13, Command, cardVars
    <2>2. CASE card.good /\ Finish(TRUE, Junk)
      <3>1. pc' = "free" /\ call' = call
        BY <2>2
      <3>2. call.block \in Block /\ store[call.block] = New /\ ~Programming /\ call.name = "write"
        BY <2>1, <2>2 DEF SpiDone, Written, Named
      <3>3. Named'
        BY <2>1, <3>1, DataKeepsName DEF DataLabels
      <3>4. Done'
        BY <2>1, <3>1, <3>2 DEF Done, Returned
      <3>5. SpiDone'
        BY <2>1, <3>1, <3>2 DEF SpiDone, Programming
      <3> QED BY <3>3, <3>4, <3>5
    <2> QED BY <1>4, <1>8, <2>1, <2>2 DEF WriteCMD13
  <1> QED BY <1>1, <1>3, <1>5, <1>6, <1>7, <1>8, SpiCardCommand DEF SpiStep
-----------------------------------------------------------------------------
(* The second library. *)
LEMMA T3DoneStep ==
  ASSUME CardOK, Named, T3Done, InitAgrees, InitAgrees', pin = "t3", pin' = pin,
         UNCHANGED <<type_, desc>>, T3Step \/ T3Token,
         inited' = IF call.name = "init" /\ pc' = "free" THEN reply'.ok ELSE inited
  PROVE  Named' /\ T3Done' /\ (StandardV2' \/ Done')
  <1> USE DEF Continue, T3Returns, Return, Goto, R1
  <1> DEFINE Result == Named' /\ T3Done' /\ (StandardV2' \/ Done')
             Agree == (ByBlock <=> card.kind = "SDHC") \/ StandardV2
             InitPart == {"cmd0", "cmd8", "acmd41", "cmd58", "begun"}
  <1>0. card \in [kind : {"SD1", "SD2", "SDHC"}, state : {"idle", "ready", "tran"},
                  good : BOOLEAN, job : Job]
    BY DEF CardOK
  <1>1. CASE sd_cmd0 \/ sd_cmd8 \/ sd_acmd41 \/ sd_cmd58 \/ T3Begun
    <2>1. pc \in InitPart /\ call' = call /\ pc' \in InitPart \cup {"free"}
      BY <1>1 DEF sd_cmd0, sd_cmd8, sd_acmd41, sd_cmd58, T3Begun, Repeat
    <2>2. card' = card \/ card' \in {GoTo("idle"), GoTo("tran")}
      BY <1>1 DEF sd_cmd0, sd_cmd8, sd_acmd41, sd_cmd58, T3Begun
    <2>3. card'.job = NoJob /\ card_type' \in 0 .. 3
      BY <1>0, <1>1, <2>2 DEF GoTo, T3Done, sd_cmd0, sd_cmd8, sd_acmd41, sd_cmd58, T3Begun
    <2>4. pc \in InitLabels /\ pc' \in InitLabels \cup {"free"}
      BY <2>1 DEF InitLabels
    <2>5. call.name = "init"
      BY <2>4 DEF Named
    <2>6. CASE pc' = "free"
      <3>1. inited' => Returned("init")'
        BY <2>1, <2>5, <2>6 DEF Returned
      <3>2. Returned("init")' => Agree'
        BY DEF InitAgrees, AddressingAgrees, LastPass
      <3> QED BY <2>1, <2>3, <2>4, <2>6, <3>1, <3>2, InitKeepsName
              DEF T3Done, InitLabels, AfterLoop
    <2>7. CASE pc' # "free"
      <3>1. ~inited
        BY <2>4 DEF T3Done
      <3> QED BY <2>1, <2>3, <2>4, <2>7, <3>1, InitKeepsName DEF T3Done
    <2> QED BY <2>6, <2>7
  <1>2. CASE sd_read
    <2>1. /\ pc = "cmd17" /\ call' = call /\ UNCHANGED <<card, card_type>>
          /\ \/ pc' = "t3token" /\ Takes(T3Address)
             \/ pc' = "free" /\ reply'.ok = FALSE
      BY <1>2 DEF sd_read
    <2>2. inited' = inited /\ Named'
      BY <2>1, DataKeepsName DEF Named, DataLabels
    <2>3. Takes(T3Address)' = Takes(T3Address) /\ Agree' = Agree
      BY <2>1 DEF Takes, T3Address, Addressed, AddressOf, ByBlock, StandardV2
    <2> QED BY <2>1, <2>2, <2>3, NoReturn DEF T3Done, InitLabels, AfterLoop
  <1>3. CASE T3Token
    <2>1. /\ pc = "t3token" /\ call' = call /\ UNCHANGED <<card, card_type, store>>
          /\ pc' = "free"
      BY <1>3 DEF T3Token, T3Rest
    <2>2. \/ reply'.data = store[Addressed(T3Address)]
          \/ reply'.ok = FALSE
      BY <1>3 DEF T3Token
    <2>3. inited' = inited /\ Named' /\ call.name = "read" /\ call.block \in Asked
      BY <2>1, DataKeepsName DEF Named, DataLabels
    <2>4. Agree' = Agree /\ StandardV2' = StandardV2
      BY <2>1 DEF ByBlock, StandardV2
    <2>5. T3Done'
      BY <2>1, <2>3, <2>4 DEF T3Done, InitLabels, AfterLoop
    <2>6. CASE reply'.data = store[Addressed(T3Address)] /\ ~StandardV2
      <3>1. (card_type < 2) \in BOOLEAN /\ (card_type < 2 <=> card.kind # "SDHC")
        BY <2>1, <2>6 DEF T3Done, ByBlock
      <3>2. Addressed(T3Address) = call.block
        BY <2>3, <3>1, MeansTheBlock DEF T3Address
      <3>3. call.block \in Block
        BY <2>1, <3>2 DEF T3Done, Takes
      <3> QED BY <2>1, <2>3, <2>5, <2>6, <3>2, <3>3 DEF Done, Returned
    <2>7. CASE reply'.ok = FALSE
      BY <2>3, <2>5, <2>7, NoReturn
    <2> QED BY <2>2, <2>3, <2>4, <2>5, <2>6, <2>7
  <1> QED BY <1>1, <1>2, <1>3 DEF T3Step
-----------------------------------------------------------------------------
(* The builtin driver.  Until the transfer is complete nothing is returned.*)
BuiltinKeeps == Named' /\ BuiltinDone' /\ (~card'.good \/ LastPass' \/ Done')

LEMMA SameAddress ==
  ASSUME card'.kind = card.kind, card'.state = card.state, desc' = desc, call' = call
  PROVE  /\ Addressed(KinetisAddress)' = Addressed(KinetisAddress)
         /\ Takes(KinetisAddress)' = Takes(KinetisAddress)
  BY DEF Takes, KinetisAddress, Addressed, AddressOf

LEMMA BuiltinInitStep ==
  ASSUME CardOK, Named, BuiltinDone, pin = "builtin",
         \/ KinetisCMD0 \/ KinetisCMD8 \/ KinetisACMD41 \/ ConditionLoop \/ Identify
         \/ CMD9_GetParameters \/ InitCardDone
  PROVE  BuiltinKeeps
  <1> USE FollowingLabels
      DEF CMD_Do, Step, Goto, NoInit, InitReturns, Return, NextCommand, cardVars
  <1> DEFINE InitPart == {"K0", "K8", "K41a", "K41"} \cup AfterLoop
  <1>1. pc \in InitPart
    BY DEF KinetisCMD0, KinetisCMD8, KinetisACMD41, ConditionLoop, Identify, CMD9_GetParameters,
           InitCardDone, AfterLoop
  <1>2. call' = call /\ wire' = wire /\ irq' = irq /\ pc' \in InitPart \cup {"free"}
    <2>1. CASE KinetisCMD0 \/ KinetisCMD8 \/ KinetisACMD41
      BY <2>1 DEF KinetisCMD0, KinetisCMD8, KinetisACMD41, AfterLoop
    <2>2. CASE ConditionLoop
      BY <2>2 DEF ConditionLoop, AfterLoop
    <2>3. CASE Identify \/ CMD9_GetParameters
      BY <2>3 DEF Identify, CMD9_GetParameters
    <2>4. CASE InitCardDone
      BY <2>4 DEF InitCardDone
    <2> QED BY <2>1, <2>2, <2>3, <2>4
  <1>3. card'.job = card.job
    <2>1. card' = card \/ \E st \in {"idle", "ready", "tran"} : card' = GoTo(st)
      BY DEF KinetisCMD0, CMD0_GoToIdle, KinetisCMD8, KinetisACMD41, ConditionLoop, Identify,
             CMD9_GetParameters, InitCardDone
    <2> QED BY <2>1 DEF GoTo, CardOK
  <1>4. /\ pc \in InitLabels \ TransferLabels
        /\ pc' \in InitLabels \cup {"free"} /\ pc' \notin TransferLabels
    BY <1>1, <1>2 DEF InitLabels, AfterLoop, TransferLabels
  <1>5. wire = "idle" /\ irq = {} /\ ~Programming
    BY <1>4 DEF BuiltinDone
  <1>6. ~Programming'
    BY <1>3, <1>5 DEF Programming
  <1>7. Named' /\ Done'
    BY <1>2, <1>4, InitKeepsName
  <1>8. BuiltinDone'
    BY <1>2, <1>4, <1>5, <1>6 DEF BuiltinDone
  <1> QED BY <1>7, <1>8 DEF BuiltinKeeps

LEMMA TransferStarts ==
  ASSUME CardOK, Named, BuiltinDone, KinetisCMD17 \/ KinetisCMD24
  PROVE  BuiltinKeeps
  <1>1. ASSUME NEW label \in {"K17", "K24"}, NEW next \in {"look", "push"},
               Transferring(label, next)
        PROVE  BuiltinKeeps
    <2>1. UNCHANGED <<store, desc, irq>> /\ pc = label /\ ~Programming
      BY <1>1 DEF Transferring, CMD_Do
    <2>2. pc \in DataLabels /\ pc \notin TransferLabels /\ wire = "idle" /\ irq = {}
      BY <2>1 DEF DataLabels, TransferLabels, BuiltinDone
    <2>3. CASE /\ Goto(next) /\ wire' = IF Takes(KinetisAddress) THEN "moving" ELSE "silent"
               /\ card' = [card EXCEPT !.good = Takes(KinetisAddress)]
      <3>1. /\ card'.kind = card.kind /\ card'.state = card.state /\ card'.job = card.job
            /\ card'.good = Takes(KinetisAddress) /\ call' = call /\ pc' = next
        BY <2>3 DEF CardOK, Goto
      <3>2. pc' \in TransferLabels /\ pc' # "free"
        BY <3>1 DEF TransferLabels
      <3>3. Named' /\ Done'
        BY <2>2, <3>1, <3>2, DataKeepsName, NoReturn
      <3>4. Takes(KinetisAddress)' = Takes(KinetisAddress)
        BY <2>1, <3>1, SameAddress
      <3>5. wire' \in {"moving", "silent"} /\ (wire' = "silent" => ~card'.good)
        BY <2>3, <3>1
      <3>6. ~Programming' /\ irq' = {}
        BY <2>1, <2>2, <3>1 DEF Programming
      <3>7. BuiltinDone'
        BY <3>1, <3>2, <3>4, <3>5, <3>6 DEF BuiltinDone
      <3> QED BY <3>3, <3>7 DEF BuiltinKeeps
    <2>4. CASE Return(FALSE, Junk) /\ UNCHANGED <<card, wire>>
      <3>1. pc' = "free" /\ reply'.ok = FALSE /\ call' = call
        BY <2>4 DEF Return
      <3>2. Named' /\ Done'
        BY <2>2, <3>1, DataKeepsName, NoReturn
      <3>3. BuiltinDone'
        BY <2>1, <2>2, <2>4, <3>1 DEF BuiltinDone, Programming, TransferLabels
      <3> QED BY <3>2, <3>3 DEF BuiltinKeeps
    <2> QED BY <1>1, <2>3, <2>4 DEF Transferring
  <1> QED BY <1>1 DEF KinetisCMD17, KinetisCMD24

(* In a transfer: the driver, the controller and the card. *)
LEMMA TransferGoesOn ==
  ASSUME CardOK, Named, BuiltinDone,
         LookBeforeRead \/ ReadChunk \/ WriteChunk \/ ClearBWR \/ LookAfterWrite
  PROVE  BuiltinKeeps
  <1>1. /\ UNCHANGED <<card, store, desc, call>> /\ pc \in TransferLabels /\ pc' \in TransferLabels
        /\ \/ wire' = wire /\ irq' \subseteq irq
           \/ wire' = "stopped" /\ irq' = {} /\ "error" \in irq
    BY DEF LookBeforeRead, ReadChunk, WriteChunk, ClearBWR, LookAfterWrite, StopTransfer, Goto,
           TransferLabels, cardVars
  <1>2. pc \in DataLabels /\ pc' # "free"
    BY <1>1 DEF DataLabels, TransferLabels
  <1>3. Named' /\ Done'
    BY <1>1, <1>2, DataKeepsName, NoReturn
  <1>4. /\ Addressed(KinetisAddress)' = Addressed(KinetisAddress)
        /\ Takes(KinetisAddress)' = Takes(KinetisAddress) /\ Programming' = Programming
    BY <1>1, SameAddress DEF Programming
  <1>5. CASE wire' = wire /\ irq' \subseteq irq
    BY <1>1, <1>3, <1>4, <1>5 DEF BuiltinDone, BuiltinKeeps
  <1>6. CASE wire' = "stopped" /\ irq' = {} /\ "error" \in irq
    BY <1>1, <1>3, <1>4, <1>6 DEF BuiltinDone, BuiltinKeeps
  <1> QED BY <1>1, <1>5, <1>6

LEMMA TransferEnds ==
  ASSUME CardOK, Named, BuiltinAgrees, BuiltinDone, pin = "builtin", pin' = pin, TransferComplete
  PROVE  BuiltinKeeps
  <1>1. /\ UNCHANGED <<card, store, desc, call>> /\ pc = "wait" /\ "TC" \in irq /\ pc' = "free"
        /\ reply'.ok = result /\ reply'.data = Data /\ irq' = {} /\ wire' = "idle"
    BY DEF TransferComplete, Return, cardVars
  <1>2. pc \in DataLabels \cap TransferLabels
    BY <1>1 DEF DataLabels, TransferLabels
  <1>3. Named' /\ call.name \in {"read", "write"} /\ call.block \in Asked
    BY <1>1, <1>2, DataKeepsName DEF Named
  <1>4. wire = "done" /\ ~Programming
    BY <1>1 DEF BuiltinDone
  <1>5. BuiltinDone'
    BY <1>1, <1>4 DEF BuiltinDone, Programming, TransferLabels
  <1>6. ASSUME card.good, ~LastPass PROVE Done'
    <2>1. Takes(KinetisAddress)
      BY <1>2, <1>6 DEF BuiltinDone
    <2>2. ~desc.highCapacity <=> card.kind # "SDHC"
      BY <1>6, <2>1 DEF BuiltinAgrees, Overrated, LastPass, ByBlock, Takes
    <2>3. desc.highCapacity \in BOOLEAN
      BY DEF BuiltinAgrees
    <2>4. Addressed(KinetisAddress) = call.block
      BY <1>3, <2>2, <2>3, MeansTheBlock DEF KinetisAddress
    <2>5. call.block \in Block
      BY <2>1, <2>4 DEF Takes
    <2>6. call.name = "write" => store[call.block] = New
      BY <1>2, <1>4, <1>6, <2>4 DEF BuiltinDone
    <2>7. call.name = "read" /\ result => Data = store[call.block]
      BY <1>6, <2>4 DEF Data
    <2> QED BY <1>1, <2>5, <2>6, <2>7 DEF Done, Returned
  <1>7. LastPass' = LastPass
    BY <1>1 DEF LastPass, ByBlock
  <1> QED BY <1>1, <1>3, <1>5, <1>6, <1>7 DEF BuiltinKeeps

LEMMA BlockMoves ==
  ASSUME CardOK, Named, BuiltinWrites, BuiltinDone,
         Move \/ RaiseTC({"ended"}) \/ RaiseTC({"stopped", "corrupt", "timed out"})
  PROVE  BuiltinKeeps
  <1>0. card \in [kind : {"SD1", "SD2", "SDHC"}, state : {"idle", "ready", "tran"},
                  good : BOOLEAN, job : Job]
    BY DEF CardOK
  <1>1. UNCHANGED <<store, desc, call, pc>> /\ wire # "idle"
    BY DEF Move, RaiseTC, cardVars, callVars
  <1>2. pc \in TransferLabels
    BY <1>1 DEF BuiltinDone
  <1>3. pc \in DataLabels /\ pc' # "free"
    BY <1>1, <1>2 DEF DataLabels, TransferLabels
  <1>4. Named' /\ Done'
    BY <1>1, <1>3, DataKeepsName, NoReturn
  <1>5. card'.kind = card.kind /\ card'.state = card.state
    BY <1>0 DEF Move, RaiseTC, cardVars, Program, Begin
  <1>6. /\ Addressed(KinetisAddress)' = Addressed(KinetisAddress)
        /\ Takes(KinetisAddress)' = Takes(KinetisAddress)
    BY <1>1, <1>5, SameAddress
  <1>7. CASE RaiseTC({"ended"}) \/ RaiseTC({"stopped", "corrupt", "timed out"})
    <2>1. /\ card' = card /\ ~Programming /\ wire' = "done" /\ irq' = irq \cup {"TC"}
          /\ wire \in {"ended", "stopped", "corrupt", "timed out"}
      BY <1>7 DEF RaiseTC, cardVars
    <2>2. wire # "ended" => ~card.good
      BY <2>1 DEF BuiltinDone
    <2>3. ~Programming'
      BY <2>1 DEF Programming
    <2>4. BuiltinDone'
      BY <1>1, <1>2, <1>6, <2>1, <2>2, <2>3 DEF BuiltinDone
    <2> QED BY <1>4, <2>4 DEF BuiltinKeeps
  <1>8. CASE Move
    <2>1. ~Programming /\ "TC" \notin irq
      BY <1>8 DEF Move, BuiltinDone
    <2>2. CASE wire' = "ended" /\ wire = "moving" /\ irq' = irq /\ card' = card /\ call.name # "write"
      <3>1. ~Programming'
        BY <2>1, <2>2 DEF Programming
      <3> QED BY <1>1, <1>2, <1>4, <1>6, <2>1, <2>2, <3>1 DEF BuiltinDone, BuiltinKeeps
    <2>3. CASE /\ wire' = "ended" /\ wire = "moving" /\ irq' = irq /\ call.name = "write"
               /\ card' = Program(KinetisAddress)
      <3>1. /\ card'.job.what = "program" /\ card'.job.block = Addressed(KinetisAddress)
            /\ card'.good = card.good
        BY <1>0, <2>3 DEF Program, Begin
      <3>2. Takes(KinetisAddress) /\ Programming'
        BY <2>3, <3>1 DEF BuiltinWrites, Programming
      <3>3. "error" \notin irq
        BY <2>1, <2>3 DEF BuiltinDone
      <3> QED BY <1>1, <1>2, <1>4, <1>6, <2>1, <2>3, <3>1, <3>2, <3>3 DEF BuiltinDone, BuiltinKeeps
    <2>4. CASE /\ wire' \in {"corrupt", "silent"} /\ irq' \subseteq irq \cup {"error"}
               /\ card' = [card EXCEPT !.good = FALSE]
      <3>1. ~card'.good /\ ~Programming'
        BY <1>0, <2>1, <2>4 DEF Programming
      <3> QED BY <1>1, <1>2, <1>4, <1>6, <2>1, <2>4, <3>1 DEF BuiltinDone, BuiltinKeeps
    <2>5. CASE wire = "silent" /\ wire' = "timed out" /\ irq' = irq \cup {"error"} /\ card' = card
      <3>1. ~card'.good /\ ~Programming'
        BY <2>1, <2>5 DEF Programming, BuiltinDone
      <3> QED BY <1>1, <1>2, <1>4, <1>6, <2>1, <2>5, <3>1 DEF BuiltinDone, BuiltinKeeps
    <2> QED BY <1>8, <2>2, <2>3, <2>4, <2>5 DEF Move, cardVars
  <1> QED BY <1>7, <1>8
-----------------------------------------------------------------------------
(* The calls, the card by itself, and all steps together. *)
Keeps == Named' /\ TrueMeansDone' /\ (pin = "spi" => SpiDone') /\ (pin = "builtin" => BuiltinDone')
         /\ (pin = "t3" => T3Done')

LEMMA CallDone ==
  ASSUME IInv, DoneInv, init \/ readBlock \/ writeBlock
  PROVE  pin' = pin /\ Keeps
  <1> USE DEF Call
  <1>1. pc = "free" /\ UNCHANGED <<cardVars, pin>>
    BY WriteCalled
       DEF init, readBlock, WriteStarts, Spi, Builtin, T3, SD_init, InitCard, T3begin, SD_readBlock,
           ReadBlock, T3read, SD_writeBlock, WriteBlock, SpiCall, Transfer, T3Rest, cardVars
  <1>2. \/ pc' \in {"CMD0", "K0", "cmd0"} /\ call'.name = "init"
        \/ /\ call'.block \in Asked
           /\ \/ pc' \in {"CMD17", "cmd17"} /\ call'.name = "read"
              \/ pc' = "CMD24" /\ call'.name = "write"
              \/ pc' \in {"K17", "K24"} /\ call'.name \in {"read", "write"}
        \/ pc' = "free" /\ reply'.ok = FALSE
    BY WriteCalled
       DEF init, readBlock, WriteStarts, SD_init, InitCard, T3begin, SD_readBlock,
           ReadBlock, T3read, SD_writeBlock, WriteBlock, SpiCall, Transfer
  <1>3. Named'
    BY <1>2 DEF Named, InitLabels, AfterLoop, DataLabels, TransferLabels
  <1>4. TrueMeansDone' /\ ~(Returned("read") \/ Returned("write"))'
    BY <1>2, NoReturn DEF TrueMeansDone
  <1>5. ASSUME pin = "spi" PROVE SpiDone'
    BY <1>2, <1>4 DEF SpiDone
  <1>6. ASSUME pin = "builtin" PROVE BuiltinDone'
    <2>1. wire = "idle" /\ irq = {} /\ ~Programming
      BY <1>1, <1>6 DEF DoneInv, BuiltinDone, TransferLabels
    <2>2. wire' = "idle" /\ irq' = {}
      BY <1>6, <2>1
         DEF init, readBlock, writeBlock, Spi, Builtin, T3, InitCard, ReadBlock, WriteBlock, Transfer
    <2>3. pc' \notin TransferLabels /\ ~Programming'
      BY <1>1, <1>2, <2>1 DEF TransferLabels, Programming, cardVars
    <2> QED BY <2>2, <2>3 DEF BuiltinDone
  <1>7. ASSUME pin = "t3" PROVE T3Done'
    <2>1. T3Done
      BY <1>7 DEF DoneInv
    <2>2. CASE init
      <3>1. T3begin /\ inited' = FALSE
        BY <1>7, <2>2 DEF init, Spi, Builtin
      <3> QED BY <1>1, <2>1, <3>1 DEF T3begin, T3Done, cardVars
    <2>3. CASE readBlock \/ writeBlock
      <3>1. PICK block \in Asked : T3 /\ T3read(block)
        BY <1>7, <2>3 DEF readBlock, writeBlock, Spi, Builtin
      <3>2. inited' = inited /\ inited
        BY <1>7, <2>3 DEF readBlock, writeBlock, Initialised
      <3>3. pc' = "cmd17" /\ UNCHANGED <<card, card_type, type_, desc, pin>>
        BY <3>1 DEF T3, T3read, T3Rest, t3Vars, kinetisVars
      <3>4. ByBlock' = ByBlock /\ StandardV2' = StandardV2
        BY <3>3 DEF ByBlock, StandardV2
      <3> QED BY <2>1, <3>2, <3>3, <3>4 DEF T3Done, InitLabels, AfterLoop
    <2> QED BY <2>2, <2>3
  <1> QED BY <1>1, <1>3, <1>4, <1>5, <1>6, <1>7 DEF Keeps

LEMMA DriveDone ==
  ASSUME IInv, IInv', InitAgrees, InitAgrees', DoneInv, Drive \/ Moves \/ Stops \/ Sends
  PROVE  pin' = pin /\ Keeps
  <1> USE DEF IInv, DoneInv, Keeps, TrueMeansDone
  <1>1. CASE Drive /\ Spi /\ SpiStep
    BY <1>1, SpiDoneStep DEF Spi
  <1>2. CASE Drive /\ T3 /\ T3Step
    <2>1. UNCHANGED <<type_, desc>>
      BY <1>2 DEF T3, kinetisVars, T3Step, sd_cmd0, sd_cmd8, sd_acmd41, sd_cmd58, T3Begun, sd_read,
                  T3Rest
    <2> QED BY <1>2, <2>1, T3DoneStep DEF Drive, T3, Misaddressed
  <1>3. CASE Sends
    <2>1. UNCHANGED <<type_, desc, inited>> /\ call.name # "init" /\ T3 /\ T3Token
      BY <1>3 DEF Sends, T3, kinetisVars, T3Token, T3Rest, Named
    <2> QED BY <2>1, T3DoneStep DEF T3, Misaddressed
  <1>4. CASE Builtin /\ (KinetisStep \/ Move \/ RaiseTC({"ended"})
                          \/ RaiseTC({"stopped", "corrupt", "timed out"}))
    <2>1. pin = "builtin" /\ pin' = pin
      BY <1>4 DEF Builtin
    <2>2. BuiltinKeeps
      BY <1>4, <2>1, BuiltinInitStep, TransferStarts, TransferGoesOn, TransferEnds, BlockMoves
         DEF KinetisStep
    <2> QED BY <2>1, <2>2 DEF BuiltinKeeps, Misaddressed
  <1> QED BY <1>1, <1>2, <1>3, <1>4 DEF Drive, Moves, Stops

LEMMA ProgramDone ==
  ASSUME IInv, DoneInv, Programs
  PROVE  pin' = pin /\ Keeps
  <1>1. UNCHANGED <<type_, call, pc, reply, desc, irq, wire, i, pin, card_type, inited>> /\ Programming
    BY DEF Programs, FinishProgramming, callVars, kinetisVars, t3Vars
  <1>2. /\ card'.kind = card.kind /\ card'.state = card.state /\ card'.job = NoJob /\ ~Programming'
        /\ \/ store' = [store EXCEPT ![card.job.block] = New]
           \/ ~card'.good
        /\ card.job.block \in Block
    <2>1. /\ card \in [kind : {"SD1", "SD2", "SDHC"}, state : {"idle", "ready", "tran"},
                      good : BOOLEAN, job : Job]
      BY DEF IInv, CardOK
    <2>2. card.job.block \in Block
      BY <1>1, <2>1 DEF Job, NoJob, Programming
    <2>3. \/ /\ store' = [store EXCEPT ![card.job.block] = New]
             /\ card' = [card EXCEPT !.job = NoJob, !.good = TRUE]
          \/ card' = [card EXCEPT !.job = NoJob, !.good = FALSE]
      BY DEF Programs, FinishProgramming
    <2>4. card'.job = NoJob => ~Programming'
      BY DEF Programming, NoJob
    <2> QED BY <2>1, <2>2, <2>3, <2>4
  <1>3. /\ Addressed(KinetisAddress)' = Addressed(KinetisAddress)
        /\ Takes(KinetisAddress)' = Takes(KinetisAddress)
    BY <1>1, <1>2, SameAddress
  <1>4. store'[card.job.block] = New \/ ~card'.good
    BY <1>2 DEF IInv, CardOK
  <1>5. Named'
    BY <1>1 DEF DoneInv, Named
  <1>6. ASSUME pin = "spi" PROVE SpiDone' /\ Done'
    <2>1. SpiDone
      BY <1>6 DEF DoneInv
    <2>2. ~(Returned("read") \/ Returned("write"))'
      BY <1>1, <2>1 DEF SpiDone, Returned
    <2>3. SpiDone'
      BY <1>1, <1>2, <1>4, <2>1, <2>2 DEF SpiDone, Programming, Written, NoJob
    <2> QED BY <2>2, <2>3 DEF Done
  <1>7. ASSUME pin = "builtin" PROVE BuiltinDone' /\ Done'
    <2>1. BuiltinDone
      BY <1>7 DEF DoneInv
    <2>2. wire = "ended" /\ card.job.block = Addressed(KinetisAddress) /\ "error" \notin irq
      BY <1>1, <2>1 DEF BuiltinDone
    <2>3. pc \in TransferLabels /\ Takes(KinetisAddress)
      BY <1>1, <2>1, <2>2 DEF BuiltinDone
    <2>4. Done'
      BY <1>1, <2>3, NoReturn DEF TransferLabels
    <2>5. BuiltinDone'
      BY <1>1, <1>2, <1>3, <1>4, <2>1, <2>2, <2>3 DEF BuiltinDone
    <2> QED BY <2>4, <2>5
  <1>8. pin # "t3"
    BY <1>1 DEF DoneInv, T3Done, Programming, NoJob
  <1>9. pin \in {"spi", "builtin", "t3"}
    BY DEF IInv, CardOK
  <1> QED BY <1>1, <1>5, <1>6, <1>7, <1>8, <1>9 DEF Keeps, TrueMeansDone

(* A call that returned true has done what it was called for: the bytes    *)
(* are those of the block, or the block is on the card, whatever the card  *)
(* misses, refuses or fails to program, and even when a busy card is taken *)
(* for one that is ready; but in the cases the property names.             *)
THEOREM TrueIsDone == Spec => []TrueMeansDone
  <1>1. Init => InitAgrees
    BY DEF Init, CardInit, InitAgrees, AddressingAgrees, Returned, DataLabels, TransferLabels,
           AfterLoop
  <1>2. Init => DoneInv
    BY DEF Init, CardInit, KinetisInit, T3Init, DoneInv, TrueMeansDone, Done, Named, SpiDone,
           BuiltinDone, T3Done, Returned, Programming, NoJob, InitLabels, AfterLoop, DataLabels,
           TransferLabels
  <1>3. IInv /\ InitAgrees /\ [Next]_vars => InitAgrees'
    BY InitAgreesStep
  <1>4. IInv /\ IInv' /\ InitAgrees /\ InitAgrees' /\ DoneInv /\ [Next]_vars => DoneInv'
    <2> SUFFICES ASSUME IInv, IInv', InitAgrees, InitAgrees', DoneInv, [Next]_vars PROVE DoneInv'
      OBVIOUS
    <2>1. CASE Next
      <3>1. pin' = pin /\ Keeps
        BY <2>1, CallDone, DriveDone, ProgramDone DEF Next
      <3> QED BY <3>1 DEF Keeps, DoneInv
    <2>2. CASE UNCHANGED vars
      <3>1. /\ UNCHANGED <<card, store, type_, call, pc, reply, desc, irq, wire, i, card_type>>
            /\ UNCHANGED <<pin, inited>>
        BY <2>2 DEF vars, cardVars, callVars, kinetisVars, t3Vars
      <3>2. /\ ByBlock' = ByBlock /\ StandardV2' = StandardV2 /\ LastPass' = LastPass
            /\ Programming' = Programming /\ Written' = Written
        BY <3>1 DEF ByBlock, StandardV2, LastPass, Programming, Written
      <3>3. /\ Addressed(KinetisAddress)' = Addressed(KinetisAddress)
            /\ Takes(KinetisAddress)' = Takes(KinetisAddress)
            /\ Takes(T3Address)' = Takes(T3Address)
        BY <3>1 DEF Takes, KinetisAddress, T3Address, Addressed, AddressOf
      <3>4. TrueMeansDone' /\ Named'
        BY <3>1, <3>2 DEF DoneInv, TrueMeansDone, Misaddressed, Done, Named, Returned
      <3>5. (SpiDone => SpiDone') /\ (BuiltinDone => BuiltinDone') /\ (T3Done => T3Done')
        BY <3>1, <3>2, <3>3 DEF SpiDone, BuiltinDone, T3Done, Returned
      <3> QED BY <3>1, <3>4, <3>5 DEF DoneInv
    <2> QED BY <2>1, <2>2
  <1>5. DoneInv => TrueMeansDone
    BY DEF DoneInv
  <1> QED BY InitInv, StepInv, <1>1, <1>2, <1>3, <1>4, <1>5, PTL DEF Spec
=============================================================================

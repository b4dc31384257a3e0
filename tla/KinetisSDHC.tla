---------------------------- MODULE KinetisSDHC -----------------------------
(***************************************************************************)
(* KinetisSDHC.c, the driver of the card slot on the board, which the      *)
(* sketch uses.  A command with its response is one step; so is a chunk of *)
(* SDHC_FIFO_BUFFER_SIZE words.  The controller moves a block on its own:  *)
(* "wire" says how far it is, and when it is done or has failed it sets    *)
(* flags of IRQSTAT, which the driver looks at and clears.                 *)
(*                                                                         *)
(* The waits of this driver have no time limit: CMD_Do waits for a busy    *)
(* card, the reads for words, and both transfers for the TC flag.          *)
(***************************************************************************)
EXTENDS SdCard

CONSTANTS MaxCount,     \* SDHC_INITIALIZATION_MAX_CNT
          Chunks        \* chunks in a block, 8

ASSUME CountAssumption == {MaxCount, Chunks} \subseteq Nat \ {0}

VARIABLES desc,         \* sdCardDesc: [status, highCapacity, version2]
          irq,          \* IRQSTAT: of "error" (DEBE, DCE, DTOE) and "TC"
          wire,         \* how the block that is being moved fares
          i,            \* the i of InitCard's loop, or the chunks left
          result        \* what the transfer will return is OK

kinetisVars == <<desc, irq, wire, i, result>>

Fresh == [status |-> "ok", highCapacity |-> FALSE, version2 |-> FALSE]

KinetisInit ==
  desc = Fresh /\ irq = {} /\ wire = "idle" /\ i = 0 /\ result = TRUE

(* KinetisSDHC_GetCardType. *)
CardType(d) ==
  IF d.status # "ok" THEN "none"
  ELSE IF ~d.version2 THEN "SD1" ELSE IF ~d.highCapacity THEN "SD2" ELSE "SDHC"

(* CMD_Do at a statement of the driver: it first waits for idle lines.  A  *)
(* card that takes the command may still be heard badly; one that does not *)
(* is silent, which the controller reports as no response or not at all.   *)
CMD_Do(label) == pc = label /\ ~Programming
Taken == {"OK", "ERROR", "NOT_READY"}
Missed == {"NO_RESPONSE", "ERROR"}
Results(takes) == IF takes THEN Taken \cup Missed ELSE Missed

Step(label) == Goto(label) /\ UNCHANGED <<type_, irq, wire, result>>

(* InitCard returns, and Sd2Card::init asks for the type.                  *)
InitReturns(ok, d) ==
  /\ desc' = d /\ type_' = CardType(d)
  /\ Return(ok, Junk)
  /\ UNCHANGED <<irq, wire, i, result>>

NoInit == InitReturns(FALSE, [desc EXCEPT !.status = "NOINIT"])
-----------------------------------------------------------------------------
(* SDHC_Init resets the controller and looks for a card.                  *)
InitCard ==
  /\ Call("init", 0, "K0")
  /\ desc' = Fresh /\ irq' = {} /\ wire' = "idle"
  /\ UNCHANGED <<cardVars, type_, i, result>>

(* No card answers CMD0: one that misses it goes unnoticed.                *)
CMD0_GoToIdle == card' \in {card, GoTo("idle")} /\ UNCHANGED store

KinetisCMD0 ==
  \/ pc = "K0" /\ InitReturns(FALSE, [desc EXCEPT !.status = "NODISK"]) /\ UNCHANGED cardVars
  \/ /\ CMD_Do("K0")
     /\ CMD0_GoToIdle
     /\ NoInit \/ (Step("K8") /\ UNCHANGED <<desc, i>>)

CMD8_SetInterface == Results(card.state = "idle" /\ card.kind # "SD1")

(* A response has to echo the pattern. *)
KinetisCMD8 ==
  /\ CMD_Do("K8")
  /\ \E r \in CMD8_SetInterface :
       \/ r = "OK" /\ desc' = [desc EXCEPT !.highCapacity = TRUE] /\ i' = i /\ Step("K41a")
       \/ r = "NO_RESPONSE" /\ UNCHANGED <<desc, i>> /\ Step("K41a")
       \/ r # "NO_RESPONSE" /\ NoInit
  /\ UNCHANGED cardVars

(* The first ACMD41 asks for the voltages.  Without the two bits the loop  *)
(* is skipped, and highCapacity stays as CMD8 has left it.                 *)
KinetisACMD41 ==
  /\ CMD_Do("K41a")
  /\ \E r \in Results(card.state = "idle") :
       \/ r = "OK" /\ i' = 0 /\ UNCHANGED desc /\ (Step("K41") \/ Step("CMD2"))
       \/ r # "OK" /\ NoInit
  /\ UNCHANGED cardVars

CanGetReady == card.state = "idle" /\ (card.kind = "SDHC" => desc.highCapacity)

(* What the loop leaves: the card's CCS bit, which is set in no answer of  *)
(* a card that is not ready, unless the loop has run out.                  *)
Capacity_Mutated(count, ready) == desc.highCapacity

Capacity(count, ready) ==
  /\ desc.highCapacity
  /\ count < MaxCount /\ ready /\ card.kind = "SDHC"

(* A pass of the loop.  It is left when the card is ready or at the last   *)
(* count; a failed command leaves InitCard without a note in sdCardDesc.   *)
ConditionLoop ==
  /\ CMD_Do("K41")
  /\ \E r \in Results(card.state = "idle"), ready \in BOOLEAN :
       /\ ready => CanGetReady /\ r \in Taken
       /\ card' = IF ready THEN GoTo("ready") ELSE card
       /\ \/ r # "OK" /\ InitReturns(FALSE, desc)
          \/ /\ r = "OK" /\ ~ready /\ i + 1 < MaxCount
             /\ i' = i + 1 /\ Step("K41") /\ UNCHANGED desc
          \/ /\ r = "OK" /\ (ready \/ i + 1 = MaxCount)
             /\ desc' = [desc EXCEPT !.highCapacity = Capacity(i + 1, ready)]
             /\ i' = i + 1 /\ Step("CMD2")
  /\ UNCHANGED store

(* The commands that follow, of which each has to succeed.                 *)
Following == [CMD2 |-> "CMD3", CMD3 |-> "CMD9", CMD9 |-> "CMD7", CMD7 |-> "CMD16",
              CMD16 |-> "ACMD6", ACMD6 |-> "done"]

Serves(label) == card.state = IF label \in {"CMD16", "ACMD6"} THEN "tran" ELSE "ready"

NextCommand(r, d) ==
  \/ r # "OK" /\ NoInit
  \/ r = "OK" /\ i' = i /\ Step(Following[pc]) /\ desc' = d

Identify ==
  /\ pc \in DOMAIN Following \ {"CMD9"} /\ ~Programming
  /\ \E r \in Results(Serves(pc)) :
       /\ card' = IF pc = "CMD7" /\ Serves(pc) /\ r \in Taken THEN GoTo("tran") ELSE card
       /\ NextCommand(r, desc)
  /\ UNCHANGED store

(* The structure version in the CSD is that of a card of high capacity.    *)
WithParameters == [desc EXCEPT !.version2 = card.kind = "SDHC"]

CMD9_GetParameters ==
  /\ CMD_Do("CMD9")
  /\ \E r \in Results(Serves("CMD9")) : NextCommand(r, WithParameters)
  /\ UNCHANGED cardVars

InitCardDone == pc = "done" /\ InitReturns(TRUE, desc) /\ UNCHANGED cardVars
-----------------------------------------------------------------------------
KinetisAddress == AddressOf(call.block, ~desc.highCapacity)

(* ReadBlock and WriteBlock: refused if the card is not initialised.       *)
Transfer(name, block, entry) ==
  /\ IF desc.status # "ok"
     THEN /\ pc = "free" /\ call' = [name |-> name, block |-> block]
          /\ pc' = pc /\ reply' = [ok |-> FALSE, data |-> Junk] /\ UNCHANGED irq
     ELSE Call(name, block, entry) /\ irq' = {}
  /\ UNCHANGED <<cardVars, type_, desc, wire, i, result>>

ReadBlock(block) == Transfer("read", block, "K17")
WriteBlock(block) == Transfer("write", block, "K24")

(* CMD17 and CMD24.  The card's status in the response is not looked at,   *)
(* so that a card which refuses the address counts as one that took it.    *)
Transferring(label, next) ==
  /\ CMD_Do(label)
  /\ \E r \in Results(card.state = "tran") :
       \/ /\ r = "OK" /\ Goto(next) /\ i' = Chunks /\ result' = TRUE
          /\ wire' = IF Takes(KinetisAddress) THEN "moving" ELSE "silent"
          /\ card' = [card EXCEPT !.good = Takes(KinetisAddress)]
       \/ r # "OK" /\ Return(FALSE, Junk) /\ UNCHANGED <<card, wire, i, result>>
  /\ UNCHANGED <<store, type_, desc, irq>>

KinetisCMD17 == Transferring("K17", "look")
KinetisCMD24 == Transferring("K24", "push")

(* An error was seen: all flags are cleared and CMD12 is sent, up to 100   *)
(* times, with a result that nobody looks at.                              *)
StopTransfer ==
  /\ irq' = {} /\ result' = FALSE /\ Goto("wait") /\ wire' = "stopped"
  /\ UNCHANGED <<i, type_>>

(* The top of SDHC_ReadBlock's loop: it looks for errors that have come so *)
(* far, and then waits for words.                                          *)
LookBeforeRead ==
  /\ pc = "look"
  /\ IF "error" \in irq THEN StopTransfer
     ELSE Goto("chunk") /\ irq' = {} /\ UNCHANGED <<type_, wire, i, result>>
  /\ UNCHANGED <<cardVars, desc>>

ReadChunk ==
  /\ pc = "chunk" /\ wire \in {"moving", "ended", "corrupt"}
  /\ i' = i - 1
  /\ Goto(IF i = 1 THEN "wait" ELSE "look")
  /\ UNCHANGED <<cardVars, type_, desc, irq, wire, result>>

(* SDHC_WriteBlock's loop: wait for room, look for errors, and push.       *)
WriteChunk ==
  /\ pc = "push"
  /\ IF "error" \in irq THEN StopTransfer
     ELSE Goto("ack") /\ i' = i - 1 /\ UNCHANGED <<type_, irq, wire, result>>
  /\ UNCHANGED <<cardVars, desc>>

(* IRQSTAT |= BWR clears whatever is set, errors and TC too.               *)
ClearBWR ==
  /\ pc = "ack"
  /\ irq' = {} /\ Goto("check")
  /\ UNCHANGED <<cardVars, type_, desc, wire, i, result>>

LookAfterWrite ==
  /\ pc = "check"
  /\ IF "error" \in irq THEN StopTransfer
     ELSE /\ Goto(IF i = 0 THEN "wait" ELSE "push")
          /\ UNCHANGED <<type_, irq, wire, i, result>>
  /\ UNCHANGED <<cardVars, desc>>

Data ==
  IF call.name = "read" /\ result /\ card.good THEN store[Addressed(KinetisAddress)] ELSE Junk

TransferComplete ==
  /\ pc = "wait" /\ "TC" \in irq
  /\ Return(result, Data)
  /\ irq' = {} /\ wire' = "idle" /\ i' = 0 /\ result' = TRUE
  /\ UNCHANGED <<cardVars, type_, desc>>

(* The controller and the card move the block: a read at any time, a write *)
(* when all its words are there.  The data may be damaged, or stop coming, *)
(* which is an error a while later.                                        *)
Move ==
  \/ /\ wire = "moving" /\ (call.name = "write" => i = 0)
     /\ \/ /\ wire' = "ended" /\ UNCHANGED irq
           /\ card' = IF call.name = "write" THEN Program(KinetisAddress) ELSE card
        \/ /\ wire' = "corrupt" /\ irq' = irq \cup {"error"}
           /\ card' = [card EXCEPT !.good = FALSE]
        \/ wire' = "silent" /\ card' = [card EXCEPT !.good = FALSE] /\ UNCHANGED irq
     /\ UNCHANGED <<store, callVars, desc, i, result>>
  \/ /\ wire = "silent" /\ wire' = "timed out" /\ irq' = irq \cup {"error"}
     /\ UNCHANGED <<cardVars, callVars, desc, i, result>>

(* It raises TC once, when the words are moved and the card is not busy.   *)
(* After an error it may or may not.                                       *)
RaiseTC(now) ==
  /\ wire \in now /\ ~Programming
  /\ i = 0 \/ wire = "stopped"
  /\ wire' = "done" /\ irq' = irq \cup {"TC"}
  /\ UNCHANGED <<cardVars, callVars, desc, i, result>>

KinetisStep ==
  \/ KinetisCMD0 \/ KinetisCMD8 \/ KinetisACMD41 \/ ConditionLoop \/ Identify
  \/ CMD9_GetParameters \/ InitCardDone
  \/ KinetisCMD17 \/ LookBeforeRead \/ ReadChunk
  \/ KinetisCMD24 \/ WriteChunk \/ ClearBWR \/ LookAfterWrite
  \/ TransferComplete
=============================================================================

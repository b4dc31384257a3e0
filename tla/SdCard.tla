------------------------------- MODULE SdCard -------------------------------
(***************************************************************************)
(* A memory card and the calls of its driver, as both drivers see them.    *)
(* The card is no part of this code: it is what the drivers expect of one, *)
(* except that it may miss a command, refuse data or never answer.         *)
(*                                                                         *)
(* A card of kind "SDHC" takes block numbers, the others take byte         *)
(* addresses, and it becomes ready only for a host that says it supports   *)
(* such cards.  After a write it is busy and programs the block in its own *)
(* time, whatever the driver does meanwhile.                               *)
(***************************************************************************)
EXTENDS Integers

CONSTANTS Blocks,       \* number of blocks on the card
          BlockBytes,   \* bytes in a block, 512
          AddressMod,   \* values of an address, 2^32
          Kinds         \* kinds of cards: of "SD1", "SD2" and "SDHC"

ASSUME CardAssumption ==
  /\ {Blocks, BlockBytes, AddressMod} \subseteq Nat \ {0}
  /\ Blocks * BlockBytes <= AddressMod
  /\ Kinds \subseteq {"SD1", "SD2", "SDHC"}

VARIABLES card,         \* the card
          store,        \* what it holds, by block
          type_,        \* its type, as Sd2Card has it
          call,         \* the call the driver is in: [name, block]
          pc,           \* the statement of the driver it is at
          reply         \* what the last call returned: [ok, data]

cardVars == <<card, store>>
callVars == <<type_, call, pc, reply>>

Block == 0 .. Blocks - 1
Asked == 0 .. AddressMod \div BlockBytes - 1    \* blocks the drivers are asked for
New == Blocks           \* what is written
Junk == Blocks + 1      \* bytes that no block holds
Content == Block \cup {New}

NoJob == [what |-> "none"]
Programming == card.job.what = "program"

CardInit ==
  /\ card \in [kind : Kinds, state : {"idle", "tran"}, job : {NoJob}, good : {TRUE}]
  /\ store = [b \in Block |-> b] /\ type_ = "none"
  /\ call = [name |-> "none", block |-> 0]
  /\ pc = "free" /\ reply = [ok |-> FALSE, data |-> Junk]

(* The block a command's argument means; none if there is no such block.   *)
Addressed(address) ==
  IF card.kind = "SDHC" THEN address
  ELSE IF address % BlockBytes = 0 THEN address \div BlockBytes ELSE Blocks

Takes(address) == card.state = "tran" /\ Addressed(address) \in Block

GoTo(state) == [card EXCEPT !.state = state]
Begin(what, block) == [card EXCEPT !.job = [what |-> what, block |-> block]]
Program(address) == Begin("program", Addressed(address))

(* The card has programmed the block, or has failed to. *)
FinishProgramming ==
  /\ Programming
  /\ \/ /\ store' = [store EXCEPT ![card.job.block] = New]
        /\ card' = [card EXCEPT !.job = NoJob, !.good = TRUE]
     \/ /\ card' = [card EXCEPT !.job = NoJob, !.good = FALSE]
        /\ UNCHANGED store
  /\ UNCHANGED callVars

Call(name, block, entry) ==
  /\ pc = "free"
  /\ call' = [name |-> name, block |-> block]
  /\ pc' = entry
  /\ UNCHANGED reply

(* The address of a block, for a driver that gives byte addresses or not.  *)
AddressOf(block, byByte) == IF byByte THEN (block * BlockBytes) % AddressMod ELSE block

Goto(label) == pc' = label /\ UNCHANGED <<call, reply>>

Return(ok, data) ==
  /\ pc' = "free"
  /\ reply' = [ok |-> ok, data |-> data]
  /\ UNCHANGED call
=============================================================================

--------------------------------- MODULE Sd ---------------------------------
(***************************************************************************)
(* The SD card driver, sd.c, and diskio.c above it, against a card.        *)
(*                                                                         *)
(* The driver is one thread: "pc" is where it stands, "cmd" the command    *)
(* sd_cmd is at, "err" is sd_err.  The host controller is its INTERRUPT    *)
(* register and the two inhibit flags of STATUS: a command in "line" holds *)
(* CMD_INHIBIT, a transfer in "xfer" holds DAT_INHIBIT.  Card and          *)
(* controller answer in time, late or never, or report an error.           *)
(***************************************************************************)
EXTENDS Integers, Sequences, FiniteSets

CONSTANTS LastSector,   \* the sectors of the card are 0..LastSector
          BlockSize,    \* 512
          MaxNum,       \* bound: blocks of one call
          MaxCalls,     \* bound: calls of the driver
          Tries         \* how often sd_init sends SEND_OP_COND: 6

ASSUME SdAssumption ==
  /\ LastSector \in Nat
  /\ BlockSize \in Nat \ {0, 1}
  /\ MaxNum \in Nat \ {0}
  /\ MaxCalls \in Nat
  /\ Tries \in Nat \ {0}

VARIABLES pc, cmd, waited, err, resp, drv,   \* the driver
          interrupt, line, xfer,             \* the host controller
          card, disk,                        \* the card
          trouble, asked     \* history: the card failed; sectors to be written

host == <<interrupt, line, xfer>>
cardVars == <<card, disk>>
history == <<trouble, asked>>
vars == <<pc, cmd, waited, err, resp, drv, host, cardVars, history>>

Sectors == 0..LastSector
None == [kind |-> "none"]

(* sd_err and the return values of sd_init: 0, -1, -2 or the error bits of *)
(* a response.                                                             *)
Errors == {"SD_OK", "SD_TIMEOUT", "SD_ERROR", "bits"}

(* The bits of INTERRUPT: every error raises the summary bit 15 of         *)
(* INT_ERROR_MASK too.                                                     *)
TimeoutBits == {"CMD_TIMEOUT", "DATA_TIMEOUT"}
ErrorBits == TimeoutBits \cup {"ERROR"}
Bits == ErrorBits \cup {"CMD_DONE", "READ_RDY", "WRITE_RDY", "DATA_DONE"}

AppCodes == {"SEND_OP_COND", "SEND_SCR", "SET_BUS_WIDTH"}
ReadCodes == {"READ_SINGLE", "READ_MULTI"}
WriteCodes == {"WRITE_SINGLE", "WRITE_MULTI"}
DataCodes == ReadCodes \cup WriteCodes \cup {"SEND_SCR"}

CmdBusy == line # None
DatBusy == xfer # None

(* What a write puts into the sector s, and what was there before. *)
New(s) == s + LastSector + 1
NoData == -1
Modes == {"idle", "ready", "ident", "stby", "tran", "open"}

NoScr == [ccs |-> FALSE, blkcnt |-> FALSE, bus4 |-> FALSE]

-----------------------------------------------------------------------------
(* sd_status and sd_int: a wait with a count.  The count that runs out in  *)
(* the turn in which the answer comes is a timeout as well.                *)

(* The card has something to do: a wait that ends now gave it no time.     *)
Due == line # None \/ (xfer # None /\ xfer.phase \in {"wait", "full"})

sd_status(busy, ok) ==
  /\ \/ ok /\ ~busy /\ interrupt \cap ErrorBits = {}
     \/ ~ok /\ (interrupt \cap ErrorBits # {} \/ waited)
  /\ waited' = FALSE
  /\ trouble' = (trouble \/ (~ok /\ (Due \/ ~busy)))
  /\ UNCHANGED asked

(* Mutant: only the two timeout bits count as errors. *)
IntTimeouts == IF interrupt \cap TimeoutBits # {} THEN "SD_TIMEOUT" ELSE "SD_OK"

IntSeen ==
  IF interrupt \cap TimeoutBits # {} THEN "SD_TIMEOUT"
  ELSE IF interrupt \cap ErrorBits # {} THEN "SD_ERROR" ELSE "SD_OK"

sd_int(bit, r) ==
  /\ \/ interrupt \cap ({bit} \cup ErrorBits) # {} /\ r = IntSeen
     \/ waited /\ r = "SD_TIMEOUT"
  /\ interrupt' = IF r = "SD_OK" THEN interrupt \ {bit} ELSE {}
  /\ waited' = FALSE
  /\ trouble' = (trouble \/ (r # "SD_OK" /\ (Due \/ bit \in interrupt)))
  /\ UNCHANGED asked

(* A turn of a loop that saw nothing yet. *)
Waits ==
  \/ pc = "inhibit" /\ CmdBusy
  \/ pc = "busy" /\ DatBusy
  \/ pc = "sent" /\ "CMD_DONE" \notin interrupt
  \/ pc = "ready" /\ interrupt \cap {"READ_RDY", "WRITE_RDY"} = {}
  \/ pc = "finish" /\ "DATA_DONE" \notin interrupt

(* Mutant: the count of a wait is not decremented, as in the loop at 523. *)
TurnForever ==
  /\ Waits /\ interrupt \cap ErrorBits = {}
  /\ ~waited
  /\ UNCHANGED vars

Turn ==
  /\ Waits /\ interrupt \cap ErrorBits = {}
  /\ ~waited
  /\ waited' = TRUE
  /\ UNCHANGED <<pc, cmd, err, resp, history, drv, host, cardVars>>

-----------------------------------------------------------------------------
(* sd_cmd *)

(* The call: sd_err = SD_OK, and an application command first sends        *)
(* APP_CMD by a call of itself.                                            *)
Send(code, arg) ==
  /\ pc' = "inhibit"
  /\ cmd' = [code |-> code, arg |-> arg, app |-> code \in AppCodes]
  /\ err' = "SD_OK"
  /\ resp' = {}
  /\ waited' = FALSE

Inhibit ==
  /\ pc = "inhibit"
  /\ \E ok \in BOOLEAN :
       /\ sd_status(CmdBusy, ok)
       /\ pc' = IF ok THEN "clear" ELSE "returned"
       /\ err' = IF ok THEN err ELSE "SD_TIMEOUT"
  /\ resp' = {}
  /\ UNCHANGED <<cmd, drv, host, cardVars>>

(* *EMMC_INTERRUPT = *EMMC_INTERRUPT; *)
Clear ==
  /\ pc = "clear"
  /\ interrupt' = {}
  /\ pc' = "issue"
  /\ UNCHANGED <<cmd, waited, err, resp, history, line, xfer, drv, cardVars>>

(* ARG1 and CMDTM. *)
Issue ==
  /\ pc = "issue"
  /\ line' = [kind |-> "cmd", code |-> IF cmd.app THEN "APP_CMD" ELSE cmd.code,
              arg |-> cmd.arg]
  /\ pc' = "sent"
  /\ UNCHANGED <<cmd, waited, err, resp, history, interrupt, xfer, drv, cardVars>>

(* The answer, which is in "resp" already: RESP0 is read only after        *)
(* CMD_DONE.                                                               *)
Sent ==
  /\ pc = "sent"
  /\ \E r \in Errors :
       /\ sd_int("CMD_DONE", r)
       /\ err' = IF r # "SD_OK" THEN r
                 ELSE IF "errors" \in resp THEN "bits" ELSE err
       /\ resp' = IF r = "SD_OK" THEN resp ELSE {}
  /\ pc' = "returned"
  /\ UNCHANGED <<cmd, line, xfer, drv, cardVars>>

(* The inner call of an application command is back.  Before the card has  *)
(* an address nobody looks at its result.                                  *)
AppReturned ==
  /\ pc = "returned" /\ cmd.app
  /\ IF drv.rca # 0 /\ "APP" \notin resp
     THEN err' = "SD_ERROR" /\ pc' = "returned"
     ELSE err' = err /\ pc' = "inhibit"
  /\ cmd' = [cmd EXCEPT !.app = FALSE]
  /\ resp' = {}
  /\ UNCHANGED <<waited, history, drv, host, cardVars>>

Returned(code) == pc = "returned" /\ ~cmd.app /\ cmd.code = code

Keep == UNCHANGED <<waited, history, host, cardVars>>

(* A function of sd.c returns r to diskio.c. *)
Return(r) ==
  /\ pc' = "idle"
  /\ drv' = [drv EXCEPT !.ret = r, !.inited = IF drv.op = "init" THEN r ELSE @]
  /\ UNCHANGED <<cmd, err, resp>>

(* The call of sd_cmd(code, ...) was followed by a call of the next one,   *)
(* or by a return when sd_err is set.                                      *)
Then(code, next, arg) ==
  /\ Returned(code)
  /\ IF err # "SD_OK" THEN Return(err) /\ UNCHANGED waited
     ELSE Send(next, arg) /\ UNCHANGED drv
  /\ UNCHANGED <<history, host, cardVars>>

-----------------------------------------------------------------------------
(* sd_init *)

NewCall(op, lba, num) ==
  [drv EXCEPT !.op = op, !.lba = lba, !.num = num, !.done = 0, !.buf = <<>>,
              !.calls = @ + 1]

(* The reset of the host controller frees its lines and clears INTERRUPT,  *)
(* but not the card; it may not end in time, or its clock may not become   *)
(* stable, and then the old sd_scr and sd_rca stay.                        *)
sd_init ==
  /\ pc = "idle" /\ drv.calls < MaxCalls
  /\ interrupt' = {} /\ line' = None /\ xfer' = None
  /\ UNCHANGED <<asked, cardVars>>
  /\ \/ /\ Send("GO_IDLE", 0)
        /\ drv' = [NewCall("init", 0, 0) EXCEPT !.scr = NoScr, !.rca = 0, !.ccs = FALSE,
                                               !.tries = Tries]
        /\ trouble' = FALSE
     \/ /\ pc' = "idle"
        /\ drv' = [NewCall("init", 0, 0) EXCEPT !.ret = "SD_ERROR", !.inited = "SD_ERROR"]
        /\ trouble' = TRUE
        /\ UNCHANGED <<cmd, err, resp, waited>>

GoIdle == Then("GO_IDLE", "SEND_IF_COND", 0)

(* sd_cmd compares the answer with the argument, and sd_init does not look *)
(* at the result.                                                          *)
SendOpCond ==
  /\ Send("SEND_OP_COND", 0)
  /\ drv' = [drv EXCEPT !.tries = @ - 1]

IfCond ==
  /\ Returned("SEND_IF_COND")
  /\ IF err # "SD_OK" THEN Return(err) /\ UNCHANGED waited ELSE SendOpCond
  /\ UNCHANGED <<history, host, cardVars>>

(* while (!(r & ACMD41_CMD_COMPLETE) && cnt--): an answer to the last try  *)
(* leaves cnt at 0 and counts as none.                                     *)
LastTry == drv.tries = 0

OpCond ==
  /\ Returned("SEND_OP_COND")
  /\ IF err \notin {"SD_TIMEOUT", "SD_OK"} THEN Return(err) /\ UNCHANGED waited
     ELSE IF "COMPLETE" \notin resp /\ drv.tries > 0 THEN SendOpCond
     ELSE IF "COMPLETE" \notin resp \/ LastTry THEN Return("SD_TIMEOUT") /\ UNCHANGED waited
     ELSE IF "VOLTAGE" \notin resp THEN Return("SD_ERROR") /\ UNCHANGED waited
     ELSE Send("ALL_SEND_CID", 0) /\ drv' = [drv EXCEPT !.ccs = "CCS" \in resp]
  /\ UNCHANGED <<history, host, cardVars>>

(* sd_err is not looked at here: the next command clears it. *)
AllSendCid ==
  /\ Returned("ALL_SEND_CID")
  /\ Send("SEND_REL_ADDR", 0)
  /\ UNCHANGED <<drv, history, host, cardVars>>

(* The address is taken before sd_err is tested, then sd_clk waits for the *)
(* lines and for a stable clock.                                           *)
SendRelAddr ==
  /\ Returned("SEND_REL_ADDR")
  /\ \E stable \in BOOLEAN :
       LET rca == IF "RCA" \in resp THEN 1 ELSE 0
           r == IF err # "SD_OK" THEN err ELSE "SD_ERROR" IN
       IF err # "SD_OK" \/ ~stable
       THEN /\ pc' = "idle"
            /\ drv' = [drv EXCEPT !.rca = rca, !.ret = r, !.inited = r]
            /\ UNCHANGED <<cmd, err, resp, waited>>
       ELSE /\ ~CmdBusy /\ ~DatBusy
            /\ Send("CARD_SELECT", rca)
            /\ drv' = [drv EXCEPT !.rca = rca]
  /\ UNCHANGED <<history, host, cardVars>>

CardSelect ==
  /\ Returned("CARD_SELECT")
  /\ IF err # "SD_OK" THEN Return(err) ELSE pc' = "busy" /\ UNCHANGED <<drv, cmd, err, resp>>
  /\ Keep

SendScr ==
  /\ Returned("SEND_SCR")
  /\ IF err # "SD_OK" THEN Return(err) ELSE pc' = "ready" /\ UNCHANGED <<drv, cmd, err, resp>>
  /\ Keep

(* The two words of the SCR.  cnt is not decremented: when the card gives  *)
(* only one the loop does not end.  Until the end of sd_init the bit that  *)
(* stands for block addressing is whatever the card has there.             *)
ScrWord ==
  /\ pc = "scr" /\ DatBusy /\ xfer.left > 0
  /\ xfer' = IF xfer.left = 1 /\ drv.done = 1 THEN None ELSE [xfer EXCEPT !.left = @ - 1]
  /\ drv' = [drv EXCEPT !.done = @ + 1, !.scr = IF drv.done = 0 THEN xfer.block ELSE @]
  /\ pc' = IF drv.done = 1 THEN "bus" ELSE "scr"
  /\ UNCHANGED <<cmd, waited, err, resp, history, interrupt, line, cardVars>>

(* Mutant: the bit of the card is taken for the software flag. *)
KeepScr == [drv EXCEPT !.ret = "SD_OK", !.inited = "SD_OK"]

(* The software flag for block addressing is added at the end. *)
AddCcs == [drv EXCEPT !.scr.ccs = drv.ccs, !.ret = "SD_OK", !.inited = "SD_OK"]

InitDone ==
  /\ pc' = "idle"
  /\ drv' = AddCcs
  /\ UNCHANGED <<cmd, waited, err, resp>>

Bus ==
  /\ pc = "bus"
  /\ IF drv.scr.bus4 THEN Send("SET_BUS_WIDTH", drv.rca) /\ UNCHANGED drv ELSE InitDone
  /\ UNCHANGED <<history, host, cardVars>>

SetBusWidth ==
  /\ Returned("SET_BUS_WIDTH")
  /\ IF err # "SD_OK" THEN Return(err) /\ UNCHANGED waited ELSE InitDone
  /\ UNCHANGED <<history, host, cardVars>>

-----------------------------------------------------------------------------
(* sd_readblock and sd_writeblock.  mount_volume lets a file system read   *)
(* unless bit 0 of what sd_init returned is set, which it is in -1 but not *)
(* in -2, and write unless bit 2 is.                                       *)

Ccs == drv.scr.ccs

sd_readblock(lba, num) ==
  /\ pc = "idle" /\ drv.calls < MaxCalls
  /\ drv.inited \in {"SD_OK", "SD_ERROR", "bits"}
  /\ pc' = "busy"
  /\ drv' = NewCall("read", lba, num)
  /\ waited' = FALSE
  /\ UNCHANGED <<cmd, err, resp, history, host, cardVars>>

sd_writeblock(lba, num) ==
  /\ pc = "idle" /\ drv.calls < MaxCalls
  /\ drv.inited \in {"SD_OK", "bits"}
  /\ pc' = "busy"
  /\ drv' = NewCall("write", lba, num)
  /\ waited' = FALSE
  /\ asked' = asked \cup (lba .. (lba + num - 1))
  /\ UNCHANGED <<cmd, err, resp, trouble, host, cardVars>>

Multi(op) == IF op = "read" THEN "READ_MULTI" ELSE "WRITE_MULTI"
Single(op) == IF op = "read" THEN "READ_SINGLE" ELSE "WRITE_SINGLE"

(* One command for the whole call on a card with block addresses. *)
SendCcs == Send(IF drv.num = 1 THEN Single(drv.op) ELSE Multi(drv.op), drv.lba)

(* Mutant: block addresses on every card. *)
BlockAddress == drv.lba + drv.done

(* One command for every block, with the address of its first byte, on the *)
(* others.                                                                 *)
ByteAddress == (drv.lba + drv.done) * BlockSize
SendSingle == Send(Single(drv.op), ByteAddress)

(* DAT_INHIBIT, and what the three callers do next. *)
Busy ==
  /\ pc = "busy"
  /\ \E ok \in BOOLEAN :
       /\ sd_status(DatBusy, ok)
       /\ IF ~ok
          THEN /\ pc' = "idle"
               /\ drv' = IF drv.op = "init"
                         THEN [drv EXCEPT !.ret = "SD_TIMEOUT", !.inited = "SD_TIMEOUT"]
                         ELSE [drv EXCEPT !.ret = "failed"]
               /\ err' = IF drv.op = "init" THEN err ELSE "SD_TIMEOUT"
               /\ UNCHANGED <<cmd, resp>>
          ELSE /\ UNCHANGED drv
               /\ IF drv.op = "init" THEN Send("SEND_SCR", 0)
                  ELSE IF ~Ccs THEN SendSingle
                  ELSE IF drv.num > 1 /\ drv.scr.blkcnt THEN Send("SET_BLOCKCNT", drv.num)
                  ELSE SendCcs
  /\ UNCHANGED <<host, cardVars>>

SetBlockCnt ==
  /\ Returned("SET_BLOCKCNT")
  /\ IF err # "SD_OK" THEN Return("failed") /\ UNCHANGED waited
     ELSE SendCcs /\ UNCHANGED drv
  /\ UNCHANGED <<history, host, cardVars>>

(* sd_writeblock tests sd_err only after the wait for WRITE_RDY and the    *)
(* data, and on a card with block addresses it waits for DATA_DONE without *)
(* having given any data.                                                  *)
DataCommand ==
  /\ \E code \in ReadCodes \cup WriteCodes : Returned(code)
  /\ IF err # "SD_OK" /\ (drv.op = "read" \/ Ccs) THEN Return("failed")
     ELSE /\ pc' = IF drv.op = "write" /\ Ccs THEN "finish" ELSE "ready"
          /\ UNCHANGED <<drv, cmd, err, resp>>
  /\ Keep

(* Mutant: a write waits for the end of the block before it gives it. *)
DoneBit == IF drv.op = "write" THEN "DATA_DONE" ELSE "READ_RDY"

ReadyBit == IF drv.op = "write" THEN "WRITE_RDY" ELSE "READ_RDY"

(* sd_int(INT_READ_RDY) or sd_int(INT_WRITE_RDY). *)
Ready ==
  /\ pc = "ready"
  /\ \E r \in Errors :
       /\ sd_int(ReadyBit, r)
       /\ pc' = IF r # "SD_OK" THEN "idle" ELSE IF drv.op = "init" THEN "scr" ELSE "data"
       /\ err' = IF r # "SD_OK" /\ drv.op # "init" THEN r ELSE err
       /\ drv' = IF r = "SD_OK" THEN [drv EXCEPT !.done = IF drv.op = "init" THEN 0 ELSE @]
                 ELSE IF drv.op = "init"
                 THEN [drv EXCEPT !.ret = "SD_TIMEOUT", !.inited = "SD_TIMEOUT"]
                 ELSE [drv EXCEPT !.ret = "failed"]
  /\ UNCHANGED <<cmd, resp, line, xfer, cardVars>>

More == drv.done + 1 < drv.num

(* The 128 words of a block out of the data register. *)
InFifo == IF DatBusy /\ xfer.phase = "ready" THEN xfer.block ELSE NoData

ReadData ==
  /\ pc = "data" /\ drv.op = "read"
  /\ LET read == [drv EXCEPT !.done = @ + 1, !.buf = Append(@, InFifo)] IN
       IF More
       THEN /\ drv' = read
            /\ IF Ccs THEN pc' = "ready" /\ UNCHANGED <<cmd, err, resp, waited>>
               ELSE Send("READ_SINGLE", (drv.lba + drv.done + 1) * BlockSize)
       ELSE IF drv.num > 1 /\ ~drv.scr.blkcnt /\ Ccs
       THEN drv' = read /\ Send("STOP_TRANS", 0)
       ELSE /\ pc' = "idle"
            /\ drv' = [read EXCEPT !.ret = "done"]
            /\ UNCHANGED <<cmd, err, resp, waited>>
  /\ xfer' = IF InFifo = NoData THEN xfer
             ELSE IF xfer.left = 1 THEN None
             ELSE [xfer EXCEPT !.left = @ - 1, !.phase = "wait", !.at = @ + 1]
  /\ UNCHANGED <<history, interrupt, line, cardVars>>

StopTrans ==
  /\ Returned("STOP_TRANS")
  /\ Return(IF err # "SD_OK" THEN "failed" ELSE "done")
  /\ Keep

(* The 128 words of a block into the data register, then the test of       *)
(* sd_err, and the next block.                                             *)
WriteData ==
  /\ pc = "data" /\ drv.op = "write"
  /\ xfer' = IF DatBusy /\ xfer.kind = "write" /\ xfer.phase = "ready"
             THEN [xfer EXCEPT !.phase = "full", !.block = New(drv.lba + drv.done)] ELSE xfer
  /\ IF err # "SD_OK" THEN Return("failed") /\ UNCHANGED waited
     ELSE /\ drv' = [drv EXCEPT !.done = @ + 1]
          /\ IF More THEN Send("WRITE_SINGLE", (drv.lba + drv.done + 1) * BlockSize)
             ELSE pc' = "finish" /\ UNCHANGED <<cmd, err, resp, waited>>
  /\ UNCHANGED <<history, interrupt, line, cardVars>>

(* sd_int(INT_DATA_DONE) *)
Finish ==
  /\ pc = "finish"
  /\ \E r \in Errors :
       /\ sd_int("DATA_DONE", r)
       /\ drv' = [drv EXCEPT !.ret = IF r = "SD_OK" THEN "done" ELSE "failed"]
  /\ pc' = "idle"
  /\ UNCHANGED <<cmd, err, resp, line, xfer, cardVars>>

-----------------------------------------------------------------------------
(* The card.  A command it may not get in its state is not answered.       *)

Legal(code) ==
  /\ code \in DataCodes => ~DatBusy
  /\ card.mode \in CASE code = "GO_IDLE" -> Modes
                    [] code \in {"SEND_IF_COND", "SEND_OP_COND"} -> {"idle"}
                    [] code = "APP_CMD" -> {"idle", "tran"}
                    [] code = "ALL_SEND_CID" -> {"ready"}
                    [] code = "SEND_REL_ADDR" -> {"ident"}
                    [] code = "CARD_SELECT" -> {"stby"}
                    [] code = "STOP_TRANS" -> {"open"}
                    [] OTHER -> {"tran"}
  /\ code \in AppCodes => card.app
  /\ code = "SET_BLOCKCNT" => card.blkcnt

(* What the card says: whether its power is up, whether it takes the       *)
(* voltage and block addresses, its address, errors.                       *)
Answers(code) ==
  CASE code = "SEND_OP_COND" ->
         {{}, {"COMPLETE"}, {"COMPLETE", "VOLTAGE"} \cup (IF card.hc THEN {"CCS"} ELSE {})}
    [] code = "SEND_REL_ADDR" -> {{"RCA"}, {"RCA", "errors"}}
    [] code = "APP_CMD" -> {{"APP"}}
    [] OTHER -> {{}}

ModeAfter(code, answer) ==
  CASE code = "GO_IDLE" -> "idle"
    [] code = "SEND_OP_COND" /\ "COMPLETE" \in answer -> "ready"
    [] code = "ALL_SEND_CID" -> "ident"
    [] code = "SEND_REL_ADDR" -> "stby"
    [] code \in {"CARD_SELECT", "STOP_TRANS"} -> "tran"
    [] code \in {"READ_MULTI", "WRITE_MULTI"} /\ ~card.limit -> "open"
    [] OTHER -> card.mode

(* Byte addresses or block addresses. *)
Address(arg) == IF card.hc THEN arg ELSE arg \div BlockSize

(* The transfer a command starts: as many blocks as BLKSIZECNT says, or    *)
(* the words of the SCR, of which a card may have one only.                *)
Transfers(code, arg) ==
  CASE code = "SEND_SCR" ->
         [kind : {"scr"}, phase : {"wait"}, at : {0}, left : {1, 2},
          block : [ccs : BOOLEAN, blkcnt : {card.blkcnt}, bus4 : BOOLEAN]]
    [] code \in ReadCodes ->
         {[kind |-> "read", phase |-> "wait", at |-> Address(arg), block |-> NoData,
           left |-> IF code = "READ_SINGLE" THEN 1 ELSE drv.num]}
    [] code \in WriteCodes ->
         {[kind |-> "write", phase |-> "wait", at |-> Address(arg), block |-> NoData,
           left |-> IF code = "WRITE_SINGLE" THEN 1 ELSE drv.num]}
    [] OTHER -> {xfer}

CardAnswers ==
  /\ pc = "sent" /\ CmdBusy /\ Legal(line.code)
  /\ \E answer \in Answers(line.code) :
       /\ resp' = answer
       /\ card' = [card EXCEPT !.mode = ModeAfter(line.code, answer),
                               !.app = line.code = "APP_CMD",
                               !.limit = line.code = "SET_BLOCKCNT"]
  /\ xfer' \in Transfers(line.code, line.arg)
  /\ interrupt' = interrupt \cup {"CMD_DONE"}
  /\ line' = None
  /\ UNCHANGED <<pc, cmd, waited, err, drv, disk, history>>

(* No answer, or one with a wrong check sum.  To commands without a        *)
(* response the controller gives CMD_DONE by itself.                       *)
NoResponse(code) == code = "GO_IDLE" \/ (code = "APP_CMD" /\ drv.rca = 0)

CardSilent ==
  /\ pc = "sent" /\ CmdBusy
  /\ trouble' = (trouble \/ Legal(line.code))
  /\ \E bit \in IF NoResponse(line.code) THEN {"CMD_DONE"} ELSE {"CMD_TIMEOUT", "ERROR"} :
       interrupt' = interrupt \cup {bit}
  /\ line' = None
  /\ card' = [card EXCEPT !.app = FALSE, !.limit = FALSE]
  /\ UNCHANGED <<pc, cmd, waited, err, resp, drv, xfer, disk, asked>>

CardUnchanged == UNCHANGED <<pc, cmd, waited, err, resp, drv, line, card>>

(* A block of a read is in the FIFO, or there is room for one of a write.  *)
CardReady ==
  /\ DatBusy /\ xfer.phase = "wait" /\ xfer.at \in Sectors
  /\ interrupt' = interrupt \cup {IF xfer.kind = "write" THEN "WRITE_RDY" ELSE "READ_RDY"}
  /\ xfer' = [xfer EXCEPT !.phase = "ready",
                          !.block = IF xfer.kind = "read" THEN disk[xfer.at] ELSE @]
  /\ UNCHANGED <<disk, history>> /\ CardUnchanged

(* The block of a write is on the card. *)
CardStores ==
  /\ DatBusy /\ xfer.phase = "full"
  /\ disk' = [disk EXCEPT ![xfer.at] = xfer.block]
  /\ interrupt' = interrupt \cup {"DATA_DONE"}
  /\ xfer' = None
  /\ UNCHANGED history /\ CardUnchanged

(* The transfer fails.  DAT_INHIBIT may stay until the next reset. *)
CardFails ==
  /\ DatBusy /\ xfer.phase \in {"wait", "full"}
  /\ \E bit \in {"DATA_TIMEOUT", "ERROR"} : interrupt' = interrupt \cup {bit}
  /\ xfer' \in {None, [xfer EXCEPT !.phase = "dead"]}
  /\ trouble' = TRUE
  /\ UNCHANGED <<disk, asked>> /\ CardUnchanged

-----------------------------------------------------------------------------
Init ==
  /\ pc = "idle"
  /\ cmd = [code |-> "GO_IDLE", arg |-> 0, app |-> FALSE]
  /\ waited = FALSE /\ err = "SD_OK" /\ resp = {}
  /\ drv = [op |-> "init", lba |-> 0, num |-> 0, done |-> 0, buf |-> <<>>, tries |-> 0,
            ccs |-> FALSE, scr |-> NoScr, rca |-> 0, ret |-> "none", inited |-> "none",
            calls |-> 0]
  /\ interrupt = {} /\ line = None /\ xfer = None
  /\ card \in [mode : {"idle"}, app : {FALSE}, limit : {FALSE}, hc : BOOLEAN, blkcnt : BOOLEAN]
  /\ disk = [s \in Sectors |-> s]
  /\ trouble = FALSE /\ asked = {}

Calls ==
  \/ sd_init
  \/ \E lba \in Sectors, num \in 1..MaxNum :
       lba + num - 1 \in Sectors /\ (sd_readblock(lba, num) \/ sd_writeblock(lba, num))

Commands == Inhibit \/ Clear \/ Issue \/ Sent \/ AppReturned
Initialise ==
  \/ GoIdle \/ IfCond \/ OpCond \/ AllSendCid \/ SendRelAddr \/ CardSelect \/ SendScr
  \/ ScrWord \/ Bus \/ SetBusWidth
Blocks == Busy \/ SetBlockCnt \/ DataCommand \/ Ready \/ ReadData \/ StopTrans \/ WriteData \/ Finish
Driver == Turn \/ Commands \/ Initialise \/ Blocks

Card == CardAnswers \/ CardSilent \/ CardReady \/ CardStores \/ CardFails

Next == Calls \/ Driver \/ Card

(* The core that runs the driver goes on running; the card owes nothing.   *)
Spec == Init /\ [][Next]_vars /\ WF_vars(Driver)

-----------------------------------------------------------------------------
(* A read that sd_readblock calls done gives the sectors asked for, in     *)
(* order, whatever failed before it: no block of an earlier transfer, no   *)
(* address in the wrong unit.                                              *)
ReadGivesTheSectors ==
  pc = "idle" /\ drv.op = "read" /\ drv.ret = "done" /\ drv.inited = "SD_OK" =>
    drv.buf = [i \in 1..drv.num |-> disk[drv.lba + i - 1]]

(* A write of one block that sd_writeblock calls done is on the card.  Of  *)
(* several blocks the error of one is lost, for sd_cmd clears INTERRUPT    *)
(* before the next (sd.c:165); and a DATA_DONE that comes behind that ends *)
(* the wait for the last block, which may be under way.                    *)
WriteDoneIsStored ==
  [][pc = "finish" /\ pc' = "idle" /\ drv'.ret = "done" =>
       \A i \in 0..(drv.num - 1) :
         \/ disk[drv.lba + i] = New(drv.lba + i)
         \/ drv.num > 1 /\ (trouble \/ (i = drv.num - 1 /\ DatBusy))]_vars

(* Nothing is written where no write asked for it, and no block goes to    *)
(* the place of another.                                                   *)
NoStrayWrite == \A s \in Sectors : disk[s] = s \/ (s \in asked /\ disk[s] = New(s))

(* A card that answers every command and transfer in time is served:       *)
(* reads are done, and so are writes of one block on a card with byte      *)
(* addresses; on the others no write ever is (sd.c:310).                   *)
GoodCardServed ==
  pc = "idle" /\ drv.inited = "SD_OK" =>
    /\ drv.op = "read" /\ ~trouble /\ (card.hc => asked = {}) => drv.ret = "done"
    /\ drv.op = "write" /\ ~trouble /\ drv.num = 1 /\ ~card.hc => drv.ret = "done"
    /\ drv.op = "write" /\ card.hc => drv.ret = "failed"

(* Every call returns: all waits have a count, except the one for the      *)
(* second word of an SCR that never comes (sd.c:518).                      *)
CallsReturn ==
  pc # "idle" ~> (pc = "idle" \/ (pc = "scr" /\ (~DatBusy \/ xfer.left = 0)))
=============================================================================

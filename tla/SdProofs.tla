------------------------------ MODULE SdProofs ------------------------------
(***************************************************************************)
(* Proofs about Sd: for a card and calls of any size, nothing is written   *)
(* where no write asked for it, what a read gives and what a write that is *)
(* done has stored, and that a card that answers in time is served.        *)
(***************************************************************************)
EXTENDS Sd, TLAPS

Ops == {"init", "read", "write"}
Scrs == [ccs : BOOLEAN, blkcnt : BOOLEAN, bus4 : BOOLEAN]
InitCodes == {"GO_IDLE", "SEND_IF_COND", "SEND_OP_COND", "ALL_SEND_CID", "SEND_REL_ADDR",
              "CARD_SELECT", "SEND_SCR", "SET_BUS_WIDTH"}
Codes == InitCodes \cup ReadCodes \cup WriteCodes \cup {"SET_BLOCKCNT", "STOP_TRANS"}
Phases == {"wait", "ready", "full", "dead"}
InCmd == pc \in {"inhibit", "clear", "issue", "sent", "returned"}

(* The records by their fields, which is how their updates are reasoned    *)
(* about.                                                                  *)
DrvFields == {"op", "lba", "num", "done", "buf", "tries", "ccs", "scr", "rca", "ret", "inited",
              "calls"}

DrvType ==
  /\ DOMAIN drv = DrvFields
  /\ drv.op \in Ops
  /\ drv.lba \in Nat /\ drv.num \in Nat /\ drv.done \in Nat
  /\ drv.buf \in Seq(Int)
  /\ drv.tries \in Int
  /\ drv.ccs \in BOOLEAN /\ drv.scr \in Scrs /\ drv.rca \in {0, 1}
  /\ drv.ret \in Errors \cup {"none", "done", "failed"}
  /\ drv.inited \in Errors \cup {"none"}
  /\ drv.calls \in Nat

DriverType ==
  /\ pc \in {"idle", "inhibit", "clear", "issue", "sent", "returned", "busy", "ready", "scr",
             "bus", "data", "finish"}
  /\ cmd \in [code : Codes, arg : Nat, app : BOOLEAN]
  /\ waited \in BOOLEAN
  /\ err \in Errors
  /\ resp \subseteq {"COMPLETE", "VOLTAGE", "CCS", "RCA", "APP", "errors"}

XferFields == {"kind", "phase", "at", "left", "block"}

HostType ==
  /\ interrupt \subseteq Bits
  /\ line \in {None} \cup [kind : {"cmd"}, code : Codes \cup {"APP_CMD"}, arg : Nat]
  /\ xfer # None =>
       /\ DOMAIN xfer = XferFields
       /\ xfer.kind \in {"read", "write", "scr"} /\ xfer.phase \in Phases
       /\ xfer.at \in Nat /\ xfer.left \in Nat
       /\ IF xfer.kind = "scr" THEN xfer.at = 0 /\ xfer.block \in Scrs ELSE xfer.block \in Int

CardType ==
  /\ DOMAIN card = {"mode", "app", "limit", "hc", "blkcnt"}
  /\ card.mode \in Modes
  /\ card.app \in BOOLEAN /\ card.limit \in BOOLEAN /\ card.hc \in BOOLEAN /\ card.blkcnt \in BOOLEAN
  /\ disk \in [Sectors -> Int]
  /\ trouble \in BOOLEAN
  /\ asked \subseteq Sectors

Types == DrvType /\ DriverType /\ HostType /\ CardType

-----------------------------------------------------------------------------
(* A call of sd_readblock or sd_writeblock past its first wait, and the    *)
(* facts sd_init has left for it.                                          *)

Past(op) == drv.op = op /\ pc \notin {"idle", "busy"}
InitOver == drv.op # "init" \/ pc = "idle"
Running(code) == InCmd /\ cmd.code = code

(* The commands a call sends, and with which argument. *)
Sent1(op) ==
  IF Ccs THEN IF drv.num = 1 THEN {Single(op)}
              ELSE IF drv.scr.blkcnt THEN {"SET_BLOCKCNT", Multi(op)}
              ELSE IF op = "read" THEN {Multi(op), "STOP_TRANS"} ELSE {Multi(op)}
  ELSE {Single(op)}

Commanded ==
  /\ InCmd => cmd.code \in IF drv.op = "init" THEN InitCodes ELSE Sent1(drv.op)
  /\ InCmd /\ cmd.code \in ReadCodes \cup WriteCodes =>
       cmd.arg = IF Ccs THEN drv.lba ELSE ByteAddress
  /\ cmd.app => cmd.code \in AppCodes
  /\ pc \in {"scr", "bus"} => drv.op = "init"
  /\ pc = "data" => drv.op # "init"
  /\ pc \in {"ready", "data"} /\ drv.op = "write" => ~Ccs
  /\ pc = "finish" => drv.op = "write"

(* What is still to be done of a call. *)
Progress ==
  /\ drv.op # "init" => /\ drv.num > 0 /\ drv.lba + drv.num - 1 \in Sectors
                        /\ Len(drv.buf) = IF drv.op = "read" THEN drv.done ELSE 0
  /\ drv.op = "write" => drv.lba .. (drv.lba + drv.num - 1) \subseteq asked
  /\ drv.op # "init" /\ pc # "idle" =>
       IF Running("STOP_TRANS") \/ (pc = "finish" /\ ~Ccs) THEN drv.done = drv.num
       ELSE drv.done < drv.num
  /\ drv.op # "init" /\ Ccs /\ InCmd /\ ~Running("STOP_TRANS") => drv.done = 0
  /\ drv.op # "init" /\ pc = "busy" => drv.done = 0

(* The command line: a command is on it only after it was seen free, and   *)
(* CMD_DONE comes when it is free again.                                   *)
LineOK ==
  /\ pc \in {"clear", "issue"} => line = None
  /\ pc = "sent" /\ line # None =>
       /\ line.code = IF cmd.app THEN "APP_CMD" ELSE cmd.code
       /\ line.arg = cmd.arg
       /\ "CMD_DONE" \notin interrupt
       /\ resp = {}
  /\ pc \in {"inhibit", "clear", "issue"} => resp = {}
  /\ pc = "issue" => "CMD_DONE" \notin interrupt

(* What the answers say. *)
AnswersOK ==
  /\ "VOLTAGE" \in resp => ("CCS" \in resp <=> card.hc)
  /\ "errors" \in resp /\ InCmd => cmd.code = "SEND_REL_ADDR" /\ card.mode = "stby"
  /\ drv.op = "init" /\ pc # "idle" /\ err = "bits" =>
       pc = "returned" /\ cmd.code = "SEND_REL_ADDR" /\ card.mode = "stby"

(* What sd_init knows of the card, and what it leaves to the other calls.  *)
InitOK ==
  /\ drv.op = "init" =>
       /\ pc \in {"busy", "ready", "scr", "bus"} \/
          (InCmd /\ cmd.code \in {"ALL_SEND_CID", "SEND_REL_ADDR", "CARD_SELECT", "SEND_SCR",
                                  "SET_BUS_WIDTH"}) => drv.ccs = card.hc
       /\ pc \in {"busy", "ready", "scr", "bus"} \/
          (InCmd /\ cmd.code \in {"SEND_SCR", "SET_BUS_WIDTH"}) => card.mode = "tran" /\ ~card.limit
       /\ Running("CARD_SELECT") =>
            /\ pc = "sent" /\ "CMD_DONE" \in interrupt => card.mode = "tran" /\ ~card.limit
            /\ pc = "returned" /\ err = "SD_OK" => card.mode = "tran" /\ ~card.limit
       /\ pc # "idle" /\ drv.scr.blkcnt => card.blkcnt
  /\ InitOver /\ drv.inited = "SD_OK" =>
       /\ Ccs = card.hc /\ (drv.scr.blkcnt => card.blkcnt)
       /\ card.mode \in {"tran", "open"}
  /\ InitOver /\ drv.inited = "bits" => card.mode = "stby"
  /\ drv.op = "write" => drv.inited \in {"SD_OK", "bits"}

(* Whose transfer it is. *)
TransferOK ==
  /\ xfer # None /\ xfer.phase = "full" =>
       /\ xfer.kind = "write" /\ xfer.at \in asked /\ xfer.block = New(xfer.at) /\ ~card.hc
  /\ card.hc => "DATA_DONE" \notin interrupt
  /\ "WRITE_RDY" \in interrupt => xfer # None /\ xfer.kind = "write" /\ xfer.phase = "ready"
  /\ "READ_RDY" \in interrupt => xfer # None /\ xfer.kind # "write" /\ xfer.phase = "ready"
  /\ pc \in {"data", "scr"} =>
       /\ xfer # None /\ xfer.phase = "ready"
       /\ {"WRITE_RDY", "READ_RDY"} \cap interrupt = {}

InitTransfer ==
  drv.op = "init" =>
    /\ (InCmd /\ cmd.code # "SEND_SCR") \/ pc \in {"busy", "bus"} => xfer = None
    /\ Running("SEND_SCR") /\ pc \in {"inhibit", "clear", "issue"} => xfer = None
    /\ Running("SEND_SCR") /\ cmd.app => xfer = None
    /\ pc # "idle" /\ xfer # None =>
         xfer.kind = "scr" /\ xfer.left <= 2 /\ (xfer.block.blkcnt => card.blkcnt)
    /\ pc = "scr" => drv.done = 0 \/ (drv.done = 1 /\ xfer.left <= 1)
    /\ pc \in {"ready", "scr", "bus"} \/ (pc = "returned" /\ err = "SD_OK") => line = None
    /\ pc \in {"scr", "bus"} => interrupt \cap ErrorBits = {}
    /\ pc = "returned" /\ ~cmd.app /\ err = "SD_OK" /\ xfer = None =>
          cmd.code = "SEND_SCR" \/ interrupt \cap ErrorBits = {}

ReadTransfer ==
  /\ Past("read") \/ (pc = "idle" /\ drv.op = "read" /\ drv.ret = "done") =>
       xfer = None \/ xfer.kind = "read"
  /\ Past("read") /\ xfer # None =>
       /\ pc \in {"inhibit", "clear", "issue"} => cmd.code = "STOP_TRANS"
       /\ xfer.left = IF Ccs THEN drv.num - drv.done ELSE 1
       /\ drv.inited = "SD_OK" /\ ~Running("STOP_TRANS") =>
            xfer.at = drv.lba + drv.done
       /\ xfer.phase = "ready" => xfer.at \in Sectors /\ xfer.block = disk[xfer.at]
       /\ ~Running("SET_BLOCKCNT")

WriteTransfer ==
  /\ Past("write") => xfer = None \/ xfer.kind = "write"
  /\ Past("write") /\ drv.inited = "bits" =>
       /\ xfer = None
       /\ pc = "finish" \/ (pc \in {"issue", "sent", "returned"} /\ err = "SD_OK") =>
            "DATA_DONE" \notin interrupt
  /\ Past("write") /\ xfer # None =>
       /\ pc \in {"inhibit", "clear", "issue"} \/ (pc = "finish" /\ ~Ccs) =>
            xfer.phase \in {"full", "dead"}
       /\ xfer.phase \in {"wait", "ready"} /\ ~Ccs => xfer.at = drv.lba + drv.done
       /\ ~Running("SET_BLOCKCNT")

(* What a read has given so far. *)
ReadSoFar ==
  drv.inited = "SD_OK" /\ (Past("read") \/ (pc = "idle" /\ drv.op = "read" /\ drv.ret = "done")) =>
    /\ pc = "idle" => drv.done = drv.num
    /\ \A i \in 1..drv.done : drv.buf[i] = disk[drv.lba + i - 1]

(* What a write has stored so far. *)
Stored(s) == disk[s] = New(s)
FullAt(s) == xfer # None /\ xfer.phase = "full" /\ xfer.at = s

StoredSoFar ==
  Past("write") /\ ~Ccs =>
    /\ drv.num > 1 => \A i \in 0..(drv.done - 1) :
         Stored(drv.lba + i) \/ trouble \/ (i = drv.done - 1 /\ FullAt(drv.lba + i))
    /\ drv.num = 1 =>
         /\ pc \in {"issue", "sent", "returned", "ready", "data"} /\ err = "SD_OK" =>
              "DATA_DONE" \notin interrupt
         /\ pc = "finish" /\ "DATA_DONE" \in interrupt => Stored(drv.lba)
         /\ xfer # None /\ xfer.phase = "full" => pc = "finish" /\ xfer.at = drv.lba

-----------------------------------------------------------------------------
(* A card that is in time. *)
Fine == InitOver /\ drv.inited = "SD_OK" /\ ~trouble /\ (card.hc => asked = {})
Served == Fine /\ drv.op # "init" /\ (drv.op = "write" => drv.num = 1)

FineOK ==
  Fine =>
    /\ interrupt \cap ErrorBits # {} => pc = "sent" /\ line = None
    /\ pc # "sent" => line = None
    /\ pc \in {"idle", "busy"} => (xfer = None \/ xfer.phase = "full") /\ card.mode = "tran" /\ ~card.limit
    /\ drv.op = "write" => card.mode = "tran" /\ ~card.limit
    /\ xfer # None => xfer.phase # "dead"
    /\ xfer # None /\ drv.op # "init" /\ pc \in {"sent", "returned", "ready"}
         /\ xfer.phase \in {"wait", "ready"} /\ ~Running("STOP_TRANS") =>
         /\ xfer.phase = "ready" => ReadyBit \in interrupt
         /\ pc = "sent" => /\ line = None /\ interrupt \cap ErrorBits = {}
                           /\ "CMD_DONE" \in interrupt

ModeInCall == IF drv.op = "read" /\ drv.num > 1 /\ Ccs /\ ~drv.scr.blkcnt THEN "open" ELSE "tran"
UnderWay == xfer # None /\ xfer.phase \in {"wait", "ready"} /\ card.mode = ModeInCall

Serves ==
  Served =>
    /\ InCmd \/ pc \in {"ready", "data"} => err = "SD_OK"
    /\ pc \in {"inhibit", "clear", "issue"} \/ (pc = "sent" /\ line # None) =>
         /\ card.mode = IF cmd.code = "STOP_TRANS" THEN "open" ELSE "tran"
         /\ card.limit <=> cmd.code = "READ_MULTI" /\ drv.scr.blkcnt
         /\ xfer = None
    /\ pc = "sent" /\ line = None => "CMD_DONE" \in interrupt /\ interrupt \cap ErrorBits = {}
    /\ pc = "returned" \/ (pc = "sent" /\ line = None) =>
         /\ card.limit <=> cmd.code = "SET_BLOCKCNT"
         /\ IF cmd.code \in {"SET_BLOCKCNT", "STOP_TRANS"} THEN card.mode = "tran" /\ xfer = None
            ELSE UnderWay
    /\ pc \in {"ready", "data"} => UnderWay /\ ~card.limit
    /\ pc = "finish" => (xfer # None /\ xfer.phase = "full") \/ "DATA_DONE" \in interrupt
    /\ pc = "idle" => drv.ret = "done"

(* DATA_DONE never comes from a high capacity card: its writes all fail. *)
HcWrites ==
  pc = "idle" /\ drv.inited = "SD_OK" /\ drv.op = "write" /\ card.hc => drv.ret = "failed"

IInv == /\ DrvType /\ DriverType /\ HostType /\ CardType /\ Commanded /\ Progress /\ LineOK
        /\ AnswersOK /\ InitOK /\ TransferOK /\ InitTransfer /\ ReadTransfer /\ WriteTransfer
        /\ ReadSoFar /\ StoredSoFar /\ NoStrayWrite /\ FineOK /\ Serves /\ HcWrites

-----------------------------------------------------------------------------
(* The fields of drv a return leaves alone. *)
DrvSame ==
  /\ DOMAIN drv' = DrvFields
  /\ drv'.op = drv.op /\ drv'.lba = drv.lba /\ drv'.num = drv.num /\ drv'.done = drv.done
  /\ drv'.buf = drv.buf /\ drv'.tries = drv.tries /\ drv'.ccs = drv.ccs /\ drv'.calls = drv.calls

(* sd_init gives up, or is done. *)
InitReturns(r) ==
  /\ drv.op = "init" /\ pc # "idle" /\ pc' = "idle" /\ r \in Errors
  /\ DrvSame
  /\ drv'.rca \in {0, 1} /\ drv'.scr \in Scrs /\ drv'.ret = r /\ drv'.inited = r
  /\ interrupt' \subseteq interrupt /\ waited' \in BOOLEAN /\ trouble' \in BOOLEAN
  /\ trouble => trouble'
  /\ UNCHANGED <<cmd, err, resp, line, xfer, card, disk, asked>>
  /\ r = "bits" => card.mode = "stby"
  /\ r = "SD_OK" =>
       /\ drv'.scr.ccs = card.hc /\ (drv'.scr.blkcnt => card.blkcnt)
       /\ card.mode = "tran" /\ ~card.limit
       /\ xfer = None /\ line = None /\ interrupt \cap ErrorBits = {}

(* A return of sd_init keeps the invariant. *)
LEMMA InitReturnsStep ==
  ASSUME IInv, NEW r, InitReturns(r) PROVE IInv'
<1>0. /\ drv'.op = "init" /\ drv'.lba = drv.lba /\ drv'.num = drv.num /\ drv'.done = drv.done
      /\ drv'.buf = drv.buf /\ drv'.tries = drv.tries /\ drv'.ccs = drv.ccs /\ drv'.calls = drv.calls
      /\ DOMAIN drv' = DrvFields /\ drv'.rca \in {0, 1} /\ drv'.scr \in Scrs
      /\ drv'.ret = r /\ drv'.inited = r /\ r \in Errors
  BY DEF InitReturns, DrvSame
<1>1. DrvType'
  BY <1>0 DEF IInv, DrvType, Ops, Errors
<1>2. DriverType' /\ HostType' /\ CardType'
  BY DEF InitReturns, IInv, DriverType, HostType, CardType
<1>3. Commanded' /\ Progress' /\ LineOK' /\ AnswersOK'
  BY <1>0 DEF InitReturns, IInv, Commanded, Progress, LineOK, AnswersOK, InCmd, Running
<1>4. InitOK'
  BY <1>0 DEF InitReturns, IInv, InitOK, InitOver, InCmd, Running, Ccs
<1>5. TransferOK' /\ InitTransfer'
  BY <1>0 DEF InitReturns, IInv, TransferOK, InitTransfer, InCmd, Running
<1>6. ReadTransfer' /\ WriteTransfer' /\ ReadSoFar' /\ StoredSoFar'
  BY <1>0 DEF InitReturns, ReadTransfer, WriteTransfer, ReadSoFar, StoredSoFar, Past
<1>7. NoStrayWrite' /\ HcWrites' /\ Serves'
  BY <1>0 DEF InitReturns, IInv, NoStrayWrite, HcWrites, Serves, Served
<1>8. FineOK'
  BY <1>0 DEF InitReturns, FineOK, Fine, InitOver
<1> QED
  BY <1>1, <1>2, <1>3, <1>4, <1>5, <1>6, <1>7, <1>8 DEF IInv

(* sd_cmd is called. *)
Sends(code, arg) ==
  /\ pc' = "inhibit" /\ err' = "SD_OK" /\ resp' = {} /\ waited' = FALSE
  /\ cmd' \in [code : Codes, arg : Nat, app : BOOLEAN]
  /\ cmd'.code = code /\ cmd'.arg = arg /\ (cmd'.app => code \in AppCodes)

(* What calling sd_cmd leaves behind. *)
LEMMA SendSends ==
  ASSUME NEW code \in Codes, NEW arg \in Nat, Send(code, arg) PROVE Sends(code, arg)
<1>1. CASE code \in AppCodes
  <2>1. cmd' = [code |-> code, arg |-> arg, app |-> TRUE]
    BY <1>1, Zenon DEF Send
  <2> QED
    BY <1>1, <2>1 DEF Send, Sends
<1>2. CASE code \notin AppCodes
  <2>0. (code \in AppCodes) = FALSE
    BY <1>2
  <2>1. cmd' = [code |-> code, arg |-> arg, app |-> FALSE]
    BY <2>0, Zenon DEF Send
  <2> QED
    BY <1>2, <2>1 DEF Send, Sends
<1> QED
  BY <1>1, <1>2

(* sd_init sends its next command. *)
InitSends(code, arg) ==
  /\ drv'.op = "init" /\ DrvType' /\ (drv'.scr.blkcnt => card.blkcnt)
  /\ Sends(code, arg) /\ code \in InitCodes /\ arg \in Nat /\ trouble' \in BOOLEAN
  /\ xfer' = None /\ (interrupt' = {} \/ (interrupt' = interrupt /\ xfer = None))
  /\ line' \in {line, None}
  /\ UNCHANGED <<card, disk, asked>>
  /\ code \in {"ALL_SEND_CID", "SEND_REL_ADDR", "CARD_SELECT", "SEND_SCR", "SET_BUS_WIDTH"} =>
       drv'.ccs = card.hc
  /\ code \in {"SEND_SCR", "SET_BUS_WIDTH"} => card.mode = "tran" /\ ~card.limit

(* The next command of sd_init keeps the invariant. *)
LEMMA InitSendsStep ==
  ASSUME IInv, NEW code, NEW arg, InitSends(code, arg) PROVE IInv'
<1>0. /\ cmd'.code = code /\ (cmd'.app => code \in AppCodes)
      /\ cmd' \in [code : Codes, arg : Nat, app : BOOLEAN]
      /\ code \in InitCodes /\ pc' = "inhibit" /\ drv'.op = "init"
      /\ err' = "SD_OK" /\ resp' = {} /\ waited' = FALSE
  BY DEF InitSends, Sends
<1>1. DrvType' /\ DriverType'
  BY <1>0 DEF InitSends, IInv, DriverType, Errors
<1>2. HostType' /\ CardType'
  BY DEF InitSends, IInv, HostType, CardType, Bits, ErrorBits, TimeoutBits
<1>3. Commanded' /\ Progress' /\ LineOK' /\ AnswersOK'
  BY <1>0 DEF InitSends, Commanded, Progress, LineOK, AnswersOK, InCmd, Running, InitCodes, ReadCodes, WriteCodes
<1>4. InitOK'
  BY <1>0 DEF InitSends, InitOK, InitOver, InCmd, Running
<1>5. TransferOK' /\ InitTransfer'
  BY <1>0 DEF InitSends, IInv, TransferOK, InitTransfer, InCmd, Running
<1>6. ReadTransfer' /\ WriteTransfer' /\ ReadSoFar' /\ StoredSoFar'
  BY <1>0 DEF ReadTransfer, WriteTransfer, ReadSoFar, StoredSoFar, Past
<1>7. NoStrayWrite' /\ HcWrites' /\ Serves' /\ FineOK'
  BY <1>0 DEF InitSends, IInv, NoStrayWrite, HcWrites, Serves, Served, FineOK, Fine, InitOver
<1> QED
  BY <1>1, <1>2, <1>3, <1>4, <1>5, <1>6, <1>7 DEF IInv

(* A command of sd_init is back: the call is one of sd_init. *)
LEMMA InitReturned ==
  ASSUME IInv, NEW code \in InitCodes, Returned(code)
  PROVE  /\ pc = "returned" /\ ~cmd.app /\ cmd.code = code /\ drv.op = "init"
         /\ err \in Errors /\ DOMAIN drv = DrvFields
         /\ code # "SEND_SCR" => xfer = None
         /\ err = "SD_OK" => line = None
         /\ err = "SD_OK" /\ xfer = None /\ code # "SEND_SCR" => interrupt \cap ErrorBits = {}
         /\ err = "bits" => code = "SEND_REL_ADDR" /\ card.mode = "stby"
  BY DEF IInv, Returned, DrvType, DriverType, Commanded, InitTransfer, AnswersOK, InCmd, Running, Sent1,
     Single, Multi, InitCodes, ReadCodes, WriteCodes, Ops

(* sd_init giving up keeps the invariant. *)
LEMMA ReturnStep ==
  ASSUME IInv, drv.op = "init", pc # "idle", NEW r \in Errors \ {"SD_OK"}, Return(r),
         r = "bits" => card.mode = "stby",
         interrupt' \subseteq interrupt, waited' \in BOOLEAN, trouble' \in BOOLEAN, trouble => trouble',
         UNCHANGED <<line, xfer, card, disk, asked>>
  PROVE IInv'
<1>1. DrvSame /\ drv'.scr = drv.scr /\ drv'.rca = drv.rca /\ drv'.ret = r /\ drv'.inited = r
  BY DEF Return, DrvSame, DrvFields, IInv, DrvType
<1>2. InitReturns(r)
  BY <1>1 DEF Return, InitReturns, IInv, DrvType
<1> QED
  BY <1>2, InitReturnsStep

(* sd_init sends a command that needs nothing of the card, or of its mode. *)
LEMMA SendStep ==
  ASSUME IInv, drv.op = "init", pc # "idle", xfer = None, NEW code \in InitCodes, NEW arg \in Nat,
         Send(code, arg), UNCHANGED <<line, xfer, card, disk, asked, interrupt, trouble>>,
         DrvType', drv'.op = "init", drv'.scr = drv.scr,
         code \in {"ALL_SEND_CID", "SEND_REL_ADDR", "CARD_SELECT", "SEND_SCR", "SET_BUS_WIDTH"} =>
           drv'.ccs = card.hc,
         code \in {"SEND_SCR", "SET_BUS_WIDTH"} => card.mode = "tran" /\ ~card.limit
  PROVE  IInv'
<1>1. Sends(code, arg)
  BY SendSends DEF Codes
<1>2. InitSends(code, arg)
  BY <1>1 DEF InitSends, IInv, InitOK, CardType
<1> QED
  BY <1>2, InitSendsStep

(* GoIdle keeps the invariant. *)
LEMMA GoIdleStep ==
  ASSUME IInv, GoIdle PROVE IInv'
<1>1. /\ pc = "returned" /\ cmd.code = "GO_IDLE" /\ drv.op = "init" /\ xfer = None /\ err \in Errors
      /\ DOMAIN drv = DrvFields /\ err # "bits" /\ DrvType
  BY InitReturned DEF GoIdle, Then, Returned, InitCodes, IInv
<1>2. CASE err # "SD_OK"
  BY <1>1, <1>2, ReturnStep DEF GoIdle, Then, IInv, DriverType, CardType, history, host, cardVars
<1>3. CASE err = "SD_OK"
  BY <1>1, <1>3, SendStep DEF GoIdle, Then, DrvType, InitCodes, history, host, cardVars
<1> QED
  BY <1>2, <1>3

(* The updates of drv that sd_init makes on the way. *)
LEMMA TriesDown ==
  ASSUME IInv, drv' = [drv EXCEPT !.tries = @ - 1]
  PROVE  DrvType' /\ drv'.op = drv.op /\ drv'.scr = drv.scr /\ drv'.ccs = drv.ccs
<1>1. DrvType
  BY DEF IInv
<1>2. /\ DOMAIN drv' = DrvFields /\ drv'.tries = drv.tries - 1
      /\ drv'.op = drv.op /\ drv'.lba = drv.lba /\ drv'.num = drv.num /\ drv'.done = drv.done
      /\ drv'.buf = drv.buf /\ drv'.ccs = drv.ccs /\ drv'.scr = drv.scr /\ drv'.rca = drv.rca
      /\ drv'.ret = drv.ret /\ drv'.inited = drv.inited /\ drv'.calls = drv.calls
  BY <1>1 DEF DrvType, DrvFields
<1> QED
  BY <1>1, <1>2 DEF DrvType

(* The capacity is taken from the answer (sd.c:495). *)
LEMMA CcsTaken ==
  ASSUME IInv, NEW b \in BOOLEAN, drv' = [drv EXCEPT !.ccs = b]
  PROVE  DrvType' /\ drv'.op = drv.op /\ drv'.scr = drv.scr /\ drv'.ccs = b
<1>1. DrvType
  BY DEF IInv
<1>2. /\ DOMAIN drv' = DrvFields /\ drv'.ccs = b
      /\ drv'.op = drv.op /\ drv'.lba = drv.lba /\ drv'.num = drv.num /\ drv'.done = drv.done
      /\ drv'.buf = drv.buf /\ drv'.tries = drv.tries /\ drv'.scr = drv.scr /\ drv'.rca = drv.rca
      /\ drv'.ret = drv.ret /\ drv'.inited = drv.inited /\ drv'.calls = drv.calls
  BY <1>1 DEF DrvType, DrvFields
<1> QED
  BY <1>1, <1>2 DEF DrvType

(* The address of the card is taken from the answer. *)
LEMMA RcaTaken ==
  ASSUME IInv, NEW a \in {0, 1}, drv' = [drv EXCEPT !.rca = a]
  PROVE  DrvType' /\ drv'.op = drv.op /\ drv'.scr = drv.scr /\ drv'.ccs = drv.ccs
<1>1. DrvType
  BY DEF IInv
<1>2. /\ DOMAIN drv' = DrvFields /\ drv'.rca = a
      /\ drv'.op = drv.op /\ drv'.lba = drv.lba /\ drv'.num = drv.num /\ drv'.done = drv.done
      /\ drv'.buf = drv.buf /\ drv'.tries = drv.tries /\ drv'.scr = drv.scr /\ drv'.ccs = drv.ccs
      /\ drv'.ret = drv.ret /\ drv'.inited = drv.inited /\ drv'.calls = drv.calls
  BY <1>1 DEF DrvType, DrvFields
<1> QED
  BY <1>1, <1>2 DEF DrvType

(* Asking the card for its conditions once more keeps the invariant. *)
LEMMA SendOpCondStep ==
  ASSUME IInv, drv.op = "init", pc # "idle", xfer = None, SendOpCond,
         UNCHANGED <<line, xfer, card, disk, asked, interrupt, trouble>>
  PROVE  IInv'
<1>1. DrvType' /\ drv'.op = "init" /\ drv'.scr = drv.scr
  BY TriesDown DEF SendOpCond
<1>2. Send("SEND_OP_COND", 0)
  BY DEF SendOpCond
<1> QED
  BY <1>1, <1>2, SendStep DEF InitCodes

(* IfCond keeps the invariant. *)
LEMMA IfCondStep ==
  ASSUME IInv, IfCond PROVE IInv'
<1>1. /\ pc = "returned" /\ cmd.code = "SEND_IF_COND" /\ drv.op = "init" /\ xfer = None /\ err \in Errors
      /\ DOMAIN drv = DrvFields /\ err # "bits" /\ DrvType
  BY InitReturned DEF IfCond, Then, Returned, InitCodes, IInv
<1>2. CASE err # "SD_OK"
  BY <1>1, <1>2, ReturnStep DEF IfCond, IInv, DriverType, CardType, history, host, cardVars
<1>3. CASE err = "SD_OK"
  BY <1>1, <1>3, SendOpCondStep DEF IfCond, history, host, cardVars
<1> QED
  BY <1>2, <1>3

(* OpCond keeps the invariant. *)
LEMMA OpCondStep ==
  ASSUME IInv, OpCond PROVE IInv'
<1>1. /\ pc = "returned" /\ cmd.code = "SEND_OP_COND" /\ drv.op = "init" /\ xfer = None /\ err \in Errors
      /\ err # "bits" /\ waited \in BOOLEAN /\ trouble \in BOOLEAN
  BY InitReturned DEF OpCond, Returned, InitCodes, IInv, DriverType, CardType
<1>2. UNCHANGED <<line, xfer, card, disk, asked, interrupt, trouble>>
  BY DEF OpCond, history, host, cardVars
<1>3. ASSUME NEW r \in Errors \ {"SD_OK", "bits"}, Return(r), UNCHANGED waited
      PROVE IInv'
  BY <1>1, <1>2, <1>3, ReturnStep
<1>4. CASE err \notin {"SD_TIMEOUT", "SD_OK"}
  <2>1. Return(err) /\ UNCHANGED waited
    BY <1>4 DEF OpCond
  <2> QED
    BY <1>1, <1>3, <1>4, <2>1
<1>5. CASE err \in {"SD_TIMEOUT", "SD_OK"} /\ SendOpCond
  BY <1>1, <1>2, <1>5, SendOpCondStep
<1>6. CASE err \in {"SD_TIMEOUT", "SD_OK"} /\ ~SendOpCond
  <2>1. \/ Return("SD_TIMEOUT") /\ UNCHANGED waited
        \/ Return("SD_ERROR") /\ UNCHANGED waited
        \/ "VOLTAGE" \in resp /\ Send("ALL_SEND_CID", 0) /\ drv' = [drv EXCEPT !.ccs = "CCS" \in resp]
    BY <1>6 DEF OpCond
  <2>2. CASE Return("SD_TIMEOUT") /\ UNCHANGED waited
    BY <1>3, <2>2 DEF Errors
  <2>3. CASE Return("SD_ERROR") /\ UNCHANGED waited
    BY <1>3, <2>3 DEF Errors
  <2>4. CASE "VOLTAGE" \in resp /\ Send("ALL_SEND_CID", 0) /\ drv' = [drv EXCEPT !.ccs = "CCS" \in resp]
    <3>1. card.hc \in BOOLEAN /\ ("CCS" \in resp <=> card.hc)
      BY <2>4 DEF IInv, AnswersOK, CardType
    <3>2. drv' = [drv EXCEPT !.ccs = card.hc]
      <4>1. ("CCS" \in resp) = card.hc
        BY <3>1
      <4> QED
        BY <4>1, <2>4, Zenon
    <3>3. DrvType' /\ drv'.op = "init" /\ drv'.scr = drv.scr /\ drv'.ccs = card.hc
      BY <1>1, <3>1, <3>2, CcsTaken
    <3> QED
      BY <1>1, <1>2, <2>4, <3>3, SendStep DEF InitCodes
  <2> QED
    BY <2>1, <2>2, <2>3, <2>4
<1> QED
  BY <1>4, <1>5, <1>6

(* AllSendCid keeps the invariant. *)
LEMMA AllSendCidStep ==
  ASSUME IInv, AllSendCid PROVE IInv'
<1>1. /\ pc = "returned" /\ cmd.code = "ALL_SEND_CID" /\ drv.op = "init" /\ xfer = None
  BY InitReturned DEF AllSendCid, Returned, InitCodes
<1>2. /\ UNCHANGED <<line, xfer, card, disk, asked, interrupt, trouble, drv>>
      /\ Send("SEND_REL_ADDR", 0)
  BY DEF AllSendCid, history, host, cardVars
<1>3. drv.ccs = card.hc /\ DrvType
  BY <1>1 DEF IInv, InitOK, InCmd
<1>4. DrvType'
  BY <1>2, <1>3 DEF DrvType
<1> QED
  BY <1>1, <1>2, <1>3, <1>4, SendStep DEF InitCodes

(* SendRelAddr keeps the invariant. *)
LEMMA SendRelAddrStep ==
  ASSUME IInv, SendRelAddr PROVE IInv'
<1>1. /\ pc = "returned" /\ cmd.code = "SEND_REL_ADDR" /\ drv.op = "init" /\ xfer = None /\ err \in Errors
      /\ (err = "bits" => card.mode = "stby")
  BY InitReturned DEF SendRelAddr, Returned, InitCodes
<1>2. UNCHANGED <<line, xfer, card, disk, asked, interrupt, trouble>>
  BY DEF SendRelAddr, history, host, cardVars
<1>3. DrvType /\ waited \in BOOLEAN /\ trouble \in BOOLEAN /\ drv.ccs = card.hc
  BY <1>1 DEF IInv, DriverType, CardType, InitOK, InCmd
<1>4. PICK rca \in {0, 1}, r \in Errors :
        \/ /\ r # "SD_OK" /\ (r = "bits" => err = "bits") /\ pc' = "idle"
           /\ drv' = [drv EXCEPT !.rca = rca, !.ret = r, !.inited = r]
           /\ UNCHANGED <<cmd, err, resp, waited>>
        \/ Send("CARD_SELECT", rca) /\ drv' = [drv EXCEPT !.rca = rca]
  <2> DEFINE rca == IF "RCA" \in resp THEN 1 ELSE 0
             r == IF err # "SD_OK" THEN err ELSE "SD_ERROR"
  <2>1. rca \in {0, 1} /\ r \in Errors /\ r # "SD_OK" /\ (r = "bits" => err = "bits")
    BY <1>1 DEF Errors
  <2>2. \/ /\ pc' = "idle" /\ drv' = [drv EXCEPT !.rca = rca, !.ret = r, !.inited = r]
           /\ UNCHANGED <<cmd, err, resp, waited>>
        \/ Send("CARD_SELECT", rca) /\ drv' = [drv EXCEPT !.rca = rca]
    BY Zenon DEF SendRelAddr
  <2> HIDE DEF rca, r
  <2> QED
    BY <2>1, <2>2
<1>5. CASE /\ r # "SD_OK" /\ (r = "bits" => err = "bits") /\ pc' = "idle"
           /\ drv' = [drv EXCEPT !.rca = rca, !.ret = r, !.inited = r]
           /\ UNCHANGED <<cmd, err, resp, waited>>
  <2>1. DrvSame /\ drv'.rca = rca /\ drv'.scr = drv.scr /\ drv'.ret = r /\ drv'.inited = r
    BY <1>3, <1>5 DEF DrvSame, DrvType, DrvFields
  <2>2. InitReturns(r)
    BY <1>1, <1>2, <1>3, <1>5, <2>1 DEF InitReturns, DrvType
  <2> QED
    BY <2>2, InitReturnsStep
<1>6. CASE Send("CARD_SELECT", rca) /\ drv' = [drv EXCEPT !.rca = rca]
  <2>1. DrvType' /\ drv'.op = "init" /\ drv'.scr = drv.scr /\ drv'.ccs = card.hc
    BY <1>1, <1>3, <1>6, RcaTaken
  <2> QED
    BY <1>1, <1>2, <1>6, <2>1, SendStep DEF InitCodes
<1> QED
  BY <1>4, <1>5, <1>6

(* sd_init is called. *)
LEMMA NewCallFields ==
  ASSUME IInv, NEW op \in Ops, NEW lba \in Nat, NEW num \in Nat, drv' = NewCall(op, lba, num)
  PROVE  /\ DrvType'
         /\ drv'.op = op /\ drv'.lba = lba /\ drv'.num = num /\ drv'.done = 0 /\ drv'.buf = <<>>
         /\ drv'.scr = drv.scr /\ drv'.rca = drv.rca /\ drv'.ccs = drv.ccs
         /\ drv'.ret = drv.ret /\ drv'.inited = drv.inited
<1>1. DrvType
  BY DEF IInv
<1>2. /\ DOMAIN drv' = DrvFields /\ drv'.calls = drv.calls + 1
      /\ drv'.op = op /\ drv'.lba = lba /\ drv'.num = num /\ drv'.done = 0
      /\ drv'.buf = <<>> /\ drv'.tries = drv.tries /\ drv'.ccs = drv.ccs /\ drv'.scr = drv.scr
      /\ drv'.rca = drv.rca /\ drv'.ret = drv.ret /\ drv'.inited = drv.inited
  BY <1>1 DEF DrvType, DrvFields, NewCall
<1> QED
  BY <1>1, <1>2 DEF DrvType

(* sd_init keeps the invariant. *)
LEMMA sd_initStep ==
  ASSUME IInv, sd_init PROVE IInv'
<1> USE SdAssumption DEF SdAssumption
<1>1. /\ pc = "idle" /\ interrupt' = {} /\ line' = None /\ xfer' = None
      /\ UNCHANGED <<asked, card, disk>> /\ DrvType
  BY DEF sd_init, cardVars, IInv
<1>2. CASE Send("GO_IDLE", 0) /\ trouble' = FALSE
           /\ drv' = [NewCall("init", 0, 0) EXCEPT !.scr = NoScr, !.rca = 0, !.ccs = FALSE,
                                                   !.tries = Tries]
  <2>1. /\ DOMAIN drv' = DrvFields /\ drv'.calls = drv.calls + 1
        /\ drv'.op = "init" /\ drv'.lba = 0 /\ drv'.num = 0 /\ drv'.done = 0
        /\ drv'.buf = <<>> /\ drv'.tries = Tries /\ drv'.ccs = FALSE /\ drv'.scr = NoScr
        /\ drv'.rca = 0 /\ drv'.ret = drv.ret /\ drv'.inited = drv.inited
    BY <1>1, <1>2 DEF DrvType, DrvFields, NewCall
  <2>2. NoScr \in Scrs /\ ~NoScr.blkcnt
    BY DEF NoScr, Scrs
  <2>6. /\ drv'.tries \in Int /\ drv'.ccs \in BOOLEAN /\ drv'.scr \in Scrs /\ drv'.buf \in Seq(Int)
        /\ drv'.op \in Ops
    <3>1. drv'.tries \in Int
      BY <2>1
    <3>2. drv'.ccs \in BOOLEAN
      BY <2>1, Zenon
    <3>3. drv'.scr \in Scrs
      BY <2>1, <2>2
    <3>4. drv'.buf \in Seq(Int)
      BY <2>1
    <3>5. drv'.op \in Ops
      BY <2>1 DEF Ops
    <3> QED
      BY <3>1, <3>2, <3>3, <3>4, <3>5
  <2>5. DrvType'
    BY <1>1, <2>1, <2>6 DEF DrvType
  <2>7. ~drv'.scr.blkcnt
    BY <2>1, <2>2
  <2>3. Sends("GO_IDLE", 0)
    BY <1>2, SendSends DEF Codes, InitCodes
  <2>4. InitSends("GO_IDLE", 0)
    BY <1>1, <1>2, <2>1, <2>5, <2>3, <2>7 DEF InitSends, InitCodes
  <2> QED
    BY <2>4, InitSendsStep
<1>3. CASE /\ pc' = "idle" /\ trouble' = TRUE /\ UNCHANGED <<cmd, err, resp, waited>>
           /\ drv' = [NewCall("init", 0, 0) EXCEPT !.ret = "SD_ERROR", !.inited = "SD_ERROR"]
  <2>1. /\ DOMAIN drv' = DrvFields /\ drv'.calls = drv.calls + 1
        /\ drv'.op = "init" /\ drv'.lba = 0 /\ drv'.num = 0 /\ drv'.done = 0
        /\ drv'.buf = <<>> /\ drv'.tries = drv.tries /\ drv'.ccs = drv.ccs /\ drv'.scr = drv.scr
        /\ drv'.rca = drv.rca /\ drv'.ret = "SD_ERROR" /\ drv'.inited = "SD_ERROR"
    BY <1>1, <1>3 DEF DrvType, DrvFields, NewCall
  <2>2. DrvType'
    BY <1>1, <2>1 DEF DrvType, Ops, Errors
  <2>3. DriverType' /\ HostType' /\ CardType'
    BY <1>1, <1>3 DEF IInv, DriverType, HostType, CardType
  <2>4. Commanded' /\ Progress' /\ LineOK' /\ AnswersOK' /\ InitOK'
    BY <1>1, <1>3, <2>1 DEF IInv, Commanded, Progress, LineOK, AnswersOK, InitOK, InitOver, InCmd, Running
  <2>5. TransferOK' /\ InitTransfer' /\ ReadTransfer' /\ WriteTransfer' /\ ReadSoFar' /\ StoredSoFar'
    BY <1>1, <1>3, <2>1 DEF TransferOK, InitTransfer, ReadTransfer, WriteTransfer, ReadSoFar,
       StoredSoFar, Past, InCmd, Running
  <2>6. NoStrayWrite' /\ HcWrites' /\ Serves' /\ FineOK'
    BY <1>1, <1>3, <2>1 DEF IInv, NoStrayWrite, HcWrites, Serves, Served, FineOK, Fine
  <2> QED
    BY <2>2, <2>3, <2>4, <2>5, <2>6 DEF IInv
<1> QED
  BY <1>2, <1>3, Zenon DEF sd_init

(* sd_init goes on to a wait, to the two words of the SCR or to the width *)
(* of the bus. *)
InitGoes ==
  /\ drv.op = "init" /\ pc' \in {"busy", "ready", "scr", "bus"}
  /\ DrvType' /\ drv'.op = "init" /\ drv'.ccs = card.hc /\ (drv'.scr.blkcnt => card.blkcnt)
  /\ card.mode = "tran" /\ ~card.limit
  /\ waited' \in BOOLEAN /\ trouble' \in BOOLEAN /\ err # "bits"
  /\ HostType' /\ TransferOK'
  /\ (pc' # "busy" => line = None)
  /\ (pc' \in {"busy", "bus"} => xfer' = None)
  /\ (xfer' # None => xfer'.kind = "scr" /\ xfer'.left <= 2 /\ (xfer'.block.blkcnt => card.blkcnt))
  /\ (pc' = "scr" => drv'.done = 0 \/ (drv'.done = 1 /\ xfer'.left <= 1))
  /\ (pc' \in {"scr", "bus"} => interrupt' \cap ErrorBits = {})
  /\ UNCHANGED <<cmd, err, resp, line, card, disk, asked>>

(* sd_init going on without a command keeps the invariant. *)
LEMMA InitGoesStep ==
  ASSUME IInv, InitGoes, pc # "idle" PROVE IInv'
<1>1. DrvType' /\ DriverType' /\ HostType' /\ CardType' /\ TransferOK'
  BY DEF InitGoes, IInv, DriverType, CardType
<1>2. Commanded' /\ Progress' /\ LineOK'
  BY DEF InitGoes, IInv, Commanded, Progress, LineOK, InCmd, Running
<1>3. AnswersOK'
  BY DEF InitGoes, IInv, AnswersOK, InCmd
<1>4. InitOK'
  BY DEF InitGoes, InitOK, InitOver, InCmd, Running
<1>5. InitTransfer'
  BY DEF InitGoes, InitTransfer, InCmd, Running
<1>6. ReadTransfer' /\ WriteTransfer' /\ ReadSoFar' /\ StoredSoFar'
  BY DEF InitGoes, ReadTransfer, WriteTransfer, ReadSoFar, StoredSoFar, Past
<1>7. NoStrayWrite' /\ HcWrites' /\ Serves' /\ FineOK'
  BY DEF InitGoes, IInv, NoStrayWrite, HcWrites, Serves, Served, FineOK, Fine, InitOver
<1> QED
  BY <1>1, <1>2, <1>3, <1>4, <1>5, <1>6, <1>7 DEF IInv

(* CardSelect keeps the invariant. *)
LEMMA CardSelectStep ==
  ASSUME IInv, CardSelect PROVE IInv'
<1>1. /\ pc = "returned" /\ cmd.code = "CARD_SELECT" /\ drv.op = "init" /\ xfer = None /\ err \in Errors
      /\ err # "bits"
  BY InitReturned DEF CardSelect, Returned, InitCodes
<1>2. UNCHANGED <<line, xfer, card, disk, asked, interrupt, trouble, waited>>
  BY DEF CardSelect, Keep, history, host, cardVars
<1>3. DrvType /\ waited \in BOOLEAN /\ trouble \in BOOLEAN
  BY DEF IInv, DriverType, CardType
<1>4. CASE err # "SD_OK"
  BY <1>1, <1>2, <1>3, <1>4, ReturnStep DEF CardSelect
<1>5. CASE err = "SD_OK"
  <2>1. pc' = "busy" /\ UNCHANGED <<drv, cmd, err, resp>>
    BY <1>5 DEF CardSelect
  <2>2. HostType' /\ TransferOK' /\ DrvType'
    BY <1>2, <1>3, <2>1 DEF IInv, HostType, TransferOK, DrvType
  <2>3. /\ drv.ccs = card.hc /\ (drv.scr.blkcnt => card.blkcnt)
        /\ card.mode = "tran" /\ ~card.limit
    BY <1>1, <1>5 DEF IInv, InitOK, InCmd, Running
  <2>4. InitGoes
    BY <1>1, <1>2, <1>3, <2>1, <2>2, <2>3 DEF InitGoes
  <2> QED
    BY <1>1, <2>4, InitGoesStep
<1> QED
  BY <1>4, <1>5

(* SendScr keeps the invariant. *)
LEMMA SendScrStep ==
  ASSUME IInv, SendScr PROVE IInv'
<1>1. /\ pc = "returned" /\ cmd.code = "SEND_SCR" /\ drv.op = "init" /\ err \in Errors
      /\ err # "bits" /\ (err = "SD_OK" => line = None)
  BY InitReturned DEF SendScr, Returned, InitCodes
<1>2. UNCHANGED <<line, xfer, card, disk, asked, interrupt, trouble, waited>>
  BY DEF SendScr, Keep, history, host, cardVars
<1>3. DrvType /\ waited \in BOOLEAN /\ trouble \in BOOLEAN
  BY DEF IInv, DriverType, CardType
<1>4. CASE err # "SD_OK"
  BY <1>1, <1>2, <1>3, <1>4, ReturnStep DEF SendScr
<1>5. CASE err = "SD_OK"
  <2>1. pc' = "ready" /\ UNCHANGED <<drv, cmd, err, resp>>
    BY <1>5 DEF SendScr
  <2>2. HostType' /\ TransferOK' /\ DrvType'
    BY <1>2, <1>3, <2>1 DEF IInv, HostType, TransferOK, DrvType
  <2>3. /\ drv.ccs = card.hc /\ (drv.scr.blkcnt => card.blkcnt)
        /\ card.mode = "tran" /\ ~card.limit
    BY <1>1, <1>5 DEF IInv, InitOK, InCmd, Running
  <2>4. xfer # None => xfer.kind = "scr" /\ xfer.left <= 2 /\ (xfer.block.blkcnt => card.blkcnt)
    BY <1>1 DEF IInv, InitTransfer
  <2>5. InitGoes
    BY <1>1, <1>2, <1>3, <1>5, <2>1, <2>2, <2>3, <2>4 DEF InitGoes
  <2> QED
    BY <1>1, <2>5, InitGoesStep
<1> QED
  BY <1>4, <1>5

(* ScrWord keeps the invariant. *)
LEMMA ScrWordStep ==
  ASSUME IInv, ScrWord PROVE IInv'
<1>1. /\ pc = "scr" /\ xfer # None /\ xfer.left > 0 /\ drv.op = "init"
      /\ DOMAIN xfer = XferFields /\ xfer.kind = "scr" /\ xfer.at = 0 /\ xfer.block \in Scrs
      /\ xfer.phase = "ready" /\ xfer.left \in Nat /\ xfer.left <= 2
      /\ (xfer.block.blkcnt => card.blkcnt) /\ {"WRITE_RDY", "READ_RDY"} \cap interrupt = {}
      /\ (drv.done = 0 \/ (drv.done = 1 /\ xfer.left = 1))
      /\ DrvType /\ line = None /\ interrupt \cap ErrorBits = {}
  BY DEF ScrWord, DatBusy, IInv, DrvType, HostType, Commanded, TransferOK, InitTransfer
<1>2. /\ pc' = (IF drv.done = 1 THEN "bus" ELSE "scr")
      /\ UNCHANGED <<cmd, waited, err, resp, trouble, asked, interrupt, line, card, disk>>
  BY DEF ScrWord, history, cardVars
<1>3. \/ xfer' = None /\ drv.done = 1
      \/ /\ drv.done = 0 /\ xfer' # None
         /\ DOMAIN xfer' = XferFields /\ xfer'.kind = "scr" /\ xfer'.at = 0 /\ xfer'.block = xfer.block
         /\ xfer'.phase = "ready" /\ xfer'.left = xfer.left - 1
  BY <1>1 DEF ScrWord, XferFields, None
<1>4. /\ DOMAIN drv' = DrvFields /\ drv'.done = drv.done + 1
      /\ drv'.scr = (IF drv.done = 0 THEN xfer.block ELSE drv.scr)
      /\ drv'.op = drv.op /\ drv'.lba = drv.lba /\ drv'.num = drv.num /\ drv'.calls = drv.calls
      /\ drv'.buf = drv.buf /\ drv'.tries = drv.tries /\ drv'.ccs = drv.ccs /\ drv'.rca = drv.rca
      /\ drv'.ret = drv.ret /\ drv'.inited = drv.inited
  <2>1. drv' = [drv EXCEPT !.done = @ + 1, !.scr = IF drv.done = 0 THEN xfer.block ELSE @]
    BY DEF ScrWord
  <2> QED
    BY <1>1, <2>1 DEF DrvType, DrvFields
<1>5. DrvType'
  BY <1>1, <1>4 DEF DrvType
<1>6. drv'.scr.blkcnt => card.blkcnt
  BY <1>1, <1>4 DEF IInv, InitOK
<1>7. HostType' /\ TransferOK'
  <2>1. HostType /\ TransferOK
    BY DEF IInv
  <2>2. xfer' = None \/
        (DOMAIN xfer' = XferFields /\ xfer'.kind = "scr" /\ xfer'.at = 0 /\ xfer'.block \in Scrs
         /\ xfer'.phase = "ready" /\ xfer'.left \in Nat)
    BY <1>1, <1>3
  <2>3. HostType'
    BY <1>2, <2>1, <2>2 DEF HostType, Phases
  <2>4. TransferOK'
    BY <1>1, <1>2, <1>3, <2>1, <2>2 DEF TransferOK
  <2> QED
    BY <2>3, <2>4
<1>8. /\ drv.ccs = card.hc /\ card.mode = "tran" /\ ~card.limit /\ err # "bits"
      /\ waited \in BOOLEAN /\ trouble \in BOOLEAN
  BY <1>1 DEF IInv, InitOK, AnswersOK, DriverType, CardType
<1>9. InitGoes
  BY <1>1, <1>2, <1>3, <1>4, <1>5, <1>6, <1>7, <1>8 DEF InitGoes
<1> QED
  BY <1>1, <1>9, InitGoesStep

(* sd_init is done. *)
LEMMA InitDoneStep ==
  ASSUME IInv, drv.op = "init", pc # "idle", InitDone, xfer = None, line = None,
         interrupt \cap ErrorBits = {}, drv.ccs = card.hc, card.mode = "tran", ~card.limit,
         UNCHANGED <<trouble, asked, host, cardVars>>
  PROVE  IInv'
<1>1. DrvType /\ drv.scr \in Scrs /\ waited \in BOOLEAN /\ trouble \in BOOLEAN
  BY DEF IInv, DrvType, DriverType, CardType
<1>2. drv' = [drv EXCEPT !.scr = [drv.scr EXCEPT !.ccs = drv.ccs], !.ret = "SD_OK", !.inited = "SD_OK"]
  BY DEF InitDone, AddCcs
<1>3. DrvSame /\ drv'.rca = drv.rca /\ drv'.scr = [drv.scr EXCEPT !.ccs = drv.ccs]
      /\ drv'.ret = "SD_OK" /\ drv'.inited = "SD_OK"
  BY <1>1, <1>2 DEF DrvSame, DrvType, DrvFields
<1>4. drv.ccs \in BOOLEAN /\ (drv.scr.blkcnt => card.blkcnt) /\ drv.rca \in {0, 1}
  BY DEF IInv, DrvType, InitOK
<1>5. drv'.scr \in Scrs /\ drv'.scr.ccs = drv.ccs /\ drv'.scr.blkcnt = drv.scr.blkcnt
  BY <1>1, <1>3, <1>4 DEF Scrs
<1>6. InitReturns("SD_OK")
  BY <1>1, <1>3, <1>4, <1>5 DEF InitReturns, InitDone, host, cardVars, Errors
<1> QED
  BY <1>6, InitReturnsStep

(* Bus keeps the invariant. *)
LEMMA BusStep ==
  ASSUME IInv, Bus PROVE IInv'
<1>1. /\ pc = "bus" /\ drv.op = "init" /\ xfer = None /\ line = None /\ interrupt \cap ErrorBits = {}
      /\ drv.ccs = card.hc /\ card.mode = "tran" /\ ~card.limit /\ DrvType
  BY DEF Bus, IInv, Commanded, InitTransfer, InitOK
<1>2. UNCHANGED <<trouble, asked, host, cardVars>>
  BY DEF Bus, history
<1>3. CASE drv.scr.bus4
  <2>1. Send("SET_BUS_WIDTH", drv.rca) /\ drv' = drv /\ DrvType'
    BY <1>1, <1>3 DEF Bus, DrvType
  <2> QED
    BY <1>1, <1>2, <2>1, SendStep DEF InitCodes, host, cardVars, DrvType
<1>4. CASE ~drv.scr.bus4
  BY <1>1, <1>2, <1>4, InitDoneStep DEF Bus
<1> QED
  BY <1>3, <1>4

(* SetBusWidth keeps the invariant. *)
LEMMA SetBusWidthStep ==
  ASSUME IInv, SetBusWidth PROVE IInv'
<1>1. /\ pc = "returned" /\ cmd.code = "SET_BUS_WIDTH" /\ drv.op = "init" /\ xfer = None /\ err \in Errors
      /\ err # "bits" /\ (err = "SD_OK" => line = None /\ interrupt \cap ErrorBits = {})
  BY InitReturned DEF SetBusWidth, Returned, InitCodes
<1>2. UNCHANGED <<trouble, asked, host, cardVars>>
  BY DEF SetBusWidth, history
<1>3. drv.ccs = card.hc /\ card.mode = "tran" /\ ~card.limit /\ waited \in BOOLEAN /\ trouble \in BOOLEAN
  BY <1>1 DEF IInv, InitOK, InCmd, DriverType, CardType
<1>4. CASE err # "SD_OK"
  BY <1>1, <1>2, <1>3, <1>4, ReturnStep DEF SetBusWidth, host, cardVars
<1>5. CASE err = "SD_OK"
  BY <1>1, <1>2, <1>3, <1>5, InitDoneStep DEF SetBusWidth
<1> QED
  BY <1>4, <1>5

-----------------------------------------------------------------------------
(* sd_readblock and sd_writeblock: what every step of theirs leaves alone. *)
CallFrame ==
  /\ drv.op # "init" /\ DrvType'
  /\ drv'.op = drv.op /\ drv'.lba = drv.lba /\ drv'.num = drv.num /\ drv'.scr = drv.scr
  /\ drv'.inited = drv.inited
  /\ pc' \in {"idle", "inhibit", "ready", "data", "finish"}
  /\ cmd' \in [code : Codes, arg : Nat, app : BOOLEAN]
  /\ waited' \in BOOLEAN /\ trouble' \in BOOLEAN /\ (trouble => trouble') /\ err' \in Errors
  /\ resp' \in {resp, {}} /\ (pc' = "inhibit" => resp' = {})
  /\ UNCHANGED <<card, disk, asked>>
  /\ pc' = "idle" /\ drv.inited = "SD_OK" /\ drv.op = "write" /\ card.hc => drv'.ret = "failed"

(* The parts of the invariant no step of a call disturbs. *)
LEMMA CallFrameStep ==
  ASSUME IInv, CallFrame
  PROVE  /\ DrvType' /\ DriverType' /\ CardType' /\ LineOK' /\ AnswersOK' /\ InitOK' /\ InitTransfer'
         /\ NoStrayWrite' /\ HcWrites'
<1>1. DrvType' /\ DriverType' /\ CardType'
  BY DEF CallFrame, IInv, DriverType, CardType
<1>2. LineOK' /\ AnswersOK'
  BY DEF CallFrame, IInv, LineOK, AnswersOK, InCmd
<1>3. InitOK' /\ InitTransfer'
  BY DEF CallFrame, IInv, InitOK, InitTransfer, InitOver, Ccs
<1>4. NoStrayWrite' /\ HcWrites'
  BY DEF CallFrame, IInv, NoStrayWrite, HcWrites
<1> QED
  BY <1>1, <1>2, <1>3, <1>4

(* The transfer goes on as it was. *)
LEMMA HostQuiet ==
  ASSUME IInv, xfer' = xfer, line' = line, card' = card, asked' = asked, interrupt' \subseteq interrupt,
         pc' \notin {"data", "scr"}
  PROVE  HostType' /\ TransferOK'
<1>1. HostType'
  BY DEF IInv, HostType
<1>2. TransferOK'
  BY DEF IInv, TransferOK
<1> QED
  BY <1>1, <1>2

(* A call fails, which with a card in time only a write of several blocks *)
(* does. *)
CallFails ==
  /\ drv.op # "init" /\ pc # "idle" /\ pc' = "idle" /\ drv' = [drv EXCEPT !.ret = "failed"]
  /\ HostType' /\ TransferOK'
  /\ waited' \in BOOLEAN /\ trouble' \in BOOLEAN /\ (trouble => trouble') /\ err' \in Errors
  /\ UNCHANGED <<cmd, resp, card, disk, asked>>
  /\ Fine /\ ~trouble' =>
       /\ drv.op = "write" /\ drv.num > 1
       /\ xfer' = None \/ xfer'.phase = "full"
       /\ card.mode = "tran" /\ ~card.limit /\ line' = None /\ interrupt' \cap ErrorBits = {}

(* What the return of a call changes of drv. *)
LEMMA RetFields ==
  ASSUME IInv, NEW r \in {"done", "failed"}, drv' = [drv EXCEPT !.ret = r]
  PROVE  /\ DrvType' /\ DrvSame /\ drv'.scr = drv.scr /\ drv'.inited = drv.inited /\ drv'.ret = r
<1>1. DrvType
  BY DEF IInv
<1>2. /\ DrvSame /\ drv'.scr = drv.scr /\ drv'.rca = drv.rca /\ drv'.ret = r
      /\ drv'.inited = drv.inited
  BY <1>1 DEF DrvType, DrvFields, DrvSame
<1> QED
  BY <1>1, <1>2 DEF DrvType, DrvSame

(* A call that fails keeps the invariant. *)
LEMMA CallFailsStep ==
  ASSUME IInv, CallFails PROVE IInv'
<1>1. DrvType' /\ DrvSame /\ drv'.scr = drv.scr /\ drv'.inited = drv.inited /\ drv'.ret = "failed"
  BY RetFields DEF CallFails
<1>2. CallFrame
  BY <1>1 DEF CallFrame, CallFails, DrvSame, IInv, DriverType
<1>3. HostType' /\ TransferOK' /\ pc' = "idle"
  BY DEF CallFails
<1>4. Commanded' /\ Progress'
  BY <1>1, <1>3 DEF CallFails, DrvSame, IInv, Commanded, Progress, InCmd
<1>5. ReadTransfer' /\ WriteTransfer' /\ ReadSoFar' /\ StoredSoFar'
  BY <1>1, <1>3 DEF ReadTransfer, WriteTransfer, ReadSoFar, StoredSoFar, Past
<1>6. Fine' => Fine /\ ~trouble'
  BY <1>1 DEF CallFails, Fine, InitOver
<1>7. FineOK'
  BY <1>1, <1>3, <1>6 DEF CallFails, FineOK, DrvSame
<1>8. Serves'
  BY <1>1, <1>6 DEF CallFails, Serves, Served, DrvSame, IInv, DrvType
<1> QED
  BY <1>2, <1>3, <1>4, <1>5, <1>7, <1>8, CallFrameStep DEF IInv

(* A write on a card with block addresses is not one of a fine card. *)
LEMMA FineWrites ==
  ASSUME IInv, drv.op = "write", Fine PROVE ~Ccs /\ ~card.hc
  BY DEF IInv, Fine, Progress, InitOK, CardType, DrvType

(* A command of a call. *)
CallSends(code, arg) ==
  /\ CallFrame /\ Sends(code, arg) /\ HostType' /\ TransferOK'
  /\ code \in Sent1(drv.op)
  /\ code \in ReadCodes \cup WriteCodes => arg = IF Ccs THEN drv.lba ELSE ByteAddress'
  /\ Progress' /\ ReadTransfer' /\ WriteTransfer' /\ ReadSoFar' /\ StoredSoFar'
  /\ Fine' => /\ line' = None /\ interrupt' \cap ErrorBits = {}
              /\ drv.op = "write" => card.mode = "tran" /\ ~card.limit
              /\ xfer' # None => xfer'.phase # "dead"
  /\ Served' => /\ card.mode = IF code = "STOP_TRANS" THEN "open" ELSE "tran"
                /\ card.limit <=> code = "READ_MULTI" /\ drv.scr.blkcnt
                /\ xfer' = None

(* The next command of a call keeps the invariant. *)
LEMMA CallSendsStep ==
  ASSUME IInv, NEW code, NEW arg, CallSends(code, arg) PROVE IInv'
<1>1. /\ pc' = "inhibit" /\ err' = "SD_OK" /\ cmd'.code = code /\ cmd'.arg = arg
      /\ (cmd'.app => code \in AppCodes)
  BY DEF CallSends, Sends
<1>2. Commanded'
  BY <1>1 DEF CallSends, CallFrame, Commanded, InCmd, Ccs, Sent1, ByteAddress
<1>3. FineOK' /\ Serves'
  BY <1>1 DEF CallSends, CallFrame, FineOK, Serves, Served, Fine
<1> QED
  BY <1>2, <1>3, CallFrameStep DEF CallSends, IInv

(* The block commands of a call, in the order they are sent. *)
LEMMA SingleMulti ==
  ASSUME NEW op \in {"read", "write"}
  PROVE  /\ Single(op) \in Codes /\ Multi(op) \in Codes /\ Single(op) # Multi(op)
         /\ Single(op) \notin {"SET_BLOCKCNT", "STOP_TRANS", "READ_MULTI", "WRITE_MULTI"}
         /\ Multi(op) \notin {"SET_BLOCKCNT", "STOP_TRANS"}
         /\ Multi(op) = "READ_MULTI" <=> op = "read"
         /\ Single(op) \notin AppCodes /\ Multi(op) \notin AppCodes
  BY DEF Single, Multi, Codes, ReadCodes, WriteCodes, AppCodes

(* The command a call sends once the card is free. *)
LEMMA BusyCommands ==
  ASSUME IInv, drv.op # "init", pc = "busy",
         IF ~Ccs THEN SendSingle
         ELSE IF drv.num > 1 /\ drv.scr.blkcnt THEN Send("SET_BLOCKCNT", drv.num)
         ELSE SendCcs
  PROVE  \E code \in Codes, arg \in Nat :
           /\ Send(code, arg) /\ code \in Sent1(drv.op) \ {"STOP_TRANS"}
           /\ code \in ReadCodes \cup WriteCodes => arg = IF Ccs THEN drv.lba ELSE ByteAddress
           /\ ~(code = "READ_MULTI" /\ drv.scr.blkcnt)
<1> USE SdAssumption DEF SdAssumption
<1>1. drv.op \in {"read", "write"} /\ drv.num \in Nat /\ drv.num > 0 /\ drv.lba \in Nat
      /\ drv.done \in Nat
  BY DEF IInv, DrvType, Ops, Progress
<1>2. ByteAddress \in Nat
  BY <1>1 DEF ByteAddress
<1>3. CASE ~Ccs
  BY <1>1, <1>2, <1>3, SingleMulti DEF SendSingle, Sent1
<1>4. CASE Ccs /\ drv.num > 1 /\ drv.scr.blkcnt
  BY <1>1, <1>4 DEF Sent1, Codes, ReadCodes, WriteCodes
<1>5. CASE Ccs /\ ~(drv.num > 1 /\ drv.scr.blkcnt)
  <2>1. CASE drv.num = 1
    BY <1>1, <1>5, <2>1, SingleMulti DEF SendCcs, Sent1
  <2>2. CASE drv.num # 1
    BY <1>1, <1>5, <2>2, SingleMulti DEF SendCcs, Sent1
  <2> QED
    BY <2>1, <2>2
<1> QED
  BY <1>3, <1>4, <1>5

(* Busy keeps the invariant. *)
LEMMA BusyStep ==
  ASSUME IInv, Busy PROVE IInv'
<1>1. /\ pc = "busy" /\ UNCHANGED <<interrupt, line, xfer, card, disk, asked>> /\ waited' = FALSE
      /\ DrvType /\ trouble \in BOOLEAN /\ err \in Errors
  BY DEF Busy, sd_status, host, cardVars, IInv, CardType, DriverType
<1>2. CASE drv.op = "init"
  <2>1. xfer = None
    BY <1>1, <1>2 DEF IInv, InitTransfer
  <2>2. \/ /\ pc' = "idle" /\ drv' = [drv EXCEPT !.ret = "SD_TIMEOUT", !.inited = "SD_TIMEOUT"]
           /\ UNCHANGED <<cmd, err, resp>> /\ trouble' = TRUE
        \/ drv' = drv /\ Send("SEND_SCR", 0) /\ trouble' = trouble
    BY <1>1, <1>2, <2>1 DEF Busy, sd_status, DatBusy
  <2>3. CASE pc' = "idle" /\ drv' = [drv EXCEPT !.ret = "SD_TIMEOUT", !.inited = "SD_TIMEOUT"]
             /\ UNCHANGED <<cmd, err, resp>> /\ trouble' = TRUE
    <3>1. Return("SD_TIMEOUT")
      BY <1>2, <2>3 DEF Return
    <3> QED
      BY <1>1, <1>2, <2>3, <3>1, ReturnStep DEF Errors
  <2>4. CASE drv' = drv /\ Send("SEND_SCR", 0) /\ trouble' = trouble
    <3>1. DrvType' /\ drv.ccs = card.hc /\ card.mode = "tran" /\ ~card.limit
      BY <1>1, <1>2, <2>4 DEF IInv, InitOK, DrvType
    <3> QED
      BY <1>1, <1>2, <2>1, <2>4, <3>1, SendStep DEF InitCodes
  <2> QED
    BY <2>2, <2>3, <2>4
<1>3. CASE drv.op # "init"
  <2>1. pc' \notin {"idle", "inhibit"} \/ (HostType' /\ TransferOK')
    BY <1>1, HostQuiet
  <2>2. PICK ok \in BOOLEAN :
          /\ sd_status(DatBusy, ok)
          /\ IF ~ok THEN pc' = "idle" /\ drv' = [drv EXCEPT !.ret = "failed"] /\ err' = "SD_TIMEOUT"
                         /\ UNCHANGED <<cmd, resp>>
             ELSE /\ drv' = drv
                  /\ IF ~Ccs THEN SendSingle
                     ELSE IF drv.num > 1 /\ drv.scr.blkcnt THEN Send("SET_BLOCKCNT", drv.num)
                     ELSE SendCcs
    BY <1>3 DEF Busy
  <2>3. CASE ~ok
    <3>1. trouble' = (trouble \/ Due \/ ~DatBusy) /\ (interrupt \cap ErrorBits # {} \/ waited)
      BY <2>2, <2>3 DEF sd_status
    <3>2. ~(Fine /\ ~trouble')
      BY <1>1, <3>1 DEF IInv, FineOK, Due, DatBusy
    <3>3. CallFails
      BY <1>1, <1>3, <2>1, <2>2, <2>3, <3>1, <3>2 DEF CallFails, Errors
    <3> QED
      BY <3>3, CallFailsStep
  <2>4. CASE ok
    <3>1. xfer = None /\ interrupt \cap ErrorBits = {} /\ trouble' = trouble /\ drv' = drv
      BY <1>1, <2>2, <2>4 DEF sd_status, DatBusy
    <3>2. PICK code \in Codes, arg \in Nat :
           /\ Send(code, arg) /\ code \in Sent1(drv.op) \ {"STOP_TRANS"}
           /\ code \in ReadCodes \cup WriteCodes => arg = IF Ccs THEN drv.lba ELSE ByteAddress
           /\ ~(code = "READ_MULTI" /\ drv.scr.blkcnt)
      BY <1>1, <1>3, <2>2, <2>4, BusyCommands, Zenon
    <3>3. Sends(code, arg)
      BY <3>2, SendSends
    <3>4. /\ pc' = "inhibit" /\ cmd'.code = code /\ err' = "SD_OK" /\ resp' = {} /\ waited' = FALSE
          /\ cmd' \in [code : Codes, arg : Nat, app : BOOLEAN] /\ DrvType'
          /\ code # "STOP_TRANS"
      BY <1>1, <3>1, <3>2, <3>3 DEF Sends, DrvType
    <3>5. CallFrame
      BY <1>1, <1>3, <3>1, <3>4 DEF CallFrame, Errors
    <3>6. drv.done = 0 /\ Progress'
      BY <1>1, <1>3, <3>1, <3>4 DEF IInv, Progress, InCmd, Running, DrvType, Ccs
    <3>7. ReadTransfer' /\ WriteTransfer' /\ ReadSoFar'
      BY <1>1, <3>1, <3>4, <3>6 DEF ReadTransfer, WriteTransfer, ReadSoFar
    <3>8. StoredSoFar'
      BY <1>1, <3>1, <3>4, <3>6 DEF StoredSoFar
    <3>9. Fine' => Fine /\ line = None /\ card.mode = "tran" /\ ~card.limit
      BY <1>1, <1>3, <3>1 DEF IInv, FineOK, Fine, InitOver
    <3>10. CallSends(code, arg)
      BY <1>1, <2>1, <3>1, <3>2, <3>3, <3>4, <3>5, <3>6, <3>7, <3>8, <3>9
         DEF CallSends, ByteAddress, Served
    <3> QED
      BY <3>10, CallSendsStep
  <2> QED
    BY <2>3, <2>4
<1> QED
  BY <1>2, <1>3

(* SetBlockCnt keeps the invariant. *)
LEMMA SetBlockCntStep ==
  ASSUME IInv, SetBlockCnt PROVE IInv'
<1>1. /\ pc = "returned" /\ cmd.code = "SET_BLOCKCNT" /\ drv.op \in {"read", "write"}
      /\ drv.op # "init"
      /\ UNCHANGED <<interrupt, line, xfer, card, disk, asked, trouble>>
      /\ Ccs /\ drv.num # 1 /\ drv.scr.blkcnt /\ drv.done = 0 /\ InCmd /\ Running("SET_BLOCKCNT")
      /\ ~Running("STOP_TRANS") /\ drv.lba \in Nat
      /\ DrvType /\ trouble \in BOOLEAN /\ err \in Errors /\ waited \in BOOLEAN
  BY DEF SetBlockCnt, Returned, host, cardVars, history, IInv, CardType, DriverType, DrvType, Commanded, InCmd,
     Running, Sent1, InitCodes, Single, Multi, Progress, Ops
<1>2. pc' \in {"idle", "inhibit"} => HostType' /\ TransferOK'
  BY <1>1, HostQuiet
<1>3. xfer = None
  BY <1>1 DEF IInv, ReadTransfer, WriteTransfer, Past
<1>4. drv.op = "write" => ~Fine
  BY <1>1, FineWrites
<1>5. CASE err # "SD_OK"
  <2>1. pc' = "idle" /\ drv' = [drv EXCEPT !.ret = "failed"] /\ UNCHANGED <<cmd, err, resp, waited>>
    BY <1>1, <1>5 DEF SetBlockCnt, Return
  <2>2. ~Fine
    BY <1>1, <1>4, <1>5 DEF IInv, Serves, Served
  <2>3. CallFails
    BY <1>1, <1>2, <2>1, <2>2 DEF CallFails
  <2> QED
    BY <2>3, CallFailsStep
<1>6. CASE err = "SD_OK"
  <2>1. Send(Multi(drv.op), drv.lba) /\ drv' = drv
    BY <1>1, <1>6 DEF SetBlockCnt, SendCcs
  <2> DEFINE code == Multi(drv.op)
  <2>2. code \in Codes /\ code # "STOP_TRANS" /\ (code = "READ_MULTI" <=> drv.op = "read")
    BY <1>1, SingleMulti
  <2>3. Sends(code, drv.lba)
    BY <1>1, <2>1, <2>2, SendSends
  <2>4. code \in Sent1(drv.op)
    BY <1>1 DEF Sent1
  <2> HIDE DEF code
  <2>5. /\ pc' = "inhibit" /\ cmd'.code = code /\ err' = "SD_OK" /\ resp' = {} /\ waited' = FALSE
        /\ cmd' \in [code : Codes, arg : Nat, app : BOOLEAN] /\ DrvType'
    BY <1>1, <2>1, <2>3 DEF Sends, DrvType
  <2>6. CallFrame
    BY <1>1, <2>1, <2>5 DEF CallFrame, Errors
  <2>7. Progress'
    BY <1>1, <2>1, <2>2, <2>5 DEF IInv, Progress, InCmd, Running, Ccs
  <2>8. ReadTransfer' /\ WriteTransfer' /\ ReadSoFar'
    BY <1>1, <1>3, <2>1, <2>5 DEF ReadTransfer, WriteTransfer, ReadSoFar
  <2>9. StoredSoFar'
    BY <1>1, <2>1, <2>5 DEF StoredSoFar, Ccs
  <2>10. Fine' => Fine /\ line = None /\ interrupt \cap ErrorBits = {}
    BY <1>1, <2>1 DEF IInv, FineOK, Fine, InitOver
  <2>11. Served' => drv.op = "read" /\ card.mode = "tran" /\ card.limit
    BY <1>1, <1>4, <2>1, <2>10 DEF IInv, Serves, Served
  <2>12. Fine' => drv.op = "read"
    BY <1>1, <1>4, <2>10
  <2>13. CallSends(code, drv.lba)
    BY <1>1, <1>2, <1>3, <2>1, <2>2, <2>3, <2>4, <2>5, <2>6, <2>7, <2>8, <2>9, <2>10, <2>11, <2>12 DEF CallSends
  <2> QED
    BY <2>13, CallSendsStep
<1> QED
  BY <1>5, <1>6

(* DataCommand keeps the invariant. *)
LEMMA DataCommandStep ==
  ASSUME IInv, DataCommand PROVE IInv'
<1>1. /\ pc = "returned" /\ ~cmd.app /\ cmd.code \in ReadCodes \cup WriteCodes
      /\ UNCHANGED <<interrupt, line, xfer, card, disk, asked, trouble, waited>>
  BY DEF DataCommand, Returned, Keep, host, cardVars, history
<1>2. /\ InCmd /\ ~Running("STOP_TRANS") /\ cmd.code \notin {"STOP_TRANS", "SET_BLOCKCNT"}
      /\ drv.op \in {"read", "write"} /\ drv.op # "init"
      /\ DrvType /\ DriverType /\ trouble \in BOOLEAN /\ err \in Errors /\ waited \in BOOLEAN
  BY <1>1 DEF IInv, CardType, DriverType, DrvType, Commanded, InCmd, Running, InitCodes, ReadCodes,
     WriteCodes, Ops
<1>3. pc' \notin {"data", "scr"} => HostType' /\ TransferOK'
  BY <1>1, HostQuiet
<1>4. CASE err # "SD_OK" /\ (drv.op = "read" \/ Ccs)
  <2>1. pc' = "idle" /\ drv' = [drv EXCEPT !.ret = "failed"] /\ UNCHANGED <<cmd, err, resp>>
    BY <1>2, <1>4 DEF DataCommand, Return
  <2>2. ~Fine
    BY <1>2, <1>4, FineWrites DEF IInv, Serves, Served
  <2>3. CallFails
    BY <1>1, <1>2, <1>3, <2>1, <2>2 DEF CallFails
  <2> QED
    BY <2>3, CallFailsStep
<1>5. CASE ~(err # "SD_OK" /\ (drv.op = "read" \/ Ccs))
  <2>1. /\ pc' = (IF drv.op = "write" /\ Ccs THEN "finish" ELSE "ready")
        /\ UNCHANGED <<drv, cmd, err, resp>>
    BY <1>5 DEF DataCommand
  <2>2. CallFrame
    BY <1>1, <1>2, <2>1 DEF CallFrame, DrvType, DriverType
  <2>3. Commanded' /\ Progress'
    BY <1>1, <1>2, <2>1 DEF IInv, Commanded, Progress, InCmd, Running, Ccs
  <2>8. ReadTransfer'
    BY <1>1, <1>2, <2>1 DEF IInv, ReadTransfer, Past, InCmd, Running, Ccs
  <2>9. WriteTransfer'
    <3>1. Ccs' = Ccs /\ ~Running("SET_BLOCKCNT")' /\ pc # "finish"
      BY <1>1, <1>2, <2>1 DEF Ccs, Running
    <3> QED
      BY <1>1, <1>2, <1>5, <2>1, <3>1 DEF IInv, WriteTransfer, Past
  <2>4. ReadTransfer' /\ WriteTransfer'
    BY <2>8, <2>9
  <2>5. ReadSoFar' /\ StoredSoFar'
    BY <1>1, <1>2, <2>1 DEF IInv, ReadSoFar, StoredSoFar, Past, Ccs, Stored, FullAt
  <2>6. FineOK'
    BY <1>1, <1>2, <2>1 DEF IInv, FineOK, Fine, InitOver, Running, InCmd, ReadyBit
  <2>7. Serves'
    BY <1>1, <1>2, <2>1, FineWrites DEF IInv, Serves, Served, Fine, InitOver, InCmd, UnderWay, ModeInCall, Ccs
  <2> QED
    BY <1>3, <2>1, <2>2, <2>3, <2>4, <2>5, <2>6, <2>7, CallFrameStep DEF IInv
<1> QED
  BY <1>4, <1>5

(* StopTrans keeps the invariant. *)
LEMMA StopTransStep ==
  ASSUME IInv, StopTrans PROVE IInv'
<1>1. /\ pc = "returned" /\ ~cmd.app /\ cmd.code = "STOP_TRANS"
      /\ UNCHANGED <<interrupt, line, xfer, card, disk, asked, trouble, waited>>
  BY DEF StopTrans, Returned, Keep, host, cardVars, history
<1>2. /\ InCmd /\ Running("STOP_TRANS") /\ drv.op = "read"
      /\ DrvType /\ DriverType /\ trouble \in BOOLEAN /\ err \in Errors /\ waited \in BOOLEAN
  BY <1>1 DEF IInv, CardType, DriverType, DrvType, Commanded, InCmd, Running, InitCodes, Sent1, Single,
     Multi, Ops
<1>3. pc' = "idle" /\ HostType' /\ TransferOK' /\ UNCHANGED <<cmd, err, resp>>
  BY <1>1, HostQuiet DEF StopTrans, Return
<1>4. CASE err # "SD_OK"
  <2>1. drv' = [drv EXCEPT !.ret = "failed"]
    BY <1>2, <1>4 DEF StopTrans, Return
  <2>2. ~Fine
    BY <1>2, <1>4 DEF IInv, Serves, Served
  <2>3. CallFails
    BY <1>1, <1>2, <1>3, <2>1, <2>2 DEF CallFails
  <2> QED
    BY <2>3, CallFailsStep
<1>5. CASE err = "SD_OK"
  <2>1. drv' = [drv EXCEPT !.ret = "done"]
    BY <1>2, <1>5 DEF StopTrans, Return
  <2>2. DrvType' /\ DrvSame /\ drv'.scr = drv.scr /\ drv'.inited = drv.inited /\ drv'.ret = "done"
    BY <2>1, RetFields
  <2>3. CallFrame
    BY <1>1, <1>2, <1>3, <2>2 DEF CallFrame, DrvSame, DriverType
  <2>4. Commanded' /\ Progress'
    BY <1>1, <1>2, <1>3, <2>2 DEF IInv, Commanded, Progress, InCmd, DrvSame
  <2>5. ReadTransfer' /\ WriteTransfer' /\ StoredSoFar'
    BY <1>1, <1>2, <1>3, <2>2 DEF IInv, ReadTransfer, WriteTransfer, StoredSoFar, Past, DrvSame
  <2>6. ReadSoFar'
    BY <1>1, <1>2, <1>3, <2>2 DEF IInv, ReadSoFar, Past, DrvSame, Progress
  <2>7. Fine' => Fine /\ Served
    BY <1>1, <1>2, <1>3, <2>2 DEF Fine, InitOver, Served, DrvSame
  <2>8. FineOK' /\ Serves'
    BY <1>1, <1>2, <1>3, <2>2, <2>7 DEF IInv, FineOK, Serves, Served, InCmd, DrvSame
  <2> QED
    BY <1>3, <2>3, <2>4, <2>5, <2>6, <2>8, CallFrameStep DEF IInv
<1> QED
  BY <1>4, <1>5

(* The waits of a call for a bit of INTERRUPT. *)
LEMMA IntOK ==
  ASSUME IInv, NEW bit \in Bits \ ErrorBits, NEW r \in Errors, sd_int(bit, r)
  PROVE  /\ interrupt' \subseteq interrupt /\ waited' = FALSE /\ trouble' \in BOOLEAN
         /\ asked' = asked /\ (trouble => trouble')
         /\ r = "SD_OK" => bit \in interrupt /\ interrupt' = interrupt \ {bit} /\ trouble' = trouble
                           /\ interrupt \cap ErrorBits = {}
         /\ r # "SD_OK" => /\ interrupt' = {} /\ r \in {"SD_TIMEOUT", "SD_ERROR"}
                           /\ (Due \/ bit \in interrupt => trouble')
<1>1. trouble \in BOOLEAN
  BY DEF IInv, CardType
<1> QED
  BY <1>1 DEF sd_int, IntSeen, ErrorBits, TimeoutBits

(* Ready keeps the invariant. *)
LEMMA ReadyStep ==
  ASSUME IInv, Ready PROVE IInv'
<1>1. pc = "ready" /\ UNCHANGED <<cmd, resp, line, xfer, card, disk>>
  BY DEF Ready, cardVars
<1>2. PICK r \in Errors :
        /\ sd_int(ReadyBit, r)
        /\ pc' = IF r # "SD_OK" THEN "idle" ELSE IF drv.op = "init" THEN "scr" ELSE "data"
        /\ err' = IF r # "SD_OK" /\ drv.op # "init" THEN r ELSE err
        /\ drv' = IF r = "SD_OK" THEN [drv EXCEPT !.done = IF drv.op = "init" THEN 0 ELSE @]
                  ELSE IF drv.op = "init"
                  THEN [drv EXCEPT !.ret = "SD_TIMEOUT", !.inited = "SD_TIMEOUT"]
                  ELSE [drv EXCEPT !.ret = "failed"]
  BY DEF Ready
<1>3. ReadyBit \in Bits \ ErrorBits
  BY DEF ReadyBit, Bits, ErrorBits, TimeoutBits
<1>4. /\ interrupt' \subseteq interrupt /\ waited' = FALSE /\ trouble' \in BOOLEAN
      /\ asked' = asked /\ (trouble => trouble')
      /\ r = "SD_OK" => ReadyBit \in interrupt /\ interrupt' = interrupt \ {ReadyBit}
                        /\ trouble' = trouble /\ interrupt \cap ErrorBits = {}
      /\ r # "SD_OK" => /\ interrupt' = {} /\ r \in {"SD_TIMEOUT", "SD_ERROR"}
                        /\ (Due \/ ReadyBit \in interrupt => trouble')
  BY <1>2, <1>3, IntOK
<1>5. /\ DrvType /\ DriverType /\ trouble \in BOOLEAN /\ err \in Errors /\ waited \in BOOLEAN
  BY DEF IInv, CardType, DriverType
<1>6. pc' # "data" /\ pc' # "scr" => HostType' /\ TransferOK'
  BY <1>1, <1>4, HostQuiet
<1>7. CASE drv.op = "init" /\ r # "SD_OK"
  <2>1. Return("SD_TIMEOUT")
    BY <1>1, <1>2, <1>7 DEF Return
  <2> QED
    BY <1>1, <1>4, <1>7, <2>1, ReturnStep DEF Errors
<1>8. CASE drv.op = "init" /\ r = "SD_OK"
  <2>1. pc' = "scr" /\ err' = err /\ drv' = [drv EXCEPT !.done = 0]
    BY <1>2, <1>8
  <2>2. /\ DOMAIN drv' = DrvFields /\ drv'.done = 0 /\ drv'.tries = drv.tries
        /\ drv'.op = drv.op /\ drv'.lba = drv.lba /\ drv'.num = drv.num
        /\ drv'.buf = drv.buf /\ drv'.ccs = drv.ccs /\ drv'.scr = drv.scr /\ drv'.rca = drv.rca
        /\ drv'.ret = drv.ret /\ drv'.inited = drv.inited /\ drv'.calls = drv.calls
    BY <1>5, <2>1 DEF DrvType, DrvFields
  <2>3. DrvType'
    BY <1>5, <2>2 DEF DrvType
  <2>4. /\ "READ_RDY" \in interrupt /\ interrupt' = interrupt \ {"READ_RDY"}
        /\ interrupt \cap ErrorBits = {}
    BY <1>4, <1>8 DEF ReadyBit
  <2>5. /\ xfer # None /\ xfer.kind = "scr" /\ xfer.phase = "ready" /\ xfer.left <= 2
        /\ (xfer.block.blkcnt => card.blkcnt) /\ line = None /\ "WRITE_RDY" \notin interrupt
    BY <1>1, <1>8, <2>4 DEF IInv, TransferOK, InitTransfer
  <2>6. HostType'
    BY <1>1, <1>4 DEF IInv, HostType
  <2>7. TransferOK'
    BY <1>1, <1>4, <2>1, <2>4, <2>5 DEF IInv, TransferOK
  <2>8. /\ drv.ccs = card.hc /\ (drv.scr.blkcnt => card.blkcnt) /\ card.mode = "tran" /\ ~card.limit
        /\ err # "bits"
    BY <1>1, <1>8 DEF IInv, InitOK, AnswersOK
  <2>9. InitGoes
    BY <1>1, <1>4, <1>8, <2>1, <2>2, <2>3, <2>4, <2>5, <2>6, <2>7, <2>8 DEF InitGoes
  <2> QED
    BY <1>1, <2>9, InitGoesStep
<1>9. CASE drv.op # "init" /\ r # "SD_OK"
  <2>1. pc' = "idle" /\ err' = r /\ drv' = [drv EXCEPT !.ret = "failed"]
    BY <1>2, <1>9
  <2>2. ASSUME Fine, ~trouble' PROVE /\ drv.op = "write" /\ drv.num > 1 /\ xfer = None
                                     /\ card.mode = "tran" /\ ~card.limit /\ line = None
    <3>1. ~Due /\ ReadyBit \notin interrupt
      BY <1>4, <1>9, <2>2
    <3>2. xfer = None /\ line = None
      BY <1>1, <1>9, <2>2, <3>1 DEF IInv, FineOK, HostType, Phases, Due, Running, InCmd
    <3>3. ~Served
      BY <1>1, <3>2 DEF IInv, Serves, UnderWay
    <3> QED
      BY <1>1, <1>9, <2>2, <3>2, <3>3 DEF IInv, FineOK, Served, DrvType, Ops, Progress
  <2>3. CallFails
    BY <1>1, <1>4, <1>5, <1>6, <1>9, <2>1, <2>2 DEF CallFails
  <2> QED
    BY <2>3, CallFailsStep
<1>10. CASE drv.op # "init" /\ r = "SD_OK"
  <2>1. pc' = "data" /\ err' = err /\ drv' = [drv EXCEPT !.done = drv.done]
    BY <1>2, <1>10
  <2>14. /\ DOMAIN drv' = DrvFields /\ drv'.done = drv.done /\ drv'.tries = drv.tries
         /\ drv'.op = drv.op /\ drv'.lba = drv.lba /\ drv'.num = drv.num
         /\ drv'.buf = drv.buf /\ drv'.ccs = drv.ccs /\ drv'.scr = drv.scr /\ drv'.rca = drv.rca
         /\ drv'.ret = drv.ret /\ drv'.inited = drv.inited /\ drv'.calls = drv.calls
    BY <1>5, <2>1 DEF DrvType, DrvFields
  <2>2. /\ DrvType' /\ drv'.done = drv.done
        /\ drv'.op = drv.op /\ drv'.lba = drv.lba /\ drv'.num = drv.num
        /\ drv'.buf = drv.buf /\ drv'.scr = drv.scr
        /\ drv'.ret = drv.ret /\ drv'.inited = drv.inited
    BY <1>5, <2>14 DEF DrvType
  <2>3. ReadyBit \in interrupt /\ interrupt' = interrupt \ {ReadyBit} /\ trouble' = trouble
        /\ interrupt \cap ErrorBits = {}
    BY <1>4, <1>10
  <2>4. CallFrame
    BY <1>1, <1>4, <1>5, <1>10, <2>1, <2>2 DEF CallFrame, DrvType, DriverType
  <2>5. HostType'
    BY <1>1, <1>4 DEF IInv, HostType
  <2>6. TransferOK'
    BY <1>1, <1>4, <2>1, <2>3 DEF IInv, TransferOK, ReadyBit
  <2>7. Commanded' /\ Progress'
    BY <1>1, <1>4, <1>10, <2>1, <2>2 DEF IInv, Commanded, Progress, InCmd, Running, Ccs
  <2>8. ReadTransfer' /\ WriteTransfer'
    BY <1>1, <1>4, <2>1, <2>2 DEF IInv, ReadTransfer, WriteTransfer, Past, InCmd, Running, Ccs
  <2>9. ReadSoFar'
    BY <1>1, <1>4, <2>1, <2>2 DEF IInv, ReadSoFar, Past
  <2>10. StoredSoFar'
    BY <1>1, <1>4, <2>1, <2>2 DEF IInv, StoredSoFar, Past, Ccs, Stored, FullAt
  <2>11. Fine' => Fine
    BY <1>1, <1>4, <2>1, <2>2, <2>3 DEF Fine, InitOver
  <2>12. FineOK'
    BY <1>1, <1>4, <2>1, <2>2, <2>11 DEF IInv, FineOK
  <2>13. Serves'
    BY <1>1, <1>4, <2>1, <2>2, <2>11 DEF IInv, Serves, Served, UnderWay, ModeInCall, InCmd, Ccs
  <2> QED
    BY <2>4, <2>5, <2>6, <2>7, <2>8, <2>9, <2>10, <2>12, <2>13, CallFrameStep DEF IInv
<1> QED
  BY <1>7, <1>8, <1>9, <1>10

(* A read takes one block out of the FIFO, which is the one the card put there. *)
LEMMA ReadDataFacts ==
  ASSUME IInv, ReadData
  PROVE  /\ pc = "data" /\ drv.op = "read" /\ InFifo = disk[xfer.at] /\ xfer.at \in Sectors
         /\ xfer # None /\ xfer.kind = "read" /\ InFifo \in Int /\ InFifo # NoData
         /\ xfer.left = (IF Ccs THEN drv.num - drv.done ELSE 1) /\ DOMAIN xfer = XferFields
         /\ (drv.inited = "SD_OK" => xfer.at = drv.lba + drv.done)
         /\ xfer' = IF xfer.left = 1 THEN None
                    ELSE [xfer EXCEPT !.left = @ - 1, !.phase = "wait", !.at = @ + 1]
         /\ UNCHANGED <<trouble, asked, interrupt, line, card, disk>>
         /\ drv.done + 1 <= drv.num /\ "READ_RDY" \notin interrupt /\ "WRITE_RDY" \notin interrupt
<1> USE SdAssumption DEF SdAssumption
<1>1. /\ pc = "data" /\ drv.op = "read"
      /\ UNCHANGED <<trouble, asked, interrupt, line, card, disk>>
  BY DEF ReadData, history, cardVars
<1>2. Past("read") /\ ~Running("STOP_TRANS") /\ xfer # None /\ xfer.phase = "ready"
      /\ "READ_RDY" \notin interrupt /\ "WRITE_RDY" \notin interrupt
  BY <1>1 DEF Past, Running, InCmd, IInv, TransferOK
<1>3. /\ xfer.kind = "read" /\ xfer.at \in Sectors /\ xfer.block = disk[xfer.at]
      /\ xfer.left = (IF Ccs THEN drv.num - drv.done ELSE 1) /\ DOMAIN xfer = XferFields
      /\ (drv.inited = "SD_OK" => xfer.at = drv.lba + drv.done)
  BY <1>2 DEF IInv, ReadTransfer, HostType
<1>4. InFifo = disk[xfer.at]
  BY <1>2, <1>3 DEF InFifo, DatBusy
<1>5. disk[xfer.at] \in Nat
  BY <1>3 DEF IInv, NoStrayWrite, New, Sectors
<1>6. InFifo \in Int /\ InFifo # NoData
  BY <1>4, <1>5 DEF NoData
<1>7. xfer' = IF xfer.left = 1 THEN None
              ELSE [xfer EXCEPT !.left = @ - 1, !.phase = "wait", !.at = @ + 1]
  BY <1>6 DEF ReadData
<1>8. drv.done + 1 <= drv.num
  BY <1>1 DEF IInv, Progress, DrvType, Running, InCmd
<1> QED
  BY <1>1, <1>2, <1>3, <1>4, <1>6, <1>7, <1>8

(* What comes after a block was read, by the number still to come. *)
LEMMA ReadDataDrv ==
  ASSUME IInv, ReadData
  PROVE  \E r \in {drv.ret, "done"} :
          /\ \/ /\ drv.done + 1 < drv.num /\ Ccs /\ pc' = "ready" /\ r = drv.ret
                /\ UNCHANGED <<cmd, err, resp, waited>>
             \/ /\ drv.done + 1 < drv.num /\ ~Ccs /\ r = drv.ret
                /\ Send("READ_SINGLE", (drv.lba + drv.done + 1) * BlockSize)
             \/ /\ drv.done + 1 = drv.num /\ drv.num > 1 /\ ~drv.scr.blkcnt /\ Ccs
                /\ Send("STOP_TRANS", 0) /\ r = drv.ret
             \/ /\ drv.done + 1 = drv.num /\ ~(drv.num > 1 /\ ~drv.scr.blkcnt /\ Ccs)
                /\ pc' = "idle" /\ r = "done" /\ UNCHANGED <<cmd, err, resp, waited>>
          /\ DrvType' /\ drv'.op = drv.op /\ drv'.lba = drv.lba /\ drv'.num = drv.num
          /\ drv'.scr = drv.scr /\ drv'.inited = drv.inited /\ drv'.ret = r
          /\ drv'.done = drv.done + 1 /\ drv'.buf = Append(drv.buf, disk[xfer.at])
<1> DEFINE read == [drv EXCEPT !.done = @ + 1, !.buf = Append(@, InFifo)]
<1>1. DrvType /\ drv.done + 1 <= drv.num /\ InFifo = disk[xfer.at] /\ InFifo \in Int
  BY ReadDataFacts DEF IInv
<1>2. /\ DOMAIN read = DrvFields /\ read.done = drv.done + 1 /\ read.tries = drv.tries
      /\ read.op = drv.op /\ read.lba = drv.lba /\ read.num = drv.num
      /\ read.buf = Append(drv.buf, disk[xfer.at]) /\ read.ccs = drv.ccs /\ read.scr = drv.scr
      /\ read.rca = drv.rca /\ read.ret = drv.ret /\ read.inited = drv.inited /\ read.calls = drv.calls
  BY <1>1 DEF DrvType, DrvFields
<1>3. /\ DOMAIN [read EXCEPT !.ret = "done"] = DrvFields
      /\ [read EXCEPT !.ret = "done"].done = drv.done + 1 /\ [read EXCEPT !.ret = "done"].tries = drv.tries
      /\ [read EXCEPT !.ret = "done"].op = drv.op /\ [read EXCEPT !.ret = "done"].lba = drv.lba
      /\ [read EXCEPT !.ret = "done"].num = drv.num
      /\ [read EXCEPT !.ret = "done"].buf = Append(drv.buf, disk[xfer.at])
      /\ [read EXCEPT !.ret = "done"].ccs = drv.ccs /\ [read EXCEPT !.ret = "done"].scr = drv.scr
      /\ [read EXCEPT !.ret = "done"].rca = drv.rca /\ [read EXCEPT !.ret = "done"].ret = "done"
      /\ [read EXCEPT !.ret = "done"].inited = drv.inited
      /\ [read EXCEPT !.ret = "done"].calls = drv.calls
  <2> HIDE DEF read
  <2> QED
    BY <1>2 DEF DrvFields
<1>4. \/ /\ drv.done + 1 < drv.num /\ Ccs /\ pc' = "ready" /\ drv' = read
         /\ UNCHANGED <<cmd, err, resp, waited>>
      \/ /\ drv.done + 1 < drv.num /\ ~Ccs /\ drv' = read
         /\ Send("READ_SINGLE", (drv.lba + drv.done + 1) * BlockSize)
      \/ /\ drv.done + 1 = drv.num /\ drv.num > 1 /\ ~drv.scr.blkcnt /\ Ccs
         /\ Send("STOP_TRANS", 0) /\ drv' = read
      \/ /\ drv.done + 1 = drv.num /\ ~(drv.num > 1 /\ ~drv.scr.blkcnt /\ Ccs)
         /\ pc' = "idle" /\ drv' = [read EXCEPT !.ret = "done"] /\ UNCHANGED <<cmd, err, resp, waited>>
  BY <1>1 DEF ReadData, More, DrvType
<1>5. Append(drv.buf, disk[xfer.at]) \in Seq(Int)
  BY <1>1 DEF DrvType
<1> HIDE DEF read
<1>6. CASE drv' = read
  <2>0. /\ DOMAIN drv' = DrvFields /\ drv'.done = drv.done + 1 /\ drv'.tries = drv.tries
        /\ drv'.op = drv.op /\ drv'.lba = drv.lba /\ drv'.num = drv.num
        /\ drv'.buf = Append(drv.buf, disk[xfer.at]) /\ drv'.ccs = drv.ccs /\ drv'.scr = drv.scr
        /\ drv'.rca = drv.rca /\ drv'.ret = drv.ret /\ drv'.inited = drv.inited
        /\ drv'.calls = drv.calls
    BY <1>2, <1>6
  <2>1. DrvType'
    BY <1>1, <1>5, <2>0 DEF DrvType
  <2> QED
    BY <1>3, <1>4, <1>6, <2>0, <2>1
<1>7. CASE drv' = [read EXCEPT !.ret = "done"]
  <2>0. /\ DOMAIN drv' = DrvFields /\ drv'.done = drv.done + 1 /\ drv'.tries = drv.tries
        /\ drv'.op = drv.op /\ drv'.lba = drv.lba /\ drv'.num = drv.num
        /\ drv'.buf = Append(drv.buf, disk[xfer.at]) /\ drv'.ccs = drv.ccs /\ drv'.scr = drv.scr
        /\ drv'.rca = drv.rca /\ drv'.ret = "done" /\ drv'.inited = drv.inited
        /\ drv'.calls = drv.calls
    BY <1>3, <1>7
  <2>1. DrvType'
    BY <1>1, <1>5, <2>0 DEF DrvType
  <2> QED
    BY <1>2, <1>3, <1>4, <1>7, <2>1
<1> QED
  BY <1>4, <1>6, <1>7

(* ReadData keeps the invariant. *)
LEMMA ReadDataStep ==
  ASSUME IInv, ReadData PROVE IInv'
<1> USE SdAssumption DEF SdAssumption
<1>1. /\ pc = "data" /\ drv.op = "read" /\ InFifo = disk[xfer.at] /\ xfer.at \in Sectors
      /\ xfer # None /\ xfer.kind = "read" /\ InFifo \in Int /\ InFifo # NoData
      /\ xfer.left = (IF Ccs THEN drv.num - drv.done ELSE 1) /\ DOMAIN xfer = XferFields
      /\ (drv.inited = "SD_OK" => xfer.at = drv.lba + drv.done)
      /\ xfer' = IF xfer.left = 1 THEN None
                 ELSE [xfer EXCEPT !.left = @ - 1, !.phase = "wait", !.at = @ + 1]
      /\ UNCHANGED <<trouble, asked, interrupt, line, card, disk>>
      /\ drv.done + 1 <= drv.num /\ "READ_RDY" \notin interrupt /\ "WRITE_RDY" \notin interrupt
  BY ReadDataFacts
<1>2. PICK r \in {drv.ret, "done"} :
          /\ \/ /\ drv.done + 1 < drv.num /\ Ccs /\ pc' = "ready" /\ r = drv.ret
                /\ UNCHANGED <<cmd, err, resp, waited>>
             \/ /\ drv.done + 1 < drv.num /\ ~Ccs /\ r = drv.ret
                /\ Send("READ_SINGLE", (drv.lba + drv.done + 1) * BlockSize)
             \/ /\ drv.done + 1 = drv.num /\ drv.num > 1 /\ ~drv.scr.blkcnt /\ Ccs
                /\ Send("STOP_TRANS", 0) /\ r = drv.ret
             \/ /\ drv.done + 1 = drv.num /\ ~(drv.num > 1 /\ ~drv.scr.blkcnt /\ Ccs)
                /\ pc' = "idle" /\ r = "done" /\ UNCHANGED <<cmd, err, resp, waited>>
          /\ DrvType' /\ drv'.op = drv.op /\ drv'.lba = drv.lba /\ drv'.num = drv.num
          /\ drv'.scr = drv.scr /\ drv'.inited = drv.inited /\ drv'.ret = r
          /\ drv'.done = drv.done + 1 /\ drv'.buf = Append(drv.buf, disk[xfer.at])
  BY ReadDataDrv
<1>3. DrvType /\ DriverType /\ HostType /\ CardType
  BY DEF IInv
<1>4. \/ xfer' = None /\ (~Ccs \/ drv.done + 1 = drv.num)
      \/ /\ Ccs /\ drv.done + 1 < drv.num /\ xfer' # None /\ DOMAIN xfer' = XferFields
         /\ xfer'.kind = "read" /\ xfer'.phase = "wait" /\ xfer'.at = xfer.at + 1
         /\ xfer'.left = drv.num - drv.done - 1 /\ xfer'.block = xfer.block /\ xfer'.left \in Nat
         /\ xfer'.at \in Nat /\ xfer'.block \in Int
  <2>1. /\ xfer.phase \in Phases /\ xfer.at \in Nat /\ xfer.left \in Nat /\ xfer.block \in Int
        /\ drv.done \in Nat /\ drv.num \in Nat
    BY <1>1, <1>3 DEF HostType, DrvType
  <2>2. CASE xfer.left = 1
    BY <1>1, <2>1, <2>2
  <2>3. CASE xfer.left # 1
    <3>1. xfer' = [xfer EXCEPT !.left = @ - 1, !.phase = "wait", !.at = @ + 1]
      BY <1>1, <2>3
    <3>2. /\ DOMAIN xfer' = XferFields /\ xfer'.kind = "read" /\ xfer'.phase = "wait"
          /\ xfer'.at = xfer.at + 1 /\ xfer'.left = xfer.left - 1 /\ xfer'.block = xfer.block
      BY <1>1, <3>1 DEF XferFields
    <3>3. xfer' # None
      BY <3>2 DEF None
    <3> QED
      BY <1>1, <2>1, <2>3, <3>2, <3>3
  <2> QED
    BY <2>2, <2>3
<1>5. HostType' /\ TransferOK'
  <2>1. HostType'
    BY <1>1, <1>3, <1>4 DEF HostType, Phases
  <2>2. pc' \notin {"data", "scr"}
    BY <1>2 DEF Send
  <2>3. TransferOK'
    BY <1>1, <1>4, <2>2 DEF IInv, TransferOK
  <2> QED
    BY <2>1, <2>3
<1>6. NoStrayWrite /\ ReadSoFar /\ Progress /\ FineOK /\ Serves /\ Past("read") /\ ~Running("STOP_TRANS")
  BY <1>1 DEF IInv, Past, Running, InCmd
<1>7. ReadSoFar'
  <2>1. Len(drv.buf) = drv.done /\ drv.buf \in Seq(Int) /\ drv.done \in Nat
    BY <1>1, <1>3, <1>6 DEF Progress, DrvType
  <2>2. ASSUME drv.inited = "SD_OK", NEW i \in 1..(drv.done + 1)
        PROVE drv'.buf[i] = disk[drv.lba + i - 1]
    <3>1. CASE i \in 1..drv.done
      <4>1. drv.buf[i] = disk[drv.lba + i - 1]
        BY <1>1, <1>6, <2>2, <3>1 DEF ReadSoFar
      <4> QED
        BY <1>2, <2>1, <3>1, <4>1
    <3>2. CASE i = drv.done + 1
      <4>1. drv'.buf[i] = disk[xfer.at]
        BY <1>2, <2>1, <3>2
      <4>2. xfer.at = drv.lba + i - 1
        BY <1>1, <1>3, <2>2, <3>2 DEF DrvType
      <4> QED
        BY <4>1, <4>2
    <3> QED
      BY <2>1, <3>1, <3>2
  <2>3. pc' = "idle" => drv'.done = drv'.num
    BY <1>2 DEF Send
  <2> QED
    BY <1>1, <1>2, <2>2, <2>3 DEF ReadSoFar
<1>8. /\ Fine' => Fine
      /\ Fine => /\ UnderWay /\ ~card.limit /\ err = "SD_OK" /\ line = None
                 /\ interrupt \cap ErrorBits = {}
  <2>1. Fine' => Fine
    BY <1>1, <1>2 DEF Fine, InitOver
  <2>2. Fine => Served
    BY <1>1 DEF Served
  <2> QED
    BY <1>1, <1>6, <2>1, <2>2 DEF Serves, FineOK
<1>9. CASE pc' = "ready" /\ drv.done + 1 < drv.num /\ Ccs /\ UNCHANGED <<cmd, err, resp, waited>>
  <2>7. /\ drv.done \in Nat /\ drv.num \in Nat /\ drv.lba \in Nat /\ drv'.done = drv.done + 1
        /\ xfer' # None /\ xfer'.kind = "read" /\ xfer'.phase = "wait"
        /\ xfer'.left = drv'.num - drv'.done
        /\ drv'.inited = "SD_OK" => xfer'.at = drv'.lba + drv'.done
    <3>1. drv.done \in Nat /\ drv.num \in Nat /\ drv.lba \in Nat
      BY <1>3 DEF DrvType
    <3>2. /\ xfer' # None /\ xfer'.kind = "read" /\ xfer'.phase = "wait"
          /\ xfer'.left = drv.num - drv.done - 1 /\ xfer'.at = xfer.at + 1
      BY <1>4, <1>9, <3>1
    <3>3. drv.inited = "SD_OK" => xfer.at = drv.lba + drv.done
      BY <1>1
    <3>4. drv'.done = drv.done + 1 /\ drv'.num = drv.num /\ drv'.lba = drv.lba /\ drv'.inited = drv.inited
      BY <1>2
    <3>5. xfer'.left = drv'.num - drv'.done
      BY <3>1, <3>2, <3>4
    <3>6. drv'.inited = "SD_OK" => xfer'.at = drv'.lba + drv'.done
      BY <3>1, <3>2, <3>3, <3>4
    <3> QED
      BY <3>1, <3>2, <3>4, <3>5, <3>6
  <2>1. CallFrame
    BY <1>1, <1>2, <1>3, <1>9 DEF CallFrame, DriverType, CardType
  <2>2. Commanded' /\ Progress'
    BY <1>1, <1>2, <1>3, <1>6, <1>9 DEF IInv, Commanded, Progress, InCmd, Running, Ccs, DrvType
  <2>3. WriteTransfer' /\ StoredSoFar'
    BY <1>1, <1>2 DEF WriteTransfer, StoredSoFar, Past
  <2>4. ReadTransfer'
    <3>1. ~InCmd' /\ drv.done \in Nat /\ drv.num \in Nat /\ drv.lba \in Nat /\ Ccs' = Ccs
      BY <1>2, <1>3, <1>9 DEF InCmd, DrvType, Ccs
    <3> QED
      BY <1>2, <1>9, <2>7, <3>1 DEF ReadTransfer, Running
  <2>5. FineOK'
    BY <1>1, <1>2, <1>4, <1>6, <1>8, <1>9 DEF FineOK, Serves, Served, UnderWay, ModeInCall
  <2>6. Serves'
    <3>1. ~InCmd' /\ ModeInCall' = ModeInCall
      BY <1>2, <1>9 DEF InCmd, ModeInCall, Ccs
    <3> QED
      BY <1>1, <1>2, <1>8, <1>9, <2>7, <3>1 DEF Serves, Served, UnderWay
  <2> QED
    BY <1>5, <1>7, <2>1, <2>2, <2>3, <2>4, <2>5, <2>6, CallFrameStep DEF IInv
<1>10. CASE pc' = "idle" /\ drv.done + 1 = drv.num /\ UNCHANGED <<cmd, err, resp, waited>> /\ r = "done"
            /\ ~(drv.num > 1 /\ ~drv.scr.blkcnt /\ Ccs)
  <2>1. CallFrame
    BY <1>1, <1>2, <1>3, <1>10 DEF CallFrame, DriverType, CardType
  <2>2. Commanded' /\ Progress'
    BY <1>1, <1>2, <1>3, <1>6, <1>10 DEF IInv, Commanded, Progress, InCmd, Running, Ccs, DrvType
  <2>3. WriteTransfer' /\ StoredSoFar'
    BY <1>1, <1>2 DEF WriteTransfer, StoredSoFar, Past
  <2>4. ReadTransfer'
    BY <1>1, <1>2, <1>3, <1>4, <1>10 DEF ReadTransfer, Past, Running, InCmd, DrvType, Ccs
  <2>5. FineOK'
    BY <1>1, <1>2, <1>3, <1>4, <1>8, <1>10 DEF FineOK, UnderWay, ModeInCall, DrvType
  <2>6. Serves'
    BY <1>1, <1>2, <1>4, <1>6, <1>8, <1>10 DEF Serves, Served, UnderWay, ModeInCall, InCmd, Ccs
  <2> QED
    BY <1>5, <1>7, <2>1, <2>2, <2>3, <2>4, <2>5, <2>6, CallFrameStep DEF IInv
<1>11. ASSUME NEW code \in {"READ_SINGLE", "STOP_TRANS"}, NEW arg \in Nat, Send(code, arg),
              xfer' = None, code \in Sent1("read"),
              code = "READ_SINGLE" => ~Ccs /\ drv.done + 1 < drv.num /\ arg = (drv.lba + drv.done + 1) * BlockSize,
              code = "STOP_TRANS" => drv.done + 1 = drv.num /\ drv.num > 1 /\ ~drv.scr.blkcnt /\ Ccs
       PROVE IInv'
  <2>1. Sends(code, arg)
    BY <1>11, SendSends DEF Codes, ReadCodes
  <2>2. /\ pc' = "inhibit" /\ cmd'.code = code /\ err' = "SD_OK" /\ resp' = {} /\ waited' = FALSE
        /\ cmd' \in [code : Codes, arg : Nat, app : BOOLEAN]
    BY <2>1 DEF Sends
  <2>3. CallFrame
    BY <1>1, <1>2, <1>3, <2>2 DEF CallFrame, DriverType, CardType, Errors
  <2>10. /\ Len(drv'.buf) = drv'.done /\ drv.done \in Nat /\ drv.num \in Nat
         /\ Running("STOP_TRANS")' <=> code = "STOP_TRANS"
    BY <1>1, <1>2, <1>3, <1>6, <2>2 DEF Progress, DrvType, InCmd, Running
  <2>4. Progress'
    BY <1>1, <1>2, <1>6, <1>11, <2>2, <2>10 DEF Progress, Ccs
  <2>5. ReadTransfer' /\ WriteTransfer' /\ StoredSoFar'
    BY <1>1, <1>2, <1>11, <2>2 DEF ReadTransfer, WriteTransfer, StoredSoFar, Past
  <2>6. Fine' => line' = None /\ interrupt' \cap ErrorBits = {}
    BY <1>1, <1>6, <1>8 DEF FineOK
  <2>7. Served' => /\ card.mode = IF code = "STOP_TRANS" THEN "open" ELSE "tran"
                   /\ ~card.limit
    BY <1>1, <1>2, <1>6, <1>8, <1>11 DEF Serves, Served, UnderWay, ModeInCall, Ccs
  <2>8. code \in ReadCodes \cup WriteCodes => arg = IF Ccs THEN drv.lba ELSE ByteAddress'
    <3>1. code \in ReadCodes \cup WriteCodes => code = "READ_SINGLE"
      BY <1>11 DEF ReadCodes, WriteCodes
    <3>2. drv'.lba = drv.lba /\ drv'.done = drv.done + 1
      BY <1>2
    <3>3. drv.lba \in Nat /\ drv.done \in Nat
      BY <1>3 DEF DrvType
    <3>4. drv'.lba + drv'.done = drv.lba + drv.done + 1
      BY <3>2, <3>3
    <3>5. ByteAddress' = (drv.lba + drv.done + 1) * BlockSize
      BY <3>4 DEF ByteAddress
    <3> QED
      BY <1>11, <3>1, <3>5
  <2>9. CallSends(code, arg)
    BY <1>1, <1>5, <1>7, <1>11, <2>1, <2>3, <2>4, <2>5, <2>6, <2>7, <2>8 DEF CallSends
  <2> QED
    BY <2>9, CallSendsStep
<1>12. CASE drv.done + 1 < drv.num /\ ~Ccs /\ Send("READ_SINGLE", (drv.lba + drv.done + 1) * BlockSize)
  <2>1. xfer' = None /\ "READ_SINGLE" \in Sent1("read") /\ (drv.lba + drv.done + 1) * BlockSize \in Nat
    BY <1>3, <1>4, <1>12 DEF Sent1, Single, DrvType
  <2> QED
    BY <1>11, <1>12, <2>1
<1>13. CASE drv.done + 1 = drv.num /\ drv.num > 1 /\ ~drv.scr.blkcnt /\ Ccs /\ Send("STOP_TRANS", 0)
  <2>1. xfer' = None /\ "STOP_TRANS" \in Sent1("read")
    BY <1>3, <1>4, <1>13 DEF Sent1, DrvType
  <2> QED
    BY <1>11, <1>13, <2>1
<1> QED
  BY <1>2, <1>9, <1>10, <1>12, <1>13

(* WriteData keeps the invariant. *)
LEMMA WriteDataStep ==
  ASSUME IInv, WriteData PROVE IInv'
<1> USE SdAssumption DEF SdAssumption
<1>1. /\ pc = "data" /\ drv.op = "write" /\ drv.op # "init"
      /\ UNCHANGED <<trouble, asked, interrupt, line, card, disk>>
  BY DEF WriteData, history, cardVars
<1>2. /\ Past("write") /\ ~Running("STOP_TRANS") /\ ~Running("SET_BLOCKCNT") /\ ~Ccs
      /\ xfer # None /\ xfer.phase = "ready" /\ xfer.kind = "write"
      /\ "READ_RDY" \notin interrupt /\ "WRITE_RDY" \notin interrupt /\ xfer.at = drv.lba + drv.done
      /\ drv.inited = "SD_OK" /\ ~card.hc
  BY <1>1 DEF Past, Running, InCmd, IInv, TransferOK, Commanded, WriteTransfer, InitOK, InitOver
<1>3. DrvType /\ DriverType /\ HostType /\ CardType
  BY DEF IInv
<1>4. /\ drv.done \in Nat /\ drv.num \in Nat /\ drv.lba \in Nat /\ drv.done + 1 <= drv.num
      /\ xfer.at \in asked /\ Len(drv.buf) = 0
  BY <1>1, <1>2, <1>3 DEF IInv, Progress, DrvType
<1>5. /\ xfer' # None /\ DOMAIN xfer' = XferFields /\ xfer'.kind = "write" /\ xfer'.phase = "full"
      /\ xfer'.at = xfer.at /\ xfer'.left = xfer.left /\ xfer'.block = New(xfer.at)
  <2>1. xfer' = [xfer EXCEPT !.phase = "full", !.block = New(drv.lba + drv.done)]
    BY <1>2 DEF WriteData, DatBusy
  <2>2. DOMAIN xfer = XferFields
    BY <1>2, <1>3 DEF HostType
  <2>3. /\ DOMAIN xfer' = XferFields /\ xfer'.kind = xfer.kind /\ xfer'.phase = "full"
        /\ xfer'.at = xfer.at /\ xfer'.left = xfer.left /\ xfer'.block = New(drv.lba + drv.done)
    BY <2>1, <2>2 DEF XferFields
  <2> QED
    BY <1>2, <2>3 DEF None
<1>6. HostType' /\ (pc' \notin {"data", "scr"} => TransferOK')
  <2>1. New(xfer.at) \in Int /\ xfer.at \in Nat /\ xfer.left \in Nat
    BY <1>2, <1>3 DEF New, HostType
  <2>2. HostType'
    BY <1>1, <1>3, <1>5, <2>1 DEF HostType, Phases
  <2>3. pc' \notin {"data", "scr"} => TransferOK'
    BY <1>1, <1>2, <1>4, <1>5 DEF IInv, TransferOK, New
  <2> QED
    BY <2>2, <2>3
<1>7. Fine => /\ line = None /\ interrupt \cap ErrorBits = {} /\ card.mode = "tran" /\ ~card.limit
              /\ drv.num = 1 => err = "SD_OK"
  BY <1>1 DEF IInv, FineOK, Serves, Served
<1>8. CASE err # "SD_OK"
  <2>1. pc' = "idle" /\ drv' = [drv EXCEPT !.ret = "failed"] /\ UNCHANGED <<cmd, err, resp, waited>>
    BY <1>1, <1>8 DEF WriteData, Return
  <2>2. CallFails
    BY <1>1, <1>3, <1>4, <1>5, <1>6, <1>7, <1>8, <2>1 DEF CallFails, DriverType, CardType
  <2> QED
    BY <2>2, CallFailsStep
<1>9. CASE err = "SD_OK"
  <2>1. drv' = [drv EXCEPT !.done = @ + 1]
    BY <1>9 DEF WriteData
  <2>2. /\ DOMAIN drv' = DrvFields /\ drv'.done = drv.done + 1 /\ drv'.tries = drv.tries
        /\ drv'.op = drv.op /\ drv'.lba = drv.lba /\ drv'.num = drv.num
        /\ drv'.buf = drv.buf /\ drv'.ccs = drv.ccs /\ drv'.scr = drv.scr /\ drv'.rca = drv.rca
        /\ drv'.ret = drv.ret /\ drv'.inited = drv.inited /\ drv'.calls = drv.calls
    BY <1>3, <2>1 DEF DrvType, DrvFields
  <2>3. DrvType'
    BY <1>3, <2>2 DEF DrvType
  <2>4. \/ /\ drv.done + 1 < drv.num /\ Send("WRITE_SINGLE", (drv.lba + drv.done + 1) * BlockSize)
        \/ /\ drv.done + 1 = drv.num /\ pc' = "finish" /\ UNCHANGED <<cmd, err, resp, waited>>
    BY <1>4, <1>9 DEF WriteData, More
  <2>5. ASSUME drv.num > 1, NEW i \in 0..drv.done
        PROVE  disk[drv.lba + i] = New(drv.lba + i) \/ trouble \/ (i = drv.done /\ xfer.at = drv.lba + i)
    <3>1. CASE i # drv.done
      <4>1. i \in 0..(drv.done - 1) /\ ~FullAt(drv.lba + i)
        BY <1>2, <1>4, <3>1 DEF FullAt
      <4> QED
        BY <1>2, <2>5, <4>1 DEF IInv, StoredSoFar, Stored
    <3> QED
      BY <1>2, <3>1
  <2>6. Fine' => Fine
    BY <1>1, <2>2 DEF Fine, InitOver
  <2>7. ReadTransfer' /\ ReadSoFar'
    BY <1>1, <2>2 DEF ReadTransfer, ReadSoFar, Past
  <2>8. ASSUME drv'.num > 1, NEW i \in 0..(drv'.done - 1)
        PROVE  \/ disk'[drv'.lba + i] = New(drv'.lba + i) \/ trouble'
               \/ i = drv'.done - 1 /\ xfer' # None /\ xfer'.phase = "full" /\ xfer'.at = drv'.lba + i
    <3>1. i \in 0..drv.done /\ drv'.done - 1 = drv.done
      BY <1>4, <2>2
    <3> QED
      BY <1>1, <1>5, <2>2, <2>5, <2>8, <3>1
  <2>9. CASE drv.done + 1 = drv.num /\ pc' = "finish" /\ UNCHANGED <<cmd, err, resp, waited>>
    <3>1. CallFrame
      BY <1>1, <1>3, <2>2, <2>3, <2>9 DEF CallFrame, DriverType, CardType
    <3>2. Commanded' /\ Progress'
      BY <1>1, <1>2, <1>4, <2>2, <2>9 DEF IInv, Commanded, Progress, InCmd, Running, Ccs
    <3>3. WriteTransfer'
      BY <1>1, <1>2, <1>5, <2>2, <2>9 DEF WriteTransfer, Past, Running, InCmd
    <3>4. StoredSoFar'
      <4>1. drv.num = 1 => "DATA_DONE" \notin interrupt /\ xfer.at = drv.lba
        BY <1>1, <1>2, <1>4, <1>9 DEF IInv, StoredSoFar
      <4> QED
        BY <1>1, <1>5, <2>2, <2>8, <2>9, <4>1 DEF StoredSoFar, Stored, FullAt
    <3>5. FineOK' /\ Serves'
      BY <1>1, <1>5, <1>7, <2>2, <2>9 DEF FineOK, Serves, Served, Fine, InitOver, InCmd
    <3> QED
      BY <1>6, <2>7, <2>9, <3>1, <3>2, <3>3, <3>4, <3>5, CallFrameStep DEF IInv
  <2>10. CASE drv.done + 1 < drv.num /\ Send("WRITE_SINGLE", (drv.lba + drv.done + 1) * BlockSize)
    <3> DEFINE arg == (drv.lba + drv.done + 1) * BlockSize
    <3>1. arg \in Nat /\ arg = ByteAddress'
      <4>1. drv.lba + drv.done + 1 = drv'.lba + drv'.done
        BY <1>4, <2>2
      <4> QED
        BY <1>4, <4>1 DEF ByteAddress
    <3> HIDE DEF arg
    <3>2. Sends("WRITE_SINGLE", arg)
      BY <2>10, <3>1, SendSends DEF arg, Codes, WriteCodes
    <3>3. /\ pc' = "inhibit" /\ cmd'.code = "WRITE_SINGLE" /\ err' = "SD_OK" /\ resp' = {} /\ waited' = FALSE
          /\ cmd' \in [code : Codes, arg : Nat, app : BOOLEAN]
      BY <3>2 DEF Sends
    <3>4. CallFrame
      BY <1>1, <1>3, <2>2, <2>3, <3>3 DEF CallFrame, DriverType, CardType, Errors
    <3>5. Progress'
      BY <1>1, <1>2, <1>4, <2>2, <2>10, <3>3 DEF IInv, Progress, InCmd, Running, Ccs
    <3>6. WriteTransfer'
      BY <1>1, <1>2, <1>5, <2>2, <3>3 DEF WriteTransfer, Past, Running, InCmd
    <3>7. StoredSoFar'
      BY <1>1, <1>4, <2>2, <2>8, <2>10, <3>3 DEF StoredSoFar, Stored, FullAt
    <3>8. "WRITE_SINGLE" \in Sent1(drv.op) /\ drv.num # 1
      BY <1>1, <1>2, <1>4, <2>10 DEF Sent1, Single
    <3>9. Fine' => Fine
      BY <1>1, <2>2 DEF Fine, InitOver
    <3>10. Fine' => /\ line' = None /\ interrupt' \cap ErrorBits = {}
                    /\ drv.op = "write" => card.mode = "tran" /\ ~card.limit
                    /\ xfer' # None => xfer'.phase # "dead"
      BY <1>1, <1>5, <1>7, <3>9
    <3>11. ~Served'
      BY <1>1, <2>2, <3>8 DEF Served
    <3>12. CallSends("WRITE_SINGLE", arg)
      BY <1>1, <1>2, <1>6, <2>7, <3>1, <3>2, <3>3, <3>4, <3>5, <3>6, <3>7, <3>8, <3>10, <3>11 DEF CallSends
    <3> QED
      BY <3>12, CallSendsStep
  <2> QED
    BY <2>4, <2>9, <2>10
<1> QED
  BY <1>3, <1>8, <1>9 DEF DriverType

(* Finish keeps the invariant. *)
LEMMA FinishStep ==
  ASSUME IInv, Finish PROVE IInv'
<1>1. /\ pc = "finish" /\ pc' = "idle" /\ UNCHANGED <<cmd, err, resp, line, xfer, card, disk>>
      /\ drv.op = "write"
  BY DEF Finish, cardVars, IInv, Commanded
<1>2. PICK r \in Errors :
        sd_int("DATA_DONE", r) /\ drv' = [drv EXCEPT !.ret = IF r = "SD_OK" THEN "done" ELSE "failed"]
  BY DEF Finish
<1>3. /\ interrupt' \subseteq interrupt /\ waited' = FALSE /\ trouble' \in BOOLEAN
      /\ asked' = asked /\ (trouble => trouble')
      /\ r = "SD_OK" => "DATA_DONE" \in interrupt /\ trouble' = trouble
      /\ r # "SD_OK" => /\ interrupt' = {}
                        /\ (Due \/ "DATA_DONE" \in interrupt => trouble')
  <2>1. "DATA_DONE" \in Bits \ ErrorBits
    BY DEF Bits, ErrorBits, TimeoutBits
  <2> QED
    BY <1>2, <2>1, IntOK
<1>4. HostType' /\ TransferOK'
  BY <1>1, <1>3, HostQuiet
<1>5. DrvType /\ DriverType /\ CardType /\ drv.num \in Nat /\ drv.num > 0
  BY <1>1 DEF IInv, Progress, DrvType
<1>6. CASE r # "SD_OK"
  <2>1. drv' = [drv EXCEPT !.ret = "failed"]
    BY <1>2, <1>6
  <2>2. ASSUME Fine, ~trouble'
        PROVE  drv.num > 1 /\ (xfer = None \/ xfer.phase = "full") /\ card.mode = "tran" /\ ~card.limit
               /\ line = None
    <3>1. ~Ccs /\ ~Due /\ "DATA_DONE" \notin interrupt
      BY <1>1, <1>3, <1>6, <2>2, FineWrites
    <3>2. xfer = None /\ line = None
      BY <1>1, <2>2, <3>1 DEF IInv, FineOK, WriteTransfer, Past, Due
    <3>3. ~Served
      BY <1>1, <3>1, <3>2 DEF IInv, Serves
    <3> QED
      BY <1>1, <1>5, <2>2, <3>2, <3>3 DEF IInv, FineOK, Served
  <2>3. CallFails
    BY <1>1, <1>3, <1>4, <1>5, <1>6, <2>1, <2>2 DEF CallFails, DriverType
  <2> QED
    BY <2>3, CallFailsStep
<1>7. CASE r = "SD_OK"
  <2>1. drv' = [drv EXCEPT !.ret = "done"]
    BY <1>2, <1>7
  <2>2. DrvType' /\ DrvSame /\ drv'.scr = drv.scr /\ drv'.inited = drv.inited /\ drv'.ret = "done"
    BY <2>1, RetFields
  <2>3. ~card.hc /\ (drv.inited = "SD_OK" => ~Ccs)
    BY <1>1, <1>3, <1>7 DEF IInv, TransferOK, InitOK, InitOver
  <2>4. CallFrame
    BY <1>1, <1>3, <1>5, <2>2, <2>3 DEF CallFrame, DrvSame, DriverType
  <2>5. Commanded' /\ Progress'
    BY <1>1, <1>3, <2>2 DEF IInv, Commanded, Progress, InCmd, DrvSame
  <2>6. ReadTransfer' /\ WriteTransfer' /\ StoredSoFar' /\ ReadSoFar'
    BY <1>1, <2>2 DEF ReadTransfer, WriteTransfer, StoredSoFar, ReadSoFar, Past, DrvSame
  <2>7. Fine' => Fine
    BY <1>1, <1>3, <1>7, <2>2 DEF Fine, InitOver, DrvSame
  <2>8. Fine => /\ line = None /\ interrupt \cap ErrorBits = {} /\ card.mode = "tran" /\ ~card.limit
                /\ xfer = None \/ xfer.phase = "full"
    BY <1>1, <2>3 DEF IInv, FineOK, Fine, WriteTransfer, Past
  <2>9. FineOK' /\ Serves'
    BY <1>1, <1>3, <2>2, <2>7, <2>8 DEF FineOK, Serves, Served, InCmd, DrvSame
  <2> QED
    BY <1>4, <2>4, <2>5, <2>6, <2>9, CallFrameStep DEF IInv
<1> QED
  BY <1>6, <1>7

(* A call of sd_readblock or sd_writeblock. *)
LEMMA NewCallStep ==
  ASSUME IInv, NEW lba \in Sectors, NEW num \in 1..MaxNum, lba + num - 1 \in Sectors,
         sd_readblock(lba, num) \/ sd_writeblock(lba, num)
  PROVE  IInv'
<1> USE SdAssumption DEF SdAssumption
<1>1. PICK op \in {"read", "write"} :
        /\ drv' = NewCall(op, lba, num)
        /\ op = "write" => drv.inited \in {"SD_OK", "bits"}
        /\ asked' = IF op = "write" THEN asked \cup (lba .. (lba + num - 1)) ELSE asked
        /\ pc = "idle" /\ pc' = "busy" /\ waited' = FALSE
        /\ UNCHANGED <<cmd, err, resp, trouble, interrupt, line, xfer, card, disk>>
  BY DEF sd_readblock, sd_writeblock, history, host, cardVars
<1>2. /\ DrvType' /\ drv'.op = op /\ drv'.lba = lba /\ drv'.num = num /\ drv'.done = 0 /\ drv'.buf = <<>>
      /\ drv'.scr = drv.scr /\ drv'.inited = drv.inited
  <2>1. op \in Ops /\ lba \in Nat /\ num \in Nat
    BY DEF Ops, Sectors
  <2>2. drv' = NewCall(op, lba, num)
    BY <1>1
  <2> QED
    BY <2>1, <2>2, NewCallFields
<1>3. asked \subseteq asked' /\ asked' \subseteq Sectors
  BY <1>1 DEF IInv, CardType, Sectors
<1>4. DriverType' /\ HostType' /\ CardType'
  BY <1>1, <1>3 DEF IInv, DriverType, HostType, CardType
<1>5. Commanded' /\ LineOK' /\ AnswersOK'
  BY <1>1, <1>2 DEF IInv, Commanded, LineOK, AnswersOK, InCmd
<1>6. Progress'
  BY <1>1, <1>2 DEF Progress, Running, InCmd, Sectors
<1>7. InitOK' /\ InitTransfer'
  <2>1. InitOK /\ InitOver /\ drv'.op # "init" /\ Ccs' = Ccs
    BY <1>1, <1>2 DEF IInv, InitOver, Ccs
  <2> QED
    BY <1>1, <1>2, <2>1 DEF InitOK, InitTransfer
<1>8. TransferOK' /\ NoStrayWrite'
  BY <1>1, <1>3 DEF IInv, TransferOK, NoStrayWrite
<1>9. ReadTransfer' /\ WriteTransfer' /\ ReadSoFar' /\ StoredSoFar' /\ HcWrites'
  BY <1>1, <1>2 DEF ReadTransfer, WriteTransfer, ReadSoFar, StoredSoFar, HcWrites, Past
<1>10. Fine' => Fine
  BY <1>1, <1>2, <1>3 DEF Fine, InitOver
<1>11. FineOK' /\ Serves'
  BY <1>1, <1>2, <1>10 DEF IInv, FineOK, Serves, InCmd
<1> QED
  BY <1>2, <1>4, <1>5, <1>6, <1>7, <1>8, <1>9, <1>11 DEF IInv

-----------------------------------------------------------------------------
(* The steps of sd_cmd and of the wait loops change nothing of drv. *)
LEMMA DrvQuiet ==
  ASSUME IInv, UNCHANGED <<drv, card, disk, asked>>, pc = "idle" <=> pc' = "idle"
  PROVE  DrvType' /\ NoStrayWrite' /\ HcWrites' /\ Ccs' = Ccs /\ ByteAddress' = ByteAddress
<1>1. DrvType'
  BY DEF IInv, DrvType
<1>2. NoStrayWrite' /\ HcWrites'
  BY DEF IInv, NoStrayWrite, HcWrites
<1> QED
  BY <1>1, <1>2 DEF Ccs, ByteAddress

(* Turn keeps the invariant. *)
LEMMA TurnStep ==
  ASSUME IInv, Turn PROVE IInv'
<1>1. waited' = TRUE /\ UNCHANGED <<pc, cmd, err, resp, trouble, asked, drv, interrupt, line, xfer, card, disk>>
  BY DEF Turn, history, host, cardVars
<1>2. DrvType' /\ NoStrayWrite' /\ HcWrites'
  BY <1>1, DrvQuiet
<1>3. DriverType' /\ HostType' /\ CardType'
  BY <1>1 DEF IInv, DriverType, HostType, CardType
<1>4. Commanded' /\ Progress' /\ LineOK' /\ AnswersOK' /\ InitOK'
  BY <1>1 DEF IInv, Commanded, Progress, LineOK, AnswersOK, InitOK, InCmd, Running, Ccs, ByteAddress, Sent1,
     InitOver
<1>5. TransferOK' /\ InitTransfer' /\ ReadTransfer' /\ WriteTransfer'
  BY <1>1 DEF IInv, TransferOK, InitTransfer, ReadTransfer, WriteTransfer, InCmd, Running, Past, Ccs
<1>6. ReadSoFar' /\ StoredSoFar'
  BY <1>1 DEF IInv, ReadSoFar, StoredSoFar, Past, Ccs, Stored, FullAt
<1>7. FineOK' /\ Serves'
  BY <1>1 DEF IInv, FineOK, Serves, Fine, Served, InitOver, InCmd, Running, ReadyBit, UnderWay, ModeInCall, Ccs
<1> QED
  BY <1>2, <1>3, <1>4, <1>5, <1>6, <1>7 DEF IInv

(* Inhibit keeps the invariant. *)
LEMMA InhibitStep ==
  ASSUME IInv, Inhibit PROVE IInv'
<1>1. PICK ok \in BOOLEAN :
        /\ sd_status(CmdBusy, ok)
        /\ pc' = IF ok THEN "clear" ELSE "returned"
        /\ err' = IF ok THEN err ELSE "SD_TIMEOUT"
  BY DEF Inhibit
<1>2. /\ pc = "inhibit" /\ resp' = {} /\ UNCHANGED <<cmd, drv, interrupt, line, xfer, card, disk, asked>>
      /\ waited' = FALSE
  BY <1>1 DEF Inhibit, host, cardVars, sd_status
<1>3. DrvType' /\ NoStrayWrite' /\ HcWrites' /\ Ccs' = Ccs /\ ByteAddress' = ByteAddress
  BY <1>1, <1>2, DrvQuiet
<1>4. /\ trouble' \in BOOLEAN /\ (trouble => trouble')
      /\ \/ pc' = "clear" /\ err' = err /\ line = None
         \/ pc' = "returned" /\ err' = "SD_TIMEOUT" /\ (trouble' \/ (line # None /\ ~Due))
  <2>1. trouble \in BOOLEAN
    BY DEF IInv, CardType
  <2> QED
    BY <1>1, <2>1 DEF sd_status, CmdBusy
<1>5. DriverType' /\ HostType' /\ CardType'
  BY <1>2, <1>4 DEF IInv, DriverType, HostType, CardType, Errors
<1>6. InCmd /\ InCmd' /\ (\A c : Running(c)' <=> Running(c)) /\ Past("read")' = Past("read")
      /\ Past("write")' = Past("write")
  BY <1>2, <1>4 DEF InCmd, Running, Past
<1>7. Commanded' /\ Progress'
  BY <1>2, <1>3, <1>4, <1>6 DEF IInv, Commanded, Progress, Sent1
<1>8. LineOK' /\ AnswersOK' /\ InitOK'
  BY <1>2, <1>3, <1>4, <1>6 DEF IInv, LineOK, AnswersOK, InitOK, InitOver
<1>9. TransferOK' /\ InitTransfer'
  BY <1>2, <1>4, <1>6 DEF IInv, TransferOK, InitTransfer
<1>10. ReadTransfer' /\ WriteTransfer'
  BY <1>2, <1>3, <1>4, <1>6 DEF IInv, ReadTransfer, WriteTransfer
<1>11. ReadSoFar' /\ StoredSoFar'
  BY <1>2, <1>3, <1>4, <1>6 DEF IInv, ReadSoFar, StoredSoFar, Stored, FullAt
<1>12. Fine' => Fine /\ pc' = "clear" /\ line = None /\ err' = err
  <2>1. Fine' => Fine
    BY <1>2, <1>3, <1>4 DEF Fine, InitOver
  <2>2. Fine => line = None
    BY <1>2 DEF IInv, FineOK
  <2> QED
    BY <1>4, <2>1, <2>2 DEF Fine
<1>13. FineOK' /\ Serves'
  BY <1>2, <1>3, <1>4, <1>6, <1>12 DEF IInv, FineOK, Serves, Served
<1> QED
  BY <1>3, <1>5, <1>7, <1>8, <1>9, <1>10, <1>11, <1>13 DEF IInv

(* Clear keeps the invariant. *)
LEMMA ClearStep ==
  ASSUME IInv, Clear PROVE IInv'
<1>1. /\ pc = "clear" /\ pc' = "issue" /\ interrupt' = {}
      /\ UNCHANGED <<cmd, waited, err, resp, trouble, asked, line, xfer, drv, card, disk>>
  BY DEF Clear, history, cardVars
<1>2. DrvType' /\ NoStrayWrite' /\ HcWrites' /\ Ccs' = Ccs /\ ByteAddress' = ByteAddress
  BY <1>1, DrvQuiet
<1>3. DriverType' /\ HostType' /\ CardType'
  BY <1>1 DEF IInv, DriverType, HostType, CardType
<1>4. InCmd /\ InCmd' /\ (\A c : Running(c)' <=> Running(c)) /\ Past("read")' = Past("read")
      /\ Past("write")' = Past("write")
  BY <1>1 DEF InCmd, Running, Past
<1>5. Commanded' /\ Progress'
  BY <1>1, <1>2, <1>4 DEF IInv, Commanded, Progress, Sent1
<1>6. LineOK' /\ AnswersOK' /\ InitOK'
  BY <1>1, <1>2, <1>4 DEF IInv, LineOK, AnswersOK, InitOK, InitOver
<1>7. TransferOK' /\ InitTransfer'
  BY <1>1, <1>4 DEF IInv, TransferOK, InitTransfer
<1>8. ReadTransfer' /\ WriteTransfer'
  BY <1>1, <1>2, <1>4 DEF IInv, ReadTransfer, WriteTransfer
<1>9. ReadSoFar' /\ StoredSoFar'
  BY <1>1, <1>2, <1>4 DEF IInv, ReadSoFar, StoredSoFar, Stored, FullAt
<1>10. Fine' => Fine
  BY <1>1 DEF Fine, InitOver
<1>11. FineOK' /\ Serves'
  BY <1>1, <1>2, <1>4, <1>10 DEF IInv, FineOK, Serves, Served
<1> QED
  BY <1>2, <1>3, <1>5, <1>6, <1>7, <1>8, <1>9, <1>11 DEF IInv

(* Issue keeps the invariant. *)
LEMMA IssueStep ==
  ASSUME IInv, Issue PROVE IInv'
<1>1. /\ pc = "issue" /\ pc' = "sent"
      /\ line' = [kind |-> "cmd", code |-> IF cmd.app THEN "APP_CMD" ELSE cmd.code, arg |-> cmd.arg]
      /\ UNCHANGED <<cmd, waited, err, resp, trouble, asked, interrupt, xfer, drv, card, disk>>
  BY DEF Issue, history, cardVars
<1>2. DrvType' /\ NoStrayWrite' /\ HcWrites' /\ Ccs' = Ccs /\ ByteAddress' = ByteAddress
  BY <1>1, DrvQuiet
<1>3. line' # None /\ line'.code = (IF cmd.app THEN "APP_CMD" ELSE cmd.code) /\ line'.arg = cmd.arg
      /\ line' \in [kind : {"cmd"}, code : Codes \cup {"APP_CMD"}, arg : Nat]
  BY <1>1 DEF IInv, DriverType, None
<1>4. DriverType' /\ HostType' /\ CardType'
  BY <1>1, <1>3 DEF IInv, DriverType, HostType, CardType
<1>5. InCmd /\ InCmd' /\ (\A c : Running(c)' <=> Running(c)) /\ Past("read")' = Past("read")
      /\ Past("write")' = Past("write")
  BY <1>1 DEF InCmd, Running, Past
<1>6. Commanded' /\ Progress'
  BY <1>1, <1>2, <1>5 DEF IInv, Commanded, Progress, Sent1
<1>7. LineOK' /\ AnswersOK' /\ InitOK'
  BY <1>1, <1>2, <1>3, <1>5 DEF IInv, LineOK, AnswersOK, InitOK, InitOver
<1>8. TransferOK' /\ InitTransfer'
  BY <1>1, <1>5 DEF IInv, TransferOK, InitTransfer
<1>9. ReadTransfer' /\ WriteTransfer'
  BY <1>1, <1>2, <1>5 DEF IInv, ReadTransfer, WriteTransfer
<1>10. ReadSoFar' /\ StoredSoFar'
  BY <1>1, <1>2, <1>5 DEF IInv, ReadSoFar, StoredSoFar, Stored, FullAt
<1>11. Fine' => Fine
  BY <1>1 DEF Fine, InitOver
<1>12. Serves'
  BY <1>1, <1>2, <1>3, <1>5, <1>11 DEF IInv, Serves, Served
<1>13. FineOK'
  <2>1. Fine /\ drv.op # "init" /\ ~Running("STOP_TRANS") => xfer = None \/ xfer.phase \in {"full", "dead"}
    BY <1>1, <1>5 DEF IInv, ReadTransfer, WriteTransfer, Past, DrvType, Ops, Running
  <2> QED
    BY <1>1, <1>2, <1>5, <1>11, <2>1 DEF IInv, FineOK
<1> QED
  BY <1>2, <1>4, <1>6, <1>7, <1>8, <1>9, <1>10, <1>12, <1>13 DEF IInv

(* Sent keeps the invariant. *)
LEMMA SentStep ==
  ASSUME IInv, Sent PROVE IInv'
<1>1. PICK r \in Errors :
        /\ sd_int("CMD_DONE", r)
        /\ err' = IF r # "SD_OK" THEN r ELSE IF "errors" \in resp THEN "bits" ELSE err
        /\ resp' = IF r = "SD_OK" THEN resp ELSE {}
  BY DEF Sent
<1>2. /\ interrupt' \subseteq interrupt /\ waited' = FALSE /\ trouble' \in BOOLEAN
      /\ asked' = asked /\ (trouble => trouble')
      /\ r = "SD_OK" => "CMD_DONE" \in interrupt /\ interrupt' = interrupt \ {"CMD_DONE"}
                        /\ trouble' = trouble /\ interrupt \cap ErrorBits = {}
      /\ r # "SD_OK" => /\ interrupt' = {} /\ r \in {"SD_TIMEOUT", "SD_ERROR"}
                        /\ (Due \/ "CMD_DONE" \in interrupt => trouble')
  <2>1. "CMD_DONE" \in Bits \ ErrorBits
    BY DEF Bits, ErrorBits, TimeoutBits
  <2> QED
    BY <1>1, <2>1, IntOK
<1>3. pc = "sent" /\ pc' = "returned" /\ UNCHANGED <<cmd, line, xfer, drv, card, disk>>
  BY DEF Sent, cardVars
<1>4. DrvType' /\ NoStrayWrite' /\ HcWrites' /\ Ccs' = Ccs /\ ByteAddress' = ByteAddress
  BY <1>2, <1>3, DrvQuiet
<1>5. DriverType' /\ CardType'
  BY <1>1, <1>2, <1>3 DEF IInv, DriverType, CardType, Errors
<1>6. HostType' /\ TransferOK'
  BY <1>2, <1>3, HostQuiet
<1>7. InCmd /\ InCmd' /\ (\A c : Running(c)' <=> Running(c)) /\ Past("read")' = Past("read")
      /\ Past("write")' = Past("write")
  BY <1>3 DEF InCmd, Running, Past
<1>8. r = "SD_OK" => line = None
  BY <1>2, <1>3 DEF IInv, LineOK
<1>9. Commanded' /\ Progress'
  <2>1. Commanded'
    BY <1>3, <1>4, <1>7 DEF IInv, Commanded, Sent1
  <2>2. Progress'
    BY <1>2, <1>3, <1>4, <1>7 DEF IInv, Progress
  <2> QED
    BY <2>1, <2>2
<1>10. LineOK' /\ AnswersOK'
  BY <1>1, <1>2, <1>3, <1>7 DEF IInv, LineOK, AnswersOK
<1>11. InitOK'
  BY <1>1, <1>2, <1>3, <1>4, <1>7 DEF IInv, InitOK, InitOver
<1>12. InitTransfer'
  BY <1>1, <1>2, <1>3, <1>7, <1>8 DEF IInv, InitTransfer
<1>13. ReadTransfer' /\ WriteTransfer'
  BY <1>1, <1>2, <1>3, <1>4, <1>7 DEF IInv, ReadTransfer, WriteTransfer
<1>14. ReadSoFar' /\ StoredSoFar'
  BY <1>1, <1>2, <1>3, <1>4, <1>7 DEF IInv, ReadSoFar, StoredSoFar, Stored, FullAt
<1>15. Fine' => Fine /\ line = None
  <2>1. Fine' => Fine /\ ~trouble'
    BY <1>2, <1>3, <1>4 DEF Fine, InitOver
  <2> QED
    BY <1>2, <1>8, <2>1 DEF Due
<1>16. r # "SD_OK" /\ "CMD_DONE" \in interrupt => ~Fine'
  BY <1>2 DEF Fine
<1>17. FineOK'
  BY <1>2, <1>3, <1>7, <1>15, <1>16 DEF IInv, FineOK, ReadyBit
<1>18. Served' => Served /\ r = "SD_OK" /\ "errors" \notin resp
  <2>1. Served' => Served
    BY <1>2, <1>3, <1>15 DEF Served
  <2>2. Served => "errors" \notin resp
    BY <1>7 DEF Served, IInv, AnswersOK, Commanded, Sent1, Single, Multi
  <2>3. Served /\ line = None => "CMD_DONE" \in interrupt
    BY <1>3 DEF IInv, Serves
  <2> QED
    BY <1>15, <1>16, <2>1, <2>2, <2>3 DEF Served
<1>19. Serves'
  BY <1>1, <1>3, <1>4, <1>7, <1>15, <1>18 DEF IInv, Serves, UnderWay, ModeInCall, Served
<1> QED
  BY <1>4, <1>5, <1>6, <1>9, <1>10, <1>11, <1>12, <1>13, <1>14, <1>17, <1>19 DEF IInv

(* AppReturned keeps the invariant. *)
LEMMA AppReturnedStep ==
  ASSUME IInv, AppReturned PROVE IInv'
<1>1. /\ pc = "returned" /\ cmd.app /\ resp' = {} /\ cmd' = [cmd EXCEPT !.app = FALSE]
      /\ (pc' = "returned" /\ err' = "SD_ERROR") \/ (pc' = "inhibit" /\ err' = err)
      /\ UNCHANGED <<waited, trouble, asked, drv, interrupt, line, xfer, card, disk>>
  BY DEF AppReturned, history, host, cardVars
<1>2. /\ cmd'.code = cmd.code /\ cmd'.arg = cmd.arg /\ ~cmd'.app
      /\ cmd' \in [code : Codes, arg : Nat, app : BOOLEAN]
  BY <1>1 DEF IInv, DriverType
<1>3. DrvType' /\ NoStrayWrite' /\ HcWrites' /\ Ccs' = Ccs /\ ByteAddress' = ByteAddress
  BY <1>1, DrvQuiet
<1>4. DriverType' /\ CardType'
  BY <1>1, <1>2 DEF IInv, DriverType, CardType, Errors
<1>5. HostType' /\ TransferOK'
  BY <1>1, HostQuiet
<1>6. InCmd /\ InCmd' /\ (\A c : Running(c)' <=> Running(c))
  BY <1>1, <1>2 DEF InCmd, Running
<1>7. drv.op = "init" /\ err # "bits"
  BY <1>1, <1>6 DEF IInv, Commanded, AppCodes, Sent1, Single, Multi, AnswersOK
<1>8. Commanded' /\ Progress'
  BY <1>1, <1>2, <1>3, <1>6, <1>7 DEF IInv, Commanded, Progress, AppCodes, ReadCodes, WriteCodes, InitCodes
<1>9. LineOK' /\ AnswersOK'
  BY <1>1, <1>7 DEF LineOK, AnswersOK
<1>10. InitOK'
  BY <1>1, <1>2, <1>6, <1>7 DEF IInv, InitOK, InitOver
<1>11. InitTransfer'
  BY <1>1, <1>2, <1>6 DEF IInv, InitTransfer, Running
<1>12. ReadTransfer' /\ WriteTransfer' /\ ReadSoFar' /\ StoredSoFar'
  BY <1>1, <1>7 DEF ReadTransfer, WriteTransfer, ReadSoFar, StoredSoFar, Past
<1>13. FineOK' /\ Serves'
  BY <1>1, <1>7 DEF FineOK, Serves, Served, Fine, InitOver
<1> QED
  BY <1>3, <1>4, <1>5, <1>8, <1>9, <1>10, <1>11, <1>12, <1>13 DEF IInv

-----------------------------------------------------------------------------
(* The card. *)
LEMMA BlockDiv ==
  ASSUME NEW a \in Nat PROVE (a * BlockSize) \div BlockSize = a
<1> USE SdAssumption DEF SdAssumption
<1>1. BlockSize \in Nat /\ BlockSize > 0
  OBVIOUS
<1> QED
  BY <1>1

(* CardFails keeps the invariant. *)
LEMMA CardFailsStep ==
  ASSUME IInv, CardFails PROVE IInv'
<1>1. /\ xfer # None /\ xfer.phase \in {"wait", "full"} /\ trouble' = TRUE
      /\ UNCHANGED <<pc, cmd, waited, err, resp, drv, line, card, disk, asked>>
  BY DEF CardFails, DatBusy, CardUnchanged
<1>2. PICK bit \in {"DATA_TIMEOUT", "ERROR"} : interrupt' = interrupt \cup {bit}
  BY DEF CardFails
<1>3. /\ interrupt \subseteq interrupt' /\ (\A b \in Bits \ ErrorBits : b \in interrupt' <=> b \in interrupt)
      /\ {"CMD_DONE", "READ_RDY", "WRITE_RDY", "DATA_DONE"} \subseteq Bits \ ErrorBits
  BY <1>2 DEF Bits, ErrorBits, TimeoutBits
<1>4. \/ xfer' = None
      \/ /\ xfer' # None /\ DOMAIN xfer' = XferFields /\ xfer'.phase = "dead" /\ xfer'.kind = xfer.kind
         /\ xfer'.at = xfer.at /\ xfer'.left = xfer.left /\ xfer'.block = xfer.block
  <2>1. xfer' = None \/ xfer' = [xfer EXCEPT !.phase = "dead"]
    BY DEF CardFails
  <2>2. DOMAIN xfer = XferFields /\ xfer.kind # "none"
    BY <1>1 DEF IInv, HostType
  <2>3. ASSUME xfer' = [xfer EXCEPT !.phase = "dead"]
        PROVE /\ DOMAIN xfer' = XferFields /\ xfer'.phase = "dead" /\ xfer'.kind = xfer.kind
              /\ xfer'.at = xfer.at /\ xfer'.left = xfer.left /\ xfer'.block = xfer.block
    BY <2>2, <2>3 DEF XferFields
  <2>4. xfer' = [xfer EXCEPT !.phase = "dead"] => xfer' # None
    BY <2>2, <2>3 DEF None
  <2> QED
    BY <2>1, <2>3, <2>4
<1>5. DrvType' /\ NoStrayWrite' /\ HcWrites' /\ Ccs' = Ccs /\ ByteAddress' = ByteAddress
  BY <1>1, DrvQuiet
<1>6. DriverType' /\ CardType'
  BY <1>1 DEF IInv, DriverType, CardType
<1>7. HostType'
  <2>1. interrupt' \subseteq Bits
    BY <1>2 DEF IInv, HostType, Bits, ErrorBits, TimeoutBits
  <2> QED
    BY <1>1, <1>4, <2>1 DEF IInv, HostType, Phases
<1>8. (InCmd' <=> InCmd) /\ (\A c : Running(c)' <=> Running(c)) /\ Past("read")' = Past("read")
      /\ Past("write")' = Past("write")
  BY <1>1 DEF InCmd, Running, Past
<1>9. Commanded' /\ Progress' /\ LineOK' /\ AnswersOK' /\ InitOK'
  BY <1>1, <1>3, <1>5, <1>8 DEF IInv, Commanded, Progress, LineOK, AnswersOK, InitOK, InitOver, Sent1
<1>10. TransferOK'
  BY <1>1, <1>3, <1>4 DEF IInv, TransferOK
<1>11. InitTransfer'
  BY <1>1, <1>3, <1>4, <1>8 DEF IInv, InitTransfer, TransferOK, InCmd
<1>12. ReadTransfer' /\ WriteTransfer'
  BY <1>1, <1>4, <1>5, <1>8 DEF IInv, ReadTransfer, WriteTransfer
<1>13. ReadSoFar' /\ StoredSoFar'
  BY <1>1, <1>3, <1>4, <1>5, <1>8 DEF IInv, ReadSoFar, StoredSoFar, Stored, FullAt
<1>14. FineOK' /\ Serves'
  BY <1>1 DEF FineOK, Serves, Served, Fine
<1> QED
  BY <1>5, <1>6, <1>7, <1>9, <1>10, <1>11, <1>12, <1>13, <1>14 DEF IInv

(* CardStores keeps the invariant. *)
LEMMA CardStoresStep ==
  ASSUME IInv, CardStores PROVE IInv'
<1>1. /\ xfer # None /\ xfer.phase = "full" /\ xfer' = None /\ interrupt' = interrupt \cup {"DATA_DONE"}
      /\ disk' = [disk EXCEPT ![xfer.at] = xfer.block]
      /\ UNCHANGED <<pc, cmd, waited, err, resp, drv, line, card, asked, trouble>>
  BY DEF CardStores, DatBusy, CardUnchanged, history
<1>2. /\ xfer.kind = "write" /\ xfer.at \in asked /\ xfer.block = New(xfer.at) /\ ~card.hc
      /\ asked \subseteq Sectors /\ disk \in [Sectors -> Int] /\ xfer.block \in Int
  BY <1>1 DEF IInv, TransferOK, CardType, HostType
<1>3. disk' \in [Sectors -> Int] /\ (\A s \in Sectors : disk'[s] = IF s = xfer.at THEN New(s) ELSE disk[s])
  BY <1>1, <1>2
<1>4. interrupt' \cap ErrorBits = interrupt \cap ErrorBits /\ interrupt \subseteq interrupt'
      /\ (\A b : b # "DATA_DONE" => (b \in interrupt' <=> b \in interrupt)) /\ "DATA_DONE" \in interrupt'
  BY <1>1 DEF ErrorBits, TimeoutBits
<1>5. DrvType' /\ HcWrites' /\ Ccs' = Ccs /\ ByteAddress' = ByteAddress
  BY <1>1 DEF IInv, DrvType, HcWrites, Ccs, ByteAddress
<1>6. DriverType' /\ CardType' /\ HostType' /\ NoStrayWrite'
  BY <1>1, <1>2, <1>3 DEF IInv, DriverType, CardType, HostType, Bits, NoStrayWrite
<1>7. (InCmd' <=> InCmd) /\ (\A c : Running(c)' <=> Running(c)) /\ Past("read")' = Past("read")
      /\ Past("write")' = Past("write")
  BY <1>1 DEF InCmd, Running, Past
<1>8. Commanded' /\ Progress'
  BY <1>1, <1>5, <1>7 DEF IInv, Commanded, Progress, Sent1
<1>9. LineOK' /\ AnswersOK' /\ InitOK'
  BY <1>1, <1>4, <1>5, <1>7 DEF IInv, LineOK, AnswersOK, InitOK, InitOver
<1>10. TransferOK'
  BY <1>1, <1>2, <1>4 DEF IInv, TransferOK
<1>11. InitTransfer' /\ ReadTransfer' /\ ReadSoFar'
  BY <1>1, <1>2, <1>7 DEF IInv, InitTransfer, ReadTransfer, ReadSoFar, InCmd
<1>12. WriteTransfer'
  BY <1>1, <1>7 DEF IInv, WriteTransfer
<1>13. StoredSoFar'
  <2>1. SUFFICES ASSUME Past("write"), ~Ccs PROVE StoredSoFar'
    BY <1>5, <1>7 DEF StoredSoFar
  <2>4. /\ drv.num \in Nat /\ drv.lba \in Nat /\ drv.done \in Nat /\ drv.done <= drv.num /\ drv.num > 0
        /\ drv.lba + drv.num - 1 \in Sectors
    BY <2>1 DEF IInv, Past, Progress, DrvType
  <2>5. \A i \in 0..(drv.done - 1) : drv.lba + i \in Sectors
    BY <2>4, SdAssumption DEF Sectors, SdAssumption
  <2>6. drv.num > 1 => \A i \in 0..(drv.done - 1) :
          Stored(drv.lba + i) \/ trouble \/ (i = drv.done - 1 /\ FullAt(drv.lba + i))
    BY <2>1 DEF IInv, StoredSoFar
  <2>2. \A s \in Sectors : Stored(s) => Stored(s)'
    BY <1>3 DEF Stored
  <2>3. \A s \in Sectors : FullAt(s) => Stored(s)'
    BY <1>3 DEF Stored, FullAt
  <2> QED
    <3>1. drv.num > 1 => \A i \in 0..(drv.done - 1) : disk'[drv.lba + i] = New(drv.lba + i) \/ trouble
      BY <2>2, <2>3, <2>5, <2>6 DEF Stored
    <3>2. drv.num = 1 => pc = "finish" /\ drv.lba = xfer.at /\ drv.lba \in Sectors
      BY <1>1, <2>1, <2>4 DEF IInv, StoredSoFar
    <3>3. drv.num = 1 => disk'[drv.lba] = New(drv.lba)
      BY <1>3, <3>2
    <3> QED
      BY <1>1, <3>1, <3>2, <3>3 DEF StoredSoFar, Stored
<1>14. Fine' <=> Fine
  BY <1>1 DEF Fine, InitOver
<1>15. FineOK' /\ Serves'
  BY <1>1, <1>4, <1>5, <1>7, <1>14 DEF IInv, FineOK, Serves, Served, UnderWay, InCmd
<1> QED
  BY <1>5, <1>6, <1>8, <1>9, <1>10, <1>11, <1>12, <1>13, <1>15 DEF IInv

(* CardReady keeps the invariant. *)
LEMMA CardReadyStep ==
  ASSUME IInv, CardReady PROVE IInv'
<1> DEFINE bit == IF xfer.kind = "write" THEN "WRITE_RDY" ELSE "READ_RDY"
<1>1. /\ xfer # None /\ xfer.phase = "wait" /\ xfer.at \in Sectors
      /\ UNCHANGED <<pc, cmd, waited, err, resp, drv, line, card, disk, asked, trouble>>
      /\ interrupt' = interrupt \cup {bit}
  BY DEF CardReady, DatBusy, CardUnchanged, history
<1>2. /\ bit \in {"WRITE_RDY", "READ_RDY"}
      /\ bit = "WRITE_RDY" <=> xfer.kind = "write"
  OBVIOUS
<1> HIDE DEF bit
<1>3. /\ xfer.kind \in {"read", "write", "scr"} /\ DOMAIN xfer = XferFields
      /\ {"WRITE_RDY", "READ_RDY"} \cap interrupt = {} /\ pc \notin {"data", "scr"}
      /\ disk[xfer.at] \in Int
  BY <1>1 DEF IInv, HostType, CardType, TransferOK
<1>4. /\ xfer' # None /\ DOMAIN xfer' = XferFields /\ xfer'.phase = "ready" /\ xfer'.kind = xfer.kind
      /\ xfer'.at = xfer.at /\ xfer'.left = xfer.left
      /\ xfer'.block = IF xfer.kind = "read" THEN disk[xfer.at] ELSE xfer.block
  <2>1. xfer' = [xfer EXCEPT !.phase = "ready",
                             !.block = IF xfer.kind = "read" THEN disk[xfer.at] ELSE xfer.block]
    BY DEF CardReady
  <2>2. /\ DOMAIN xfer' = XferFields /\ xfer'.phase = "ready" /\ xfer'.kind = xfer.kind
        /\ xfer'.at = xfer.at /\ xfer'.left = xfer.left
        /\ xfer'.block = IF xfer.kind = "read" THEN disk[xfer.at] ELSE xfer.block
    BY <1>3, <2>1 DEF XferFields
  <2> QED
    BY <1>3, <2>2 DEF None
<1>5. /\ interrupt' \cap ErrorBits = interrupt \cap ErrorBits
      /\ "CMD_DONE" \in interrupt' <=> "CMD_DONE" \in interrupt
      /\ "DATA_DONE" \in interrupt' <=> "DATA_DONE" \in interrupt
      /\ "WRITE_RDY" \in interrupt' <=> xfer.kind = "write"
      /\ "READ_RDY" \in interrupt' <=> xfer.kind # "write"
  BY <1>1, <1>2, <1>3 DEF ErrorBits, TimeoutBits
<1>6. DrvType' /\ NoStrayWrite' /\ HcWrites' /\ Ccs' = Ccs /\ ByteAddress' = ByteAddress
  BY <1>1, DrvQuiet
<1>7. DriverType' /\ CardType'
  BY <1>1 DEF IInv, DriverType, CardType
<1>8. HostType'
  <2>1. interrupt' \subseteq Bits
    BY <1>1, <1>2 DEF IInv, HostType, Bits
  <2> QED
    BY <1>1, <1>3, <1>4, <2>1 DEF IInv, HostType, Phases
<1>9. (InCmd' <=> InCmd) /\ (\A c : Running(c)' <=> Running(c)) /\ Past("read")' = Past("read")
      /\ Past("write")' = Past("write")
  BY <1>1 DEF InCmd, Running, Past
<1>10. Commanded' /\ Progress' /\ LineOK' /\ AnswersOK' /\ InitOK'
  BY <1>1, <1>5, <1>6, <1>9 DEF IInv, Commanded, Progress, LineOK, AnswersOK, InitOK, InitOver, Sent1
<1>11. TransferOK'
  BY <1>1, <1>3, <1>4, <1>5 DEF IInv, TransferOK
<1>12. InitTransfer'
  BY <1>1, <1>3, <1>4, <1>5, <1>9 DEF IInv, InitTransfer
<1>13. ReadTransfer'
  BY <1>1, <1>4, <1>6, <1>9 DEF IInv, ReadTransfer
<1>14. WriteTransfer'
  BY <1>1, <1>4, <1>6, <1>9 DEF IInv, WriteTransfer
<1>15. ReadSoFar' /\ StoredSoFar'
  BY <1>1, <1>4, <1>5, <1>6, <1>9 DEF IInv, ReadSoFar, StoredSoFar, Stored, FullAt
<1>16. Fine' <=> Fine
  BY <1>1 DEF Fine, InitOver
<1>17. drv.op # "init" /\ pc \in {"sent", "returned", "ready"} => ReadyBit \in interrupt'
  BY <1>1, <1>5 DEF IInv, ReadTransfer, WriteTransfer, Past, ReadyBit, DrvType, Ops
<1>18. FineOK'
  BY <1>1, <1>4, <1>5, <1>9, <1>16, <1>17 DEF IInv, FineOK, ReadyBit
<1>19. Serves'
  BY <1>1, <1>4, <1>5, <1>9, <1>16 DEF IInv, Serves, Served, UnderWay, ModeInCall, Ccs
<1> QED
  BY <1>6, <1>7, <1>8, <1>10, <1>11, <1>12, <1>13, <1>14, <1>15, <1>18, <1>19 DEF IInv

(* What is on the line is the command sd_cmd is at. *)
LEMMA OnTheLine ==
  ASSUME IInv, pc = "sent", CmdBusy
  PROVE  /\ InCmd /\ line # None /\ cmd.code \in Codes /\ line.arg = cmd.arg
         /\ line.code = (IF cmd.app THEN "APP_CMD" ELSE cmd.code)
         /\ "CMD_DONE" \notin interrupt /\ resp = {} /\ cmd.arg \in Nat
         /\ (cmd.app => drv.op = "init" /\ cmd.code \in AppCodes)
         /\ drv.op # "init" => cmd.code \in Sent1(drv.op) /\ drv.op \in {"read", "write"}
  BY DEF CmdBusy, InCmd, IInv, LineOK, DriverType, DrvType, Ops, Commanded, Sent1, Single, Multi, AppCodes

(* CardSilent keeps the invariant. *)
LEMMA CardSilentStep ==
  ASSUME IInv, CardSilent PROVE IInv'
<1>1. /\ pc = "sent" /\ CmdBusy /\ trouble' = (trouble \/ Legal(line.code)) /\ line' = None
      /\ card' = [card EXCEPT !.app = FALSE, !.limit = FALSE]
      /\ UNCHANGED <<pc, cmd, waited, err, resp, drv, xfer, disk, asked>>
  BY DEF CardSilent
<1>2. PICK bit \in IF NoResponse(line.code) THEN {"CMD_DONE"} ELSE {"CMD_TIMEOUT", "ERROR"} :
        interrupt' = interrupt \cup {bit}
  BY DEF CardSilent
<1>3. /\ InCmd /\ line # None /\ cmd.code \in Codes /\ line.arg = cmd.arg
      /\ line.code = (IF cmd.app THEN "APP_CMD" ELSE cmd.code)
      /\ "CMD_DONE" \notin interrupt /\ resp = {}
      /\ (cmd.app => drv.op = "init" /\ cmd.code \in AppCodes)
      /\ drv.op # "init" => cmd.code \in Sent1(drv.op) /\ drv.op \in {"read", "write"}
  BY <1>1, OnTheLine
<1>4. /\ DOMAIN card' = {"mode", "app", "limit", "hc", "blkcnt"} /\ ~card'.app /\ ~card'.limit
      /\ card'.app \in BOOLEAN /\ card'.limit \in BOOLEAN
      /\ card'.mode = card.mode /\ card'.hc = card.hc /\ card'.blkcnt = card.blkcnt
  BY <1>1 DEF IInv, CardType
<1>5. trouble' \in BOOLEAN /\ (trouble => trouble') /\ (Legal(line.code) => trouble')
  BY <1>1
<1>6. /\ bit \in {"CMD_DONE", "CMD_TIMEOUT", "ERROR"} /\ interrupt' \subseteq Bits
      /\ "DATA_DONE" \in interrupt' <=> "DATA_DONE" \in interrupt
      /\ "WRITE_RDY" \in interrupt' <=> "WRITE_RDY" \in interrupt
      /\ "READ_RDY" \in interrupt' <=> "READ_RDY" \in interrupt
  BY <1>2 DEF IInv, HostType, Bits, ErrorBits, TimeoutBits
<1>7. "CMD_DONE" \in interrupt' /\ cmd.code = "CARD_SELECT" => FALSE
  BY <1>2, <1>3 DEF NoResponse, AppCodes
<1>8. DrvType' /\ Ccs' = Ccs /\ ByteAddress' = ByteAddress /\ NoStrayWrite' /\ HcWrites'
  BY <1>1 DEF IInv, DrvType, Ccs, ByteAddress, NoStrayWrite, HcWrites
<1>9. DriverType' /\ CardType' /\ HostType'
  BY <1>1, <1>4, <1>5, <1>6 DEF IInv, DriverType, CardType, HostType
<1>10. InCmd' /\ (\A c : Running(c)' <=> Running(c)) /\ Past("read")' = Past("read")
      /\ Past("write")' = Past("write")
  BY <1>1, <1>3 DEF InCmd, Running, Past
<1>11. Commanded' /\ Progress'
  BY <1>1, <1>3, <1>8, <1>10 DEF IInv, Commanded, Progress, Sent1
<1>12. LineOK' /\ AnswersOK'
  BY <1>1, <1>3, <1>4, <1>10 DEF IInv, LineOK, AnswersOK
<1>13. InitOK'
  BY <1>1, <1>3, <1>4, <1>7, <1>8, <1>10 DEF IInv, InitOK, InitOver, Running
<1>14. TransferOK'
  BY <1>1, <1>4, <1>6 DEF IInv, TransferOK
<1>15. InitTransfer'
  BY <1>1, <1>3, <1>4, <1>10 DEF IInv, InitTransfer
<1>16. ReadTransfer' /\ WriteTransfer'
  BY <1>1, <1>6, <1>8, <1>10 DEF IInv, ReadTransfer, WriteTransfer
<1>17. ReadSoFar' /\ StoredSoFar'
  BY <1>1, <1>5, <1>6, <1>8, <1>10 DEF IInv, ReadSoFar, StoredSoFar, Stored, FullAt
<1>18. Fine' => Fine /\ ~Legal(line.code)
  BY <1>1, <1>4, <1>5 DEF Fine, InitOver
<1>19. FineOK'
  BY <1>1, <1>3, <1>4, <1>10, <1>18 DEF IInv, FineOK
<1>20. Served => Legal(line.code)
  <2>1. SUFFICES ASSUME Served PROVE Legal(line.code)
    OBVIOUS
  <2>2. /\ drv.op # "init" /\ line.code = cmd.code /\ cmd.code \in Sent1(drv.op)
        /\ xfer = None /\ card.mode = IF cmd.code = "STOP_TRANS" THEN "open" ELSE "tran"
        /\ (drv.scr.blkcnt => card.blkcnt)
    BY <1>1, <1>3, <2>1 DEF IInv, Served, Serves, Fine, InitOK
  <2>3. cmd.code = "SET_BLOCKCNT" => card.blkcnt
    BY <1>3, <2>2 DEF Sent1, Single, Multi
  <2>4. line.code \in ReadCodes \cup WriteCodes \cup {"SET_BLOCKCNT", "STOP_TRANS"}
    BY <1>3, <2>2 DEF Sent1, Single, Multi, ReadCodes, WriteCodes
  <2> QED
    BY <2>2, <2>3, <2>4 DEF Legal, DatBusy, ReadCodes, WriteCodes, AppCodes
<1>21. Serves'
  BY <1>1, <1>18, <1>20 DEF Serves, Served
<1> QED
  BY <1>8, <1>9, <1>11, <1>12, <1>13, <1>14, <1>15, <1>16, <1>17, <1>19, <1>21 DEF IInv

(* What every answer does. *)
Answered(answer) ==
  /\ pc = "sent" /\ CmdBusy /\ Legal(line.code) /\ answer \in Answers(line.code)
  /\ resp' = answer /\ line' = None /\ xfer' \in Transfers(line.code, line.arg)
  /\ interrupt' = interrupt \cup {"CMD_DONE"}
  /\ DOMAIN card' = {"mode", "app", "limit", "hc", "blkcnt"}
  /\ card'.mode = ModeAfter(line.code, answer) /\ card'.app \in BOOLEAN /\ card'.limit \in BOOLEAN
  /\ card'.limit <=> line.code = "SET_BLOCKCNT"
  /\ card'.hc = card.hc /\ card'.blkcnt = card.blkcnt
  /\ UNCHANGED <<pc, cmd, waited, err, drv, disk, trouble, asked>>

(* The answer of the card is one that was possible. *)
LEMMA AnswerGiven ==
  ASSUME IInv, CardAnswers PROVE \E answer : Answered(answer)
<1>1. PICK answer \in Answers(line.code) :
        /\ resp' = answer
        /\ card' = [card EXCEPT !.mode = ModeAfter(line.code, answer),
                                !.app = line.code = "APP_CMD",
                                !.limit = line.code = "SET_BLOCKCNT"]
  BY DEF CardAnswers
<1>2. PICK a \in BOOLEAN : a = (line.code = "APP_CMD")
  OBVIOUS
<1>3. PICK l \in BOOLEAN : l = (line.code = "SET_BLOCKCNT")
  OBVIOUS
<1>4. card' = [card EXCEPT !.mode = ModeAfter(line.code, answer), !.app = a, !.limit = l]
  BY <1>1, <1>2, <1>3, Zenon
<1>5. DOMAIN card = {"mode", "app", "limit", "hc", "blkcnt"}
  BY DEF IInv, CardType
<1>6. /\ DOMAIN card' = {"mode", "app", "limit", "hc", "blkcnt"} /\ card'.mode = ModeAfter(line.code, answer)
      /\ card'.app = a /\ card'.limit = l /\ card'.hc = card.hc /\ card'.blkcnt = card.blkcnt
  BY <1>4, <1>5
<1>7. card'.app \in BOOLEAN /\ card'.limit \in BOOLEAN /\ (card'.limit <=> line.code = "SET_BLOCKCNT")
  BY <1>2, <1>3, <1>6
<1>8. Answered(answer)
  BY <1>1, <1>6, <1>7 DEF CardAnswers, Answered, history
<1> QED
  BY <1>8

(* The parts of the invariant an answer leaves alone. *)
LEMMA AnswerTypes ==
  ASSUME IInv, NEW answer, Answered(answer)
  PROVE  /\ DrvType' /\ DriverType' /\ CardType' /\ NoStrayWrite' /\ HcWrites'
         /\ Ccs' = Ccs /\ ByteAddress' = ByteAddress
         /\ InCmd /\ InCmd' /\ (\A c : Running(c)' <=> Running(c)) /\ Past("read")' = Past("read")
         /\ Past("write")' = Past("write")
         /\ interrupt' \subseteq Bits /\ interrupt' \cap ErrorBits = interrupt \cap ErrorBits
         /\ \A b : b # "CMD_DONE" => (b \in interrupt' <=> b \in interrupt)
<1>1. UNCHANGED <<pc, cmd, waited, err, drv, disk, trouble, asked>> /\ pc = "sent"
      /\ interrupt' = interrupt \cup {"CMD_DONE"} /\ resp' = answer /\ card'.hc = card.hc
      /\ answer \in Answers(line.code)
  BY DEF Answered
<1>2. DrvType' /\ Ccs' = Ccs /\ ByteAddress' = ByteAddress /\ NoStrayWrite' /\ HcWrites'
  BY <1>1 DEF IInv, DrvType, Ccs, ByteAddress, NoStrayWrite, HcWrites
<1>3. answer \subseteq {"COMPLETE", "VOLTAGE", "CCS", "RCA", "APP", "errors"}
  BY <1>1 DEF Answers
<1>4. DriverType'
  BY <1>1, <1>3 DEF IInv, DriverType
<1>5. card'.mode \in Modes
  BY DEF Answered, ModeAfter, Modes, IInv, CardType
<1>6. CardType'
  BY <1>1, <1>5 DEF IInv, CardType, Answered
<1>7. /\ InCmd /\ InCmd' /\ (\A c : Running(c)' <=> Running(c)) /\ Past("read")' = Past("read")
      /\ Past("write")' = Past("write")
  BY <1>1 DEF InCmd, Running, Past
<1>8. /\ interrupt' \subseteq Bits /\ interrupt' \cap ErrorBits = interrupt \cap ErrorBits
      /\ \A b : b # "CMD_DONE" => (b \in interrupt' <=> b \in interrupt)
  BY <1>1 DEF IInv, HostType, Bits, ErrorBits, TimeoutBits
<1> QED
  BY <1>2, <1>4, <1>6, <1>7, <1>8

(* Answers to sd_init. *)
LEMMA InitAnswer ==
  ASSUME IInv, NEW answer, Answered(answer), drv.op = "init" PROVE IInv'
<1>1. /\ DrvType' /\ DriverType' /\ CardType' /\ NoStrayWrite' /\ HcWrites'
      /\ Ccs' = Ccs /\ ByteAddress' = ByteAddress
      /\ InCmd /\ InCmd' /\ (\A c : Running(c)' <=> Running(c))
      /\ interrupt' \subseteq Bits /\ interrupt' \cap ErrorBits = interrupt \cap ErrorBits
      /\ \A b : b # "CMD_DONE" => (b \in interrupt' <=> b \in interrupt)
  BY AnswerTypes
<1>2. /\ line # None /\ cmd.code \in InitCodes
      /\ line.code = (IF cmd.app THEN "APP_CMD" ELSE cmd.code)
      /\ "CMD_DONE" \notin interrupt /\ resp = {}
      /\ (cmd.app => cmd.code \in AppCodes)
  BY <1>1, OnTheLine DEF Answered, IInv, Commanded
<1>3. /\ pc = "sent" /\ Legal(line.code) /\ answer \in Answers(line.code)
      /\ resp' = answer /\ line' = None /\ xfer' \in Transfers(line.code, line.arg)
      /\ card'.mode = ModeAfter(line.code, answer) /\ card'.hc = card.hc /\ card'.blkcnt = card.blkcnt
      /\ (card'.limit <=> line.code = "SET_BLOCKCNT")
      /\ UNCHANGED <<pc, cmd, waited, err, drv, disk, trouble, asked>>
  BY DEF Answered
<1>4. \/ line.code # "SEND_SCR" /\ xfer' = xfer
      \/ /\ line.code = "SEND_SCR" /\ cmd.code = "SEND_SCR" /\ ~cmd.app /\ xfer = None
         /\ xfer' # None /\ DOMAIN xfer' = XferFields /\ xfer'.kind = "scr" /\ xfer'.phase = "wait"
         /\ xfer'.at = 0 /\ xfer'.left \in Nat /\ xfer'.left <= 2 /\ xfer'.block \in Scrs
         /\ (xfer'.block.blkcnt => card.blkcnt)
  <2>1. CASE line.code # "SEND_SCR"
    <3>1. line.code \notin ReadCodes \cup WriteCodes
      BY <1>2 DEF InitCodes, ReadCodes, WriteCodes
    <3> QED
      BY <1>3, <2>1, <3>1 DEF Transfers
  <2>2. CASE line.code = "SEND_SCR"
    <3>1. xfer = None
      BY <1>3, <2>2 DEF Legal, DataCodes, DatBusy
    <3>2. xfer' \in [kind : {"scr"}, phase : {"wait"}, at : {0}, left : {1, 2},
                     block : [ccs : BOOLEAN, blkcnt : {card.blkcnt}, bus4 : BOOLEAN]]
      BY <1>3, <2>2 DEF Transfers, ReadCodes, WriteCodes
    <3>3. /\ DOMAIN xfer' = XferFields /\ xfer'.kind = "scr" /\ xfer'.phase = "wait"
          /\ xfer'.at = 0 /\ xfer'.left \in {1, 2}
          /\ xfer'.block \in [ccs : BOOLEAN, blkcnt : {card.blkcnt}, bus4 : BOOLEAN]
      BY <3>2 DEF XferFields
    <3>4. xfer'.block \in Scrs /\ xfer'.block.blkcnt = card.blkcnt
      BY <3>3 DEF Scrs, IInv, CardType
    <3> QED
      BY <1>2, <2>2, <3>1, <3>3, <3>4 DEF None
  <2> QED
    BY <2>1, <2>2
<1>5. HostType'
  BY <1>1, <1>3, <1>4 DEF IInv, HostType, Phases
<1>6. Commanded' /\ Progress' /\ LineOK'
  BY <1>1, <1>3 DEF IInv, Commanded, Progress, LineOK
<1>7. /\ "VOLTAGE" \in answer => ("CCS" \in answer <=> card.hc)
      /\ "errors" \in answer => line.code = "SEND_REL_ADDR"
  BY <1>3 DEF Answers, IInv, CardType
<1>8. AnswersOK'
  <2>1. line.code = "SEND_REL_ADDR" => cmd.code = "SEND_REL_ADDR" /\ card'.mode = "stby"
    BY <1>2, <1>3 DEF ModeAfter
  <2>2. err # "bits"
    BY <1>3 DEF IInv, AnswersOK
  <2> QED
    BY <1>3, <1>7, <2>1, <2>2 DEF AnswersOK
<1>9. InitOK'
  <2>1. line.code # "SET_BLOCKCNT"
    BY <1>2 DEF InitCodes
  <2>2. ~card'.limit
    BY <1>3, <2>1
  <2>3. cmd.code \in {"SEND_SCR", "SET_BUS_WIDTH"} => card'.mode = card.mode
    BY <1>2, <1>3 DEF ModeAfter
  <2>4. cmd.code = "CARD_SELECT" => card'.mode = "tran"
    BY <1>2, <1>3 DEF ModeAfter, AppCodes
  <2> QED
    BY <1>1, <1>3, <2>2, <2>3, <2>4 DEF IInv, InitOK, InitOver, Running
<1>10. TransferOK'
  BY <1>1, <1>3, <1>4 DEF IInv, TransferOK
<1>11. InitTransfer'
  BY <1>1, <1>3, <1>4 DEF IInv, InitTransfer, Running
<1>12. ReadTransfer' /\ WriteTransfer' /\ ReadSoFar' /\ StoredSoFar'
  BY <1>3 DEF ReadTransfer, WriteTransfer, ReadSoFar, StoredSoFar, Past
<1>13. FineOK' /\ Serves'
  BY <1>3 DEF FineOK, Serves, Served, Fine, InitOver
<1> QED
  BY <1>1, <1>5, <1>6, <1>8, <1>9, <1>10, <1>11, <1>12, <1>13 DEF IInv

(* Answers to a call. *)
LEMMA CallAnswer ==
  ASSUME IInv, NEW answer, Answered(answer), drv.op # "init" PROVE IInv'
<1>1. /\ DrvType' /\ DriverType' /\ CardType' /\ NoStrayWrite' /\ HcWrites'
      /\ Ccs' = Ccs /\ ByteAddress' = ByteAddress
      /\ InCmd /\ InCmd' /\ (\A c : Running(c)' <=> Running(c)) /\ Past("read")' = Past("read")
      /\ Past("write")' = Past("write")
      /\ interrupt' \subseteq Bits /\ interrupt' \cap ErrorBits = interrupt \cap ErrorBits
      /\ \A b : b # "CMD_DONE" => (b \in interrupt' <=> b \in interrupt)
  BY AnswerTypes
<1>2. /\ line # None /\ line.arg = cmd.arg /\ line.code = cmd.code /\ ~cmd.app
      /\ "CMD_DONE" \notin interrupt /\ resp = {} /\ cmd.arg \in Nat
      /\ cmd.code \in Sent1(drv.op) /\ drv.op \in {"read", "write"}
  BY OnTheLine DEF Answered
<1>3. /\ pc = "sent" /\ Legal(cmd.code) /\ answer \in Answers(cmd.code)
      /\ resp' = answer /\ line' = None /\ xfer' \in Transfers(cmd.code, cmd.arg)
      /\ interrupt' = interrupt \cup {"CMD_DONE"}
      /\ card'.mode = ModeAfter(cmd.code, answer) /\ card'.hc = card.hc /\ card'.blkcnt = card.blkcnt
      /\ (card'.limit <=> cmd.code = "SET_BLOCKCNT")
      /\ UNCHANGED <<pc, cmd, waited, err, drv, disk, trouble, asked>>
  BY <1>2 DEF Answered
<1>4. /\ cmd.code \in ReadCodes \cup WriteCodes \cup {"SET_BLOCKCNT", "STOP_TRANS"}
      /\ cmd.code \in ReadCodes => drv.op = "read"
      /\ cmd.code \in WriteCodes => drv.op = "write"
      /\ cmd.code = "READ_SINGLE" => (Ccs => drv.num = 1)
      /\ cmd.code \in {"READ_MULTI", "WRITE_MULTI"} => Ccs /\ drv.num # 1
      /\ cmd.code = "WRITE_SINGLE" => (Ccs => drv.num = 1)
      /\ cmd.code = "STOP_TRANS" => drv.op = "read" /\ Ccs /\ ~drv.scr.blkcnt /\ drv.num # 1
      /\ cmd.code = "SET_BLOCKCNT" => Ccs
  BY <1>2 DEF Sent1, Single, Multi, ReadCodes, WriteCodes
<1>5. answer = {}
  BY <1>3, <1>4 DEF Answers, ReadCodes, WriteCodes
<1>6. /\ card.mode = IF cmd.code = "STOP_TRANS" THEN "open" ELSE "tran"
      /\ cmd.code \in ReadCodes \cup WriteCodes => xfer = None
  BY <1>3, <1>4 DEF Legal, DatBusy, DataCodes, ReadCodes, WriteCodes
<1>7. card'.mode = IF cmd.code \in {"READ_MULTI", "WRITE_MULTI"} /\ ~card.limit THEN "open" ELSE "tran"
  BY <1>3, <1>4, <1>6 DEF ModeAfter, ReadCodes, WriteCodes
<1>8. drv.inited # "bits" /\ (drv.inited = "SD_OK" => Ccs = card.hc /\ (drv.scr.blkcnt => card.blkcnt))
  BY <1>6 DEF IInv, InitOK, InitOver
<1>9. /\ drv.lba \in Nat /\ drv.num \in Nat /\ drv.done \in Nat /\ drv.num > 0 /\ DrvType
      /\ (cmd.code \in ReadCodes \cup WriteCodes =>
            /\ drv.done < drv.num /\ (Ccs => drv.done = 0)
            /\ cmd.arg = IF Ccs THEN drv.lba ELSE (drv.lba + drv.done) * BlockSize)
  <2>1. cmd.code \in ReadCodes \cup WriteCodes => ~Running("STOP_TRANS")
    BY DEF Running, ReadCodes, WriteCodes
  <2>2. drv.lba \in Nat /\ drv.num \in Nat /\ drv.done \in Nat /\ drv.num > 0 /\ DrvType
    BY DEF IInv, Progress, DrvType
  <2> QED
    BY <1>1, <1>3, <2>1, <2>2 DEF IInv, Progress, Commanded, ByteAddress
<1>10. Address(cmd.arg) \in Nat /\ (drv.inited = "SD_OK" /\ cmd.code \in ReadCodes \cup WriteCodes =>
                                     Address(cmd.arg) = drv.lba + drv.done)
  <2>1. cmd.arg \div BlockSize \in Nat
    BY <1>2, SdAssumption DEF SdAssumption
  <2>2. ~Ccs /\ cmd.code \in ReadCodes \cup WriteCodes => cmd.arg \div BlockSize = drv.lba + drv.done
    BY <1>9, BlockDiv
  <2> QED
    BY <1>2, <1>8, <1>9, <2>1, <2>2 DEF Address
<1>11. \/ cmd.code \in {"SET_BLOCKCNT", "STOP_TRANS"} /\ xfer' = xfer
       \/ /\ cmd.code \in ReadCodes \cup WriteCodes /\ xfer = None
          /\ xfer' # None /\ DOMAIN xfer' = XferFields /\ xfer'.phase = "wait"
          /\ xfer'.kind = (IF cmd.code \in ReadCodes THEN "read" ELSE "write")
          /\ xfer'.at = Address(cmd.arg) /\ xfer'.block = NoData /\ xfer'.left \in Nat
          /\ (cmd.code \in ReadCodes => xfer'.left = IF Ccs THEN drv.num - drv.done ELSE 1)
  <2>1. CASE cmd.code \in {"SET_BLOCKCNT", "STOP_TRANS"}
    BY <1>3, <2>1 DEF Transfers, ReadCodes, WriteCodes
  <2>2. CASE cmd.code \in ReadCodes
    <3>1. xfer' = [kind |-> "read", phase |-> "wait", at |-> Address(cmd.arg), block |-> NoData,
                   left |-> IF cmd.code = "READ_SINGLE" THEN 1 ELSE drv.num]
      BY <1>3, <2>2 DEF Transfers, ReadCodes, WriteCodes
    <3>2. (IF cmd.code = "READ_SINGLE" THEN 1 ELSE drv.num) = (IF Ccs THEN drv.num - drv.done ELSE 1)
      BY <1>4, <1>9, <2>2 DEF ReadCodes
    <3> QED
      BY <1>6, <1>9, <2>2, <3>1, <3>2 DEF XferFields, None
  <2>3. CASE cmd.code \in WriteCodes
    <3>1. xfer' = [kind |-> "write", phase |-> "wait", at |-> Address(cmd.arg), block |-> NoData,
                   left |-> IF cmd.code = "WRITE_SINGLE" THEN 1 ELSE drv.num]
      BY <1>3, <2>3 DEF Transfers, ReadCodes, WriteCodes
    <3>2. cmd.code \notin ReadCodes
      BY <2>3 DEF ReadCodes, WriteCodes
    <3> QED
      BY <1>6, <1>9, <2>3, <3>1, <3>2 DEF XferFields, None
  <2> QED
    BY <1>4, <2>1, <2>2, <2>3
<1>12. HostType'
  BY <1>1, <1>3, <1>10, <1>11 DEF IInv, HostType, Phases, NoData
<1>13. Commanded' /\ Progress' /\ LineOK'
  <2>1. Commanded'
    BY <1>1, <1>3 DEF IInv, Commanded, Sent1
  <2>2. Progress'
    BY <1>1, <1>3 DEF IInv, Progress
  <2> QED
    BY <1>3, <2>1, <2>2 DEF LineOK
<1>14. AnswersOK' /\ InitOK' /\ InitTransfer'
  <2>1. AnswersOK'
    BY <1>1, <1>3, <1>5 DEF AnswersOK
  <2>2. InitOK'
    BY <1>1, <1>3, <1>7, <1>8 DEF IInv, InitOK, InitOver
  <2> QED
    BY <1>3, <2>1, <2>2 DEF InitTransfer
<1>15. TransferOK'
  BY <1>1, <1>3, <1>11 DEF IInv, TransferOK
<1>16. ReadTransfer'
  <2>1. drv.op = "read" => cmd.code \notin WriteCodes /\ Past("read")
    BY <1>3, <1>4 DEF Past
  <2>2. cmd.code \in ReadCodes => ~Running("STOP_TRANS") /\ ~Running("SET_BLOCKCNT")
    BY DEF Running, ReadCodes
  <2>3. drv.op # "read" => ReadTransfer'
    BY <1>3 DEF ReadTransfer, Past
  <2>4. CASE drv.op = "read" /\ xfer' = xfer
    BY <1>1, <1>3, <2>4 DEF IInv, ReadTransfer
  <2>5. CASE drv.op = "read" /\ cmd.code \in ReadCodes
    BY <1>1, <1>3, <1>9, <1>10, <1>11, <2>1, <2>2, <2>5 DEF ReadTransfer, ReadCodes
  <2> QED
    BY <1>11, <2>1, <2>3, <2>4, <2>5
<1>17. WriteTransfer'
  <2>1. drv.op # "write" => WriteTransfer'
    BY <1>3 DEF WriteTransfer, Past
  <2>2. drv.op = "write" => drv.inited = "SD_OK" /\ cmd.code \notin ReadCodes
    BY <1>4, <1>8 DEF IInv, InitOK
  <2>3. cmd.code \in WriteCodes => ~Running("SET_BLOCKCNT")
    BY DEF Running, WriteCodes
  <2>4. CASE drv.op = "write" /\ xfer' = xfer
    BY <1>1, <1>3, <2>4 DEF IInv, WriteTransfer
  <2>5. CASE drv.op = "write" /\ cmd.code \in WriteCodes
    <3>1. xfer' # None /\ xfer'.kind = "write" /\ xfer'.phase = "wait" /\ xfer'.at = drv.lba + drv.done
      BY <1>10, <1>11, <2>2, <2>5 DEF WriteCodes
    <3> QED
      BY <1>1, <1>3, <2>2, <2>3, <2>5, <3>1 DEF WriteTransfer
  <2> QED
    BY <1>11, <2>1, <2>2, <2>4, <2>5
<1>18. ReadSoFar' /\ StoredSoFar'
  BY <1>1, <1>3, <1>11 DEF IInv, ReadSoFar, StoredSoFar, Stored, FullAt
<1>19. Fine' <=> Fine
  BY <1>3 DEF Fine, InitOver
<1>20. Fine => interrupt \cap ErrorBits = {}
  BY <1>2 DEF IInv, FineOK
<1>21. FineOK'
  <2>1. Fine /\ drv.op = "write" => card'.mode = "tran" /\ ~card'.limit
    BY <1>3, <1>4, <1>7, FineWrites
  <2>2. Fine => xfer' = None \/ xfer'.phase # "dead"
    BY <1>11 DEF IInv, FineOK
  <2>3. Fine /\ xfer' # None /\ xfer'.phase = "ready" => Running("STOP_TRANS")
    BY <1>2, <1>3, <1>9, <1>11 DEF IInv, FineOK
  <2> QED
    BY <1>1, <1>3, <1>19, <1>20, <2>1, <2>2, <2>3 DEF FineOK
<1>22. Serves'
  <2>1. Served => /\ err = "SD_OK" /\ xfer = None /\ (card.limit <=> cmd.code = "READ_MULTI" /\ drv.scr.blkcnt)
    BY <1>1, <1>2, <1>3 DEF IInv, Serves
  <2>2. Served /\ drv.op = "write" => ~Ccs /\ cmd.code = "WRITE_SINGLE"
    BY <1>4, FineWrites DEF Served, ReadCodes, WriteCodes
  <2>3. CASE cmd.code \in {"SET_BLOCKCNT", "STOP_TRANS"}
    BY <1>1, <1>3, <1>7, <1>11, <1>19, <1>20, <2>1, <2>3 DEF Serves, Served, ReadCodes, WriteCodes
  <2>4. CASE cmd.code \in ReadCodes \cup WriteCodes
    <3>1. Served => card'.mode = ModeInCall
      BY <1>4, <1>7, <1>9, <2>1, <2>2, <2>4 DEF ModeInCall, ReadCodes, WriteCodes
    <3>2. xfer' # None /\ xfer'.phase = "wait" /\ cmd.code \notin {"SET_BLOCKCNT", "STOP_TRANS"}
      BY <1>11, <2>4 DEF ReadCodes, WriteCodes
    <3> QED
      BY <1>1, <1>3, <1>19, <1>20, <2>1, <3>1, <3>2 DEF Serves, Served, UnderWay, ModeInCall
  <2> QED
    BY <1>4, <2>3, <2>4
<1> QED
  BY <1>1, <1>12, <1>13, <1>14, <1>15, <1>16, <1>17, <1>18, <1>21, <1>22 DEF IInv

(* CardAnswers keeps the invariant. *)
LEMMA CardAnswersStep ==
  ASSUME IInv, CardAnswers PROVE IInv'
  BY AnswerGiven, InitAnswer, CallAnswer

-----------------------------------------------------------------------------
(* The invariant holds at the start. *)
LEMMA InitInv ==
  ASSUME Init PROVE IInv
<1> USE SdAssumption DEF SdAssumption, Init
<1>1. DrvType
  BY DEF DrvType, DrvFields, Ops, NoScr, Scrs
<1>2. DriverType /\ HostType /\ CardType
  <2>1. cmd \in [code : Codes, arg : Nat, app : BOOLEAN]
    BY DEF Codes, InitCodes
  <2>2. card \in [mode : {"idle"}, app : {FALSE}, limit : {FALSE}, hc : BOOLEAN, blkcnt : BOOLEAN]
    OBVIOUS
  <2>3. /\ DOMAIN card = {"mode", "app", "limit", "hc", "blkcnt"} /\ card.mode = "idle"
        /\ card.app \in BOOLEAN /\ card.limit \in BOOLEAN /\ card.hc \in BOOLEAN
        /\ card.blkcnt \in BOOLEAN
    BY <2>2
  <2>4. disk \in [Sectors -> Int] /\ asked \subseteq Sectors /\ trouble \in BOOLEAN
    BY DEF Sectors
  <2>5. CardType
    BY <2>3, <2>4 DEF CardType, Modes
  <2> QED
    BY <2>1, <2>5 DEF DriverType, HostType, Errors
<1>3. Commanded /\ Progress /\ LineOK /\ AnswersOK /\ InitOK
  BY DEF Commanded, Progress, LineOK, AnswersOK, InitOK, InitOver, InCmd, Running
<1>4. TransferOK /\ InitTransfer /\ ReadTransfer /\ WriteTransfer /\ ReadSoFar /\ StoredSoFar
  BY DEF TransferOK, InitTransfer, ReadTransfer, WriteTransfer, ReadSoFar, StoredSoFar, Past, InCmd, Running
<1>5. NoStrayWrite /\ FineOK /\ Serves /\ HcWrites
  BY DEF NoStrayWrite, FineOK, Serves, Served, Fine, HcWrites
<1> QED
  BY <1>1, <1>2, <1>3, <1>4, <1>5 DEF IInv

(* Every step keeps the invariant. *)
LEMMA StepInv ==
  ASSUME IInv, Next PROVE IInv'
<1>1. CASE Calls
  BY <1>1, sd_initStep, NewCallStep DEF Calls
<1>2. CASE Commands
  BY <1>2, InhibitStep, ClearStep, IssueStep, SentStep, AppReturnedStep DEF Commands
<1>3. CASE Initialise
  BY <1>3, GoIdleStep, IfCondStep, OpCondStep, AllSendCidStep, SendRelAddrStep, CardSelectStep,
     SendScrStep, ScrWordStep, BusStep, SetBusWidthStep DEF Initialise
<1>4. CASE Blocks
  BY <1>4, BusyStep, SetBlockCntStep, DataCommandStep, ReadyStep, ReadDataStep, StopTransStep,
     WriteDataStep, FinishStep DEF Blocks
<1>5. CASE Card
  BY <1>5, CardAnswersStep, CardSilentStep, CardReadyStep, CardStoresStep, CardFailsStep DEF Card
<1> QED
  BY <1>1, <1>2, <1>3, <1>4, <1>5, TurnStep DEF Next, Driver

(* A step that changes nothing keeps the invariant. *)
LEMMA StutterInv ==
  ASSUME IInv, UNCHANGED vars PROVE IInv'
<1>1. UNCHANGED <<pc, cmd, waited, err, resp, drv, interrupt, line, xfer, card, disk, trouble, asked>>
  BY DEF vars, host, cardVars, history
<1>2. DrvType' /\ DriverType' /\ HostType' /\ CardType' /\ NoStrayWrite' /\ HcWrites'
  BY <1>1 DEF IInv, DrvType, DriverType, HostType, CardType, NoStrayWrite, HcWrites
<1>3. Commanded' /\ Progress' /\ LineOK' /\ AnswersOK' /\ InitOK'
  BY <1>1 DEF IInv, Commanded, Progress, LineOK, AnswersOK, InitOK, InCmd, Running, Ccs, ByteAddress, Sent1,
     InitOver
<1>4. TransferOK' /\ InitTransfer' /\ ReadTransfer' /\ WriteTransfer'
  BY <1>1 DEF IInv, TransferOK, InitTransfer, ReadTransfer, WriteTransfer, InCmd, Running, Past, Ccs
<1>5. ReadSoFar' /\ StoredSoFar'
  BY <1>1 DEF IInv, ReadSoFar, StoredSoFar, Past, Ccs, Stored, FullAt
<1>6. FineOK' /\ Serves'
  BY <1>1 DEF IInv, FineOK, Serves, Fine, Served, InitOver, InCmd, Running, ReadyBit, UnderWay, ModeInCall, Ccs
<1> QED
  BY <1>2, <1>3, <1>4, <1>5, <1>6 DEF IInv

(* The inductive invariant: whatever the card does and whenever it fails,  *)
(* the driver, the controller and the transfer under way fit together.     *)
THEOREM SdInvariant == Spec => []IInv
<1>1. IInv /\ [Next]_vars => IInv'
  BY StepInv, StutterInv
<1> QED
  BY <1>1, InitInv, PTL DEF Spec

(* Nothing is written where no write asked for it, and no block goes to    *)
(* the place of another (sd.c:299).                                        *)
THEOREM SdNoStrayWrite == Spec => []NoStrayWrite
<1>1. IInv => NoStrayWrite
  BY DEF IInv
<1> QED
  BY <1>1, SdInvariant, PTL

(* A read that sd_readblock calls done gives the sectors asked for, in     *)
(* order, whatever failed before it (sd.c:268).                            *)
THEOREM SdReadGivesTheSectors == Spec => []ReadGivesTheSectors
<1>1. IInv => ReadGivesTheSectors
  <2>1. SUFFICES ASSUME IInv, pc = "idle", drv.op = "read", drv.ret = "done", drv.inited = "SD_OK"
                 PROVE  drv.buf = [i \in 1..drv.num |-> disk[drv.lba + i - 1]]
    BY DEF ReadGivesTheSectors
  <2>2. /\ drv.done = drv.num /\ drv.num \in Nat /\ Len(drv.buf) = drv.num /\ drv.buf \in Seq(Int)
        /\ \A i \in 1..drv.num : drv.buf[i] = disk[drv.lba + i - 1]
    BY <2>1 DEF IInv, ReadSoFar, Progress, DrvType
  <2> QED
    BY <2>2
<1> QED
  BY <1>1, SdInvariant, PTL

(* A write of one block that sd_writeblock calls done is on the card; of   *)
(* several, all but those whose error was cleared or that are still under  *)
(* way (sd.c:165, sd.c:327).                                               *)
THEOREM SdWriteDoneIsStored == Spec => WriteDoneIsStored
<1> DEFINE A == pc = "finish" /\ pc' = "idle" /\ drv'.ret = "done" =>
                  \A i \in 0..(drv.num - 1) :
                    \/ disk[drv.lba + i] = New(drv.lba + i)
                    \/ drv.num > 1 /\ (trouble \/ (i = drv.num - 1 /\ DatBusy))
<1>1. ASSUME IInv, [Next]_vars PROVE [A]_vars
  <2>1. SUFFICES ASSUME Next, pc = "finish", pc' = "idle", drv'.ret = "done",
                        NEW i \in 0..(drv.num - 1)
                 PROVE  \/ disk[drv.lba + i] = New(drv.lba + i)
                        \/ drv.num > 1 /\ (trouble \/ (i = drv.num - 1 /\ DatBusy))
    BY <1>1
  <2>2. Finish
    BY <2>1 DEF Next, Calls, Driver, Commands, Initialise, Blocks, Card, sd_init, sd_readblock, sd_writeblock,
       Turn, Inhibit, Clear, Issue, Sent, AppReturned, GoIdle, IfCond, OpCond, AllSendCid, SendRelAddr,
       CardSelect, SendScr, ScrWord, Bus, SetBusWidth, Then, Returned, Busy, SetBlockCnt, DataCommand,
       Ready, ReadData, StopTrans, WriteData, CardAnswers, CardSilent, CardReady, CardStores, CardFails,
       CardUnchanged
  <2>3. PICK r \in Errors :
          sd_int("DATA_DONE", r) /\ drv' = [drv EXCEPT !.ret = IF r = "SD_OK" THEN "done" ELSE "failed"]
    BY <2>2 DEF Finish
  <2>4. DOMAIN drv = DrvFields /\ drv.num \in Nat /\ drv.lba \in Nat /\ drv.done \in Nat /\ drv.op = "write"
    BY <1>1, <2>1 DEF IInv, DrvType, Commanded
  <2>5. r = "SD_OK"
    <3>1. drv'.ret = IF r = "SD_OK" THEN "done" ELSE "failed"
      BY <2>3, <2>4 DEF DrvFields
    <3> QED
      BY <2>1, <3>1
  <2>6. "DATA_DONE" \in interrupt
    BY <1>1, <2>3, <2>5, IntOK DEF Bits, ErrorBits, TimeoutBits
  <2>7. ~card.hc /\ ~Ccs /\ drv.done = drv.num
    <3>1. ~card.hc
      BY <1>1, <2>6 DEF IInv, TransferOK
    <3>2. drv.inited = "SD_OK"
      BY <1>1, <2>1, <2>4, <2>6 DEF IInv, InitOK, WriteTransfer, Past
    <3>3. ~Ccs
      BY <1>1, <2>1, <2>4, <3>1, <3>2 DEF IInv, InitOK, InitOver
    <3> QED
      BY <1>1, <2>1, <2>4, <3>1, <3>3 DEF IInv, Progress
  <2>8. CASE drv.num = 1
    BY <1>1, <2>1, <2>4, <2>6, <2>7, <2>8 DEF IInv, StoredSoFar, Past, Stored
  <2>9. CASE drv.num > 1
    BY <1>1, <2>1, <2>4, <2>7, <2>9 DEF IInv, StoredSoFar, Past, Stored, FullAt, DatBusy
  <2> QED
    BY <2>1, <2>4, <2>8, <2>9
<1>2. WriteDoneIsStored <=> [][A]_vars
  BY DEF WriteDoneIsStored
<1> QED
  BY <1>1, <1>2, SdInvariant, PTL DEF Spec

(* A card that answers every command and transfer in time is served.       *)
THEOREM SdGoodCardServed == Spec => []GoodCardServed
<1>1. IInv => GoodCardServed
  BY DEF IInv, GoodCardServed, Serves, Served, Fine, InitOver, HcWrites
<1> QED
  BY <1>1, SdInvariant, PTL
=============================================================================

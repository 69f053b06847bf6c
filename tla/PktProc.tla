------------------------------ MODULE PktProc ------------------------------
(***************************************************************************)
(* The packet engine Usb2PktProc.vhd for control, bulk and interrupt       *)
(* endpoints: its state machine (register record r), the reader of         *)
(* received packets (register record rd) and the single packet buffer both *)
(* share (mem): received OUT packets wait in it for the reader, IN packets *)
(* are kept in it until the host acknowledges them.                        *)
(*                                                                         *)
(* An action is one reaction of the engine to a received packet, a byte    *)
(* handed to or aborted by the transmitter, or an expired timer.  A packet *)
(* received for an endpoint is one step (nothing of it can be observed     *)
(* before its last byte); a transmitted one takes a step per byte, since   *)
(* the PHY may abort after each of them.                                   *)
(***************************************************************************)
EXTENDS Integers, Sequences, FiniteSets

CONSTANTS
  EP,         \* endpoint numbers, 0 is the default control pipe
  Control,    \* the endpoints of transferType CONTROL
  Unframed,   \* the IN endpoints that drive bFramedInp = '1' (no framing)
  HiSpeed,    \* devStatus.hiSpeed
  MaxPkt,     \* maxPktSizeInp = maxPktSizeOut of every endpoint
  BufSize,    \* words of the packet buffer (2^LD_BUFSZ_C)
  CntMod,     \* 2^width of the byte counters
  DON,        \* end-of-frame marker of an endpoint stream
  NoPkt       \* nothing on the wire

ASSUME EPAssumption     == 0 \in Control /\ Control \subseteq EP /\ Unframed \subseteq EP
ASSUME SizeAssumption   == /\ MaxPkt \in Nat \ {0} /\ BufSize \in Nat \ {0}
                           /\ CntMod \in Nat /\ MaxPkt < CntMod
ASSUME SpeedAssumption  == HiSpeed \in BOOLEAN
ASSUME MarkerAssumption == DON \notin Nat /\ NoPkt \notin EP

TokPids == {"OUT", "IN", "SETUP", "PING", "SOF"}
DatPids == {"DATA0", "DATA1"}
HskPids == {"ACK", "NAK", "STALL", "NYET"}
Pids    == TokPids \union DatPids \union HskPids

Byte    == Nat                       \* 0 stands for any byte nobody sent as data
Item    == Byte \union {DON}         \* what an IN stream offers: vld with a byte, or don
Idx     == 0 .. BufSize - 1
Cnt     == 0 .. CntMod - 1

\* A 9-bit buffer word: bit 8 marks a packet header (token and endpoint).
Words     == [hdr : BOOLEAN, tok : Pids, ep : EP, dat : Byte]
HdrWord(t, e) == [hdr |-> TRUE,  tok |-> t,     ep |-> e, dat |-> 0]
DatWord(b)    == [hdr |-> FALSE, tok |-> "OUT", ep |-> 0, dat |-> b]

States == {"IDLE", "DATA_INP", "DATA_REP", "DATA_PID", "DATA_OUT", "DRAIN", "WAIT_DON",
           "WAIT_ACK", "HSK", "WAIT_TX", "WAIT_FS_SE0", "WAIT_FS_J", "WAIT_FS_K"}

VARIABLES
  r,        \* engine registers
  rd,       \* reader registers
  mem,      \* the packet buffer
  src,      \* src[e]: items IN endpoint e offers (mstInp), the head first
  outRdy,   \* the OUT endpoints asserting subOut.rdy
  halted,   \* halt bits: [inp, out] sets of endpoints (devStatus.haltedInp/Out)
  out,      \* out[e]: what OUT endpoint e has received, in order (history)
  tx,       \* bytes of the packet under transmission handed to Usb2PktTx
  wire      \* a transmitted packet on its way to the host, or NoPkt

epVars   == <<src, outRdy, halted, out>>
pktVars  == <<r, rd, mem, src, outRdy, halted, out, tx, wire>>

RegType ==
  [ state : States, nxtState : States, tok : Pids, epIdx : EP, pid : Pids,
    dataTglInp : [EP -> {0, 1}], dataTglOut : [EP -> {0, 1}],
    lstPktFullSz : SUBSET EP, dataCounter : Cnt, donFlg : BOOLEAN,
    bufRWIdx : Idx, bufVldIdx : Idx, bufEndIdx : Idx,
    bufInpVld : BOOLEAN, bufInpPart : BOOLEAN, bufInpEpIdx : EP,
    retryExpired : BOOLEAN, deadInp : SUBSET EP ]

BufReaderType ==
  [ bufRdIdx : Idx, epIdx : EP, isSetup : BOOLEAN,
    mst : {"none", "vld", "don"}, dat : Byte, dataCounter : Cnt ]

RInit ==
  [ state |-> "IDLE", nxtState |-> "IDLE", tok |-> "SOF", epIdx |-> 0, pid |-> "ACK",
    dataTglInp |-> [e \in EP |-> 0], dataTglOut |-> [e \in EP |-> 0],
    lstPktFullSz |-> {}, dataCounter |-> 0, donFlg |-> FALSE,
    bufRWIdx |-> 0, bufVldIdx |-> 0, bufEndIdx |-> 0,
    bufInpVld |-> FALSE, bufInpPart |-> FALSE, bufInpEpIdx |-> 0,
    retryExpired |-> TRUE, deadInp |-> {} ]

RdInit ==
  [ bufRdIdx |-> 0, epIdx |-> 0, isSetup |-> FALSE, mst |-> "none", dat |-> 0,
    dataCounter |-> CntMod - 1 ]

PktInit ==
  /\ r = RInit
  /\ rd = RdInit
  /\ mem = [i \in Idx |-> DatWord(0)]
  /\ src = [e \in EP |-> <<>>]
  /\ outRdy = {}
  /\ halted = [inp |-> {}, out |-> {}]
  /\ out = [e \in EP |-> <<>>]
  /\ tx = <<>>
  /\ wire = NoPkt
-----------------------------------------------------------------------------
Inc(i)    == (i + 1) % BufSize
Dec(i)    == (i + BufSize - 1) % BufSize
CntInc(c) == (c + 1) % CntMod
\* Mutant of CntDec: the counter does not wrap.
MutCntDec(c) == c - 1

CntDec(c) == (c + CntMod - 1) % CntMod

Vld(e)  == src[e] # <<>> /\ Head(src[e]) # DON    \* mstInp.vld
Don(e)  == src[e] # <<>> /\ Head(src[e]) = DON    \* mstInp.don

BufBusy == r.bufInpVld \/ r.bufInpPart
HaltedInp(e) == e \in halted.inp \union r.deadInp
HaltedOut(e) == e \in halted.out

\* A received header: pid, plus the endpoint and address match that the token
\* register of Usb2PktRx holds, which only a token packet refreshes.
\* The device is addressed and configured.
checkTokHdr(p) ==
  /\ p.pid # "SOF"
  /\ p.pid = "PING" => HiSpeed
  /\ p.mine
  /\ p.pid = "SETUP" => p.ep \in Control

DatPid(t) == IF t = 0 THEN "DATA0" ELSE "DATA1"

\* Mutant: repeated packets are not recognised.
MutSequenceOutMatch(p) == TRUE

sequenceOutMatch(p) == r.tok = "SETUP" \/ p.pid = DatPid(r.dataTglOut[r.epIdx])

\* The effect of invalidateBuffer on register record v.
invalidateBuffer(v) ==
  [v EXCEPT !.bufInpVld = FALSE, !.bufInpPart = FALSE, !.bufRWIdx = v.bufVldIdx]

\* Mutant: the write pointer is not rewound.
MutSaveBuffer(v) == [v EXCEPT !.bufEndIdx = v.bufRWIdx]

\* Rewind for a replay: remember the end of the data, back to their start.
SaveBuffer(v) == [v EXCEPT !.bufEndIdx = v.bufRWIdx, !.bufRWIdx = v.bufVldIdx]
-----------------------------------------------------------------------------
(* IDLE: reactions to a token.  Every one latches the token; donFlg is 0.  *)
TokRegs(p) == [r EXCEPT !.donFlg = FALSE, !.tok = p.pid, !.epIdx = p.ep]

RespondHsk(v, h) == [v EXCEPT !.pid = h, !.nxtState = "HSK", !.state = "WAIT_TX"]

IdlePing(p) ==
  /\ p.pid = "PING"
  /\ r' = RespondHsk(TokRegs(p), IF ~BufBusy /\ p.ep \in outRdy THEN "ACK" ELSE "NAK")

\* Mutant: the packet in the retry buffer is forgotten.
MutNothingToSend(e) ==
  ~Vld(e) /\ ~(e \in r.lstPktFullSz /\ e \in Unframed) /\ ~Don(e)

NothingToSend(e) ==
  ~Vld(e) /\ ~(e \in r.lstPktFullSz /\ e \in Unframed) /\ ~Don(e) /\ ~r.bufInpVld

\* Mutant: the owner of the buffer is not compared.
MutBufForeign(e) == FALSE

\* The buffer holds the unacknowledged packet of another endpoint.
BufForeign(e) == BufBusy /\ r.bufInpEpIdx # e

InpRegs(p) == [TokRegs(p) EXCEPT !.dataCounter = MaxPkt - 1]

\* Mutant: no answer while the buffer is in use for another endpoint.
MutIdleInpRefuse(p) ==
  /\ p.pid = "IN"
  /\ r' = IF HaltedInp(p.ep) THEN RespondHsk(InpRegs(p), "STALL")
          ELSE IF BufForeign(p.ep) THEN r
          ELSE RespondHsk(InpRegs(p), "NAK")
  /\ HaltedInp(p.ep) \/ NothingToSend(p.ep) \/ BufForeign(p.ep)

IdleInpRefuse(p) ==
  /\ p.pid = "IN"
  /\ \/ HaltedInp(p.ep) /\ r' = RespondHsk(InpRegs(p), "STALL")
     \/ /\ ~HaltedInp(p.ep)
        /\ NothingToSend(p.ep) \/ BufForeign(p.ep)
        /\ r' = RespondHsk(InpRegs(p), "NAK")

InpAccepted(p) ==
  p.pid = "IN" /\ ~HaltedInp(p.ep) /\ ~NothingToSend(p.ep) /\ ~BufForeign(p.ep)

\* Mutant: the PID of the last transaction is left in place.
MutSendRegs(p) == [InpRegs(p) EXCEPT !.state = "WAIT_TX"]

SendRegs(p) == [InpRegs(p) EXCEPT !.pid = DatPid(r.dataTglInp[p.ep]), !.state = "WAIT_TX"]

\* An unacknowledged packet (or its start) is sent again, from the buffer.
IdleInpReplay(p) ==
  /\ InpAccepted(p) /\ BufBusy
  /\ r' = IF r.bufRWIdx = r.bufEndIdx
          THEN [SendRegs(p) EXCEPT !.nxtState = "WAIT_DON", !.donFlg = TRUE]
          ELSE [SendRegs(p) EXCEPT !.nxtState = "DATA_REP", !.bufRWIdx = Inc(@)]

\* A zero-length packet ends an unframed transfer of full-size packets.
IdleInpZlp(p) ==
  /\ InpAccepted(p) /\ ~BufBusy
  /\ ~Vld(p.ep) /\ p.ep \in r.lstPktFullSz \intersect Unframed
  /\ r' = [SendRegs(p) EXCEPT !.nxtState = "WAIT_DON", !.donFlg = TRUE,
                              !.bufInpVld = TRUE, !.lstPktFullSz = @ \ {p.ep}]

IdleInpFresh(p) ==
  /\ InpAccepted(p) /\ ~BufBusy
  /\ Vld(p.ep) \/ p.ep \notin r.lstPktFullSz \intersect Unframed
  /\ r' = [SendRegs(p) EXCEPT !.nxtState = "DATA_INP"]

\* Every remaining packet is taken for the token of an OUT or SETUP.
IdleOut(p) ==
  /\ p.pid \notin {"PING", "IN"}
  /\ r' = [TokRegs(p) EXCEPT !.dataCounter = MaxPkt - 1, !.state = "DATA_PID"]

Idle(p) ==
  /\ r.state = "IDLE"
  /\ IF checkTokHdr(p)
     THEN \/ IdlePing(p) \/ IdleInpRefuse(p) \/ IdleInpReplay(p)
          \/ IdleInpZlp(p) \/ IdleInpFresh(p) \/ IdleOut(p)
     ELSE r' = r
  /\ UNCHANGED mem

\* Without a packet: the time allowed for retries is over.
IdleRetryTimeout ==
  /\ r.state = "IDLE" /\ r.retryExpired /\ BufBusy
  /\ r' = invalidateBuffer([r EXCEPT !.deadInp = @ \union {r.bufInpEpIdx}])
  /\ UNCHANGED <<rd, mem, epVars, tx, wire>>
-----------------------------------------------------------------------------
(* DATA_PID, DATA_OUT, DRAIN: an OUT or SETUP transaction.                 *)
\* Mutant: OUT data are stored although the buffer holds IN data.
MutDataPidRefusal(p) ==
  IF HaltedOut(r.epIdx) THEN "STALL"
  ELSE IF ~sequenceOutMatch(p) THEN "ACK"
  ELSE IF r.epIdx \notin outRdy /\ r.tok # "SETUP" THEN "NAK"
  ELSE "none"

DataPidRefusal(p) ==
  IF HaltedOut(r.epIdx) THEN "STALL"
  ELSE IF ~sequenceOutMatch(p) THEN "ACK"        \* a repeated packet: discard it
  ELSE IF (BufBusy \/ r.epIdx \notin outRdy) /\ r.tok # "SETUP" THEN "NAK"
  ELSE "none"

DataPidDrain(p) ==
  /\ p.pid \in DatPids /\ DataPidRefusal(p) # "none"
  /\ r' = [r EXCEPT !.pid = DataPidRefusal(p), !.state = "DRAIN"]
  /\ UNCHANGED mem

DataPidStore(p) ==
  /\ p.pid \in DatPids /\ DataPidRefusal(p) = "none"
  /\ r' = [r EXCEPT !.pid = "ACK", !.state = "DATA_OUT", !.bufRWIdx = Inc(@)]
  /\ mem' = [mem EXCEPT ![r.bufRWIdx] = HdrWord(r.tok, r.epIdx)]

DataPidOther(p) ==
  /\ p.pid \notin DatPids
  /\ r' = [r EXCEPT !.state = "IDLE"]
  /\ UNCHANGED mem

DataPid(p) == r.state = "DATA_PID" /\ (DataPidDrain(p) \/ DataPidStore(p) \/ DataPidOther(p))

DataPidTimeout ==
  /\ r.state = "DATA_PID"
  /\ r' = [r EXCEPT !.state = "IDLE"]
  /\ UNCHANGED <<rd, mem, epVars, tx, wire>>

\* The buffer after the bytes s were written at index i.
Stored(i, s) ==
  [j \in Idx |-> LET k == (j + BufSize - i) % BufSize
                 IN  IF k < Len(s) THEN DatWord(s[k + 1]) ELSE mem[j]]

\* Payload and end of the packet; err: checksum or another receive error.
RxData(s, err) ==
  /\ r.state \in {"DATA_OUT", "DRAIN"}
  /\ LET store == r.state = "DATA_OUT"
         rw    == IF store THEN (r.bufRWIdx + Len(s)) % BufSize ELSE r.bufRWIdx
         v     == [r EXCEPT !.bufRWIdx = rw]
         setup == r.tok = "SETUP"
         e     == r.epIdx
     IN  /\ mem' = IF store THEN Stored(r.bufRWIdx, s) ELSE mem
         /\ r' = IF err THEN [v EXCEPT !.state = "IDLE"]
                 ELSE IF ~store THEN [v EXCEPT !.nxtState = "HSK", !.state = "WAIT_TX"]
                 ELSE [v EXCEPT !.bufVldIdx = rw, !.nxtState = "HSK", !.state = "WAIT_TX",
                                !.dataTglOut[e] = IF setup THEN 1 ELSE 1 - @,
                                !.dataTglInp[e] = IF setup THEN 1 ELSE @]
  /\ UNCHANGED <<rd, epVars, tx, wire>>
-----------------------------------------------------------------------------
(* WAIT_TX, HSK and the data phase of an IN transaction.                   *)
WaitTx ==
  /\ r.state = "WAIT_TX"
  /\ r' = [r EXCEPT !.state = r.nxtState]
  /\ tx' = <<>>
  /\ UNCHANGED <<rd, mem, epVars, wire>>

HskPid ==
  IF HaltedInp(r.epIdx) \/ HaltedOut(r.epIdx) THEN "STALL"
  ELSE IF HiSpeed /\ r.pid = "ACK" /\ r.tok = "OUT" /\ r.epIdx \notin outRdy THEN "NYET"
  ELSE r.pid

Hsk ==
  /\ r.state = "HSK"
  /\ r' = [r EXCEPT !.pid = HskPid, !.donFlg = TRUE, !.state = "IDLE"]
  /\ wire' = [pid |-> HskPid, dat |-> <<>>]
  /\ UNCHANGED <<rd, mem, epVars, tx>>

\* DATA_INP, every cycle: the packet does not count as full-size (yet).
DataInpRegs == [r EXCEPT !.lstPktFullSz = @ \ {r.epIdx}]

PopSrc == src' = [src EXCEPT ![r.epIdx] = Tail(@)]

\* A byte goes to the transmitter and into the buffer.
DataInpByte ==
  /\ r.state = "DATA_INP" /\ Vld(r.epIdx)
  /\ LET b    == Head(src[r.epIdx])
         last == r.dataCounter = 0
     IN  /\ mem' = [mem EXCEPT ![r.bufRWIdx] = DatWord(b)]
         /\ tx' = Append(tx, b)
         /\ r' = [DataInpRegs EXCEPT
                    !.bufRWIdx = Inc(@), !.dataCounter = CntDec(@),
                    !.bufInpPart = ~last, !.bufInpVld = @ \/ last,
                    !.bufInpEpIdx = r.epIdx, !.retryExpired = FALSE,
                    !.donFlg = @ \/ last,
                    !.state = IF last THEN "WAIT_DON" ELSE @,
                    !.lstPktFullSz = IF last THEN r.lstPktFullSz \union {r.epIdx}
                                     ELSE r.lstPktFullSz \ {r.epIdx}]
  /\ PopSrc
  /\ UNCHANGED <<rd, outRdy, halted, out, wire>>

PacketComplete(v, flg) ==
  [v EXCEPT !.donFlg = flg, !.bufInpVld = TRUE, !.bufInpPart = FALSE, !.state = "WAIT_DON"]

\* An unframed packet ends when the endpoint has no more data.
DataInpDry ==
  /\ r.state = "DATA_INP" /\ r.epIdx \in Unframed /\ ~Vld(r.epIdx)
  /\ r' = PacketComplete(DataInpRegs, TRUE)
  /\ UNCHANGED <<rd, mem, epVars, tx, wire>>

\* A framed packet ends with don.  While bytes are going out (RUN state of
\* the transmitter) the marker may be taken at once; otherwise, and always if
\* the packet has no byte, it is taken when the transmitter is done.
DataInpDon ==
  /\ r.state = "DATA_INP" /\ r.epIdx \notin Unframed /\ Don(r.epIdx)
  /\ \/ /\ tx # <<>>
        /\ r' = PacketComplete(DataInpRegs, TRUE)
        /\ UNCHANGED wire
     \/ /\ r' = PacketComplete(DataInpRegs, FALSE)
        /\ wire' = [pid |-> r.pid, dat |-> tx]
  /\ PopSrc
  /\ UNCHANGED <<rd, mem, outRdy, halted, out, tx>>

\* The PHY aborts the packet; what was taken so far stays in the buffer.  (An
\* unframed packet whose endpoint is dry is complete in the same cycle already:
\* that abort is DataInpDry followed by WaitDonAbort.)
DataInpAbort ==
  /\ r.state = "DATA_INP"
  /\ r.epIdx \in Unframed => Vld(r.epIdx)
  /\ r' = [SaveBuffer(DataInpRegs) EXCEPT !.donFlg = FALSE, !.state = "IDLE"]
  /\ UNCHANGED <<rd, mem, epVars, tx, wire>>

\* A byte is sent again.  bufRWIdx runs one word ahead of it.
DataRepByte ==
  /\ r.state = "DATA_REP"
  /\ tx' = Append(tx, mem[Dec(r.bufRWIdx)].dat)
  /\ LET v == [r EXCEPT !.dataCounter = CntDec(@)]
     IN  r' = IF r.bufRWIdx # r.bufEndIdx THEN [v EXCEPT !.bufRWIdx = Inc(@)]
              ELSE IF r.bufInpPart
              THEN [v EXCEPT !.bufRWIdx = Inc(@), !.state = "DATA_INP"]
              ELSE [v EXCEPT !.donFlg = TRUE, !.state = "WAIT_DON"]
  /\ UNCHANGED <<rd, mem, epVars, wire>>

DataRepAbort ==
  /\ r.state = "DATA_REP"
  /\ r' = [r EXCEPT !.bufRWIdx = r.bufVldIdx, !.state = "IDLE"]
  /\ UNCHANGED <<rd, mem, epVars, tx, wire>>

\* WAIT_DON: the transmitter reports the end of the packet, or an abort.
WaitDonTx ==
  /\ r.state = "WAIT_DON" /\ r.donFlg
  /\ r' = [r EXCEPT !.donFlg = FALSE]
  /\ wire' = [pid |-> r.pid, dat |-> tx]
  /\ UNCHANGED <<rd, mem, epVars, tx>>

WaitDonAbort ==
  /\ r.state = "WAIT_DON" /\ r.donFlg
  /\ r' = [SaveBuffer(r) EXCEPT !.state = "IDLE"]
  /\ UNCHANGED <<rd, mem, epVars, tx, wire>>

WaitDonNext ==
  /\ r.state = "WAIT_DON" /\ ~r.donFlg
  /\ r' = [r EXCEPT !.state = IF HiSpeed THEN "WAIT_ACK" ELSE "WAIT_FS_SE0"]
  /\ UNCHANGED <<rd, mem, epVars, tx, wire>>

\* Full speed: SE0 and J end the own packet, then K starts the answer or the
\* timer expires.
WaitFs ==
  /\ \/ r.state = "WAIT_FS_SE0" /\ r' = [r EXCEPT !.state = "WAIT_FS_J"]
     \/ r.state = "WAIT_FS_J"   /\ r' = [r EXCEPT !.state = "WAIT_FS_K"]
     \/ r.state = "WAIT_FS_K"   /\ r' = [r EXCEPT !.state = "WAIT_ACK"]
  /\ UNCHANGED <<rd, mem, epVars, tx, wire>>

\* Mutant: every packet is taken for the acknowledgement.
MutWaitAck(p) ==
  /\ r.state = "WAIT_ACK"
  /\ r' = [invalidateBuffer(r) EXCEPT !.dataTglInp[r.epIdx] = 1 - @, !.state = "IDLE"]
  /\ UNCHANGED mem

WaitAck(p) ==
  /\ r.state = "WAIT_ACK"
  /\ r' = IF p.pid = "ACK"
          THEN [invalidateBuffer(r) EXCEPT !.dataTglInp[r.epIdx] = 1 - @, !.state = "IDLE"]
          ELSE [SaveBuffer(r) EXCEPT !.state = "IDLE"]
  /\ UNCHANGED mem

\* Mutant: the buffer is released on a timeout too.
MutWaitAckTimeout ==
  /\ r.state = "WAIT_ACK"
  /\ r' = [invalidateBuffer(r) EXCEPT !.state = "IDLE"]
  /\ UNCHANGED <<rd, mem, epVars, tx, wire>>

WaitAckTimeout ==
  /\ r.state = "WAIT_ACK"
  /\ r' = [SaveBuffer(r) EXCEPT !.state = "IDLE"]
  /\ UNCHANGED <<rd, mem, epVars, tx, wire>>

\* SET_FEATURE and CLEAR_FEATURE(ENDPOINT_HALT) of the control endpoint; the
\* latter (clrHaltedInp/Out) resets the data toggle.
SetHalt(dir, e) ==
  /\ halted' = [halted EXCEPT ![dir] = @ \union {e}]
  /\ UNCHANGED <<r, rd, mem, src, outRdy, out, tx, wire>>

ClearHalt(dir, e) ==
  /\ halted' = [halted EXCEPT ![dir] = @ \ {e}]
  /\ r' = IF dir = "inp" THEN [r EXCEPT !.dataTglInp[e] = 0]
          ELSE [r EXCEPT !.dataTglOut[e] = 0]
  /\ UNCHANGED <<rd, mem, src, outRdy, out, tx, wire>>

\* A packet header arrives in one of the states that look at it.
RxHdr(p) ==
  /\ Idle(p) \/ DataPid(p) \/ WaitAck(p)
  /\ UNCHANGED <<rd, epVars, tx, wire>>
-----------------------------------------------------------------------------
(* The reader: offers the words up to bufVldIdx to the addressed endpoint. *)
(* Its outputs are registered: a step delivers what the previous one put   *)
(* there and computes the next.                                            *)
Port == IF rd.isSetup THEN "ctl" ELSE "out"

Deliver ==
  out' = IF rd.mst = "none" THEN out
         ELSE [out EXCEPT ![rd.epIdx] = Append(@, [port |-> Port, item |->
                                           IF rd.mst = "don" THEN DON ELSE rd.dat])]

RdWord == mem[rd.bufRdIdx]

RdNext ==
  LET v     == [rd EXCEPT !.mst = "none"]
      empty == rd.bufRdIdx = r.bufVldIdx
      ends  == rd.dataCounter < MaxPkt \/ rd.isSetup
      w     == [v EXCEPT !.mst = IF ends THEN "don" ELSE "none"]
  IN  IF rd.mst = "don" THEN [v EXCEPT !.dataCounter = CntMod - 1, !.isSetup = FALSE]
      ELSE IF empty THEN w
      ELSE IF RdWord.hdr
      THEN [w EXCEPT !.epIdx = RdWord.ep, !.isSetup = (RdWord.tok = "SETUP"),
                     !.dataCounter = 0, !.bufRdIdx = Inc(@)]
      ELSE [v EXCEPT !.dataCounter = CntInc(@), !.mst = "vld", !.dat = RdWord.dat,
                     !.bufRdIdx = Inc(@)]

ReaderIdle == RdNext = rd /\ rd.mst = "none"

\* An endpoint may withdraw rdy only with the item it takes.
Reader ==
  /\ ~ReaderIdle
  /\ rd' = RdNext
  /\ Deliver
  /\ outRdy' \in IF rd.mst = "none" THEN {outRdy} ELSE {outRdy, outRdy \ {rd.epIdx}}
  /\ UNCHANGED <<r, mem, src, halted, tx, wire>>
-----------------------------------------------------------------------------
Delivery == [port : {"ctl", "out"}, item : Item]
TxPacket == [pid : Pids, dat : Seq(Byte)]

PktTypeOK ==
  /\ r \in RegType /\ rd \in BufReaderType
  /\ mem \in [Idx -> Words]
  /\ src \in [EP -> Seq(Item)]
  /\ outRdy \subseteq EP
  /\ halted \in [inp : SUBSET EP, out : SUBSET EP]
  /\ out \in [EP -> Seq(Delivery)]
  /\ tx \in Seq(Byte)
  /\ wire \in TxPacket \union {NoPkt}

InpStates == {"DATA_INP", "DATA_REP", "WAIT_DON", "WAIT_FS_SE0", "WAIT_FS_J",
              "WAIT_FS_K", "WAIT_ACK"}

\* The phase the engine is in, or will be once WAIT_TX is over.
Phase == IF r.state = "WAIT_TX" THEN r.nxtState ELSE r.state

\* The packet buffer serves one purpose at a time: it holds a complete IN
\* packet or the start of one, not both; nothing is kept while a new packet is
\* about to be taken from an endpoint; the packet sent is kept in it until the
\* transaction is over; OUT data (other than SETUP, which the engine must
\* accept) are stored only while it holds no IN data.
BufferInv ==
  /\ ~(r.bufInpVld /\ r.bufInpPart)
  /\ Phase = "DATA_INP" => ~r.bufInpVld
  /\ Phase \in InpStates \ {"DATA_INP"} => BufBusy
  /\ (Phase = "DATA_OUT" /\ r.tok # "SETUP") => ~BufBusy

\* Data phases carry a data PID, handshakes a handshake PID; nothing else is
\* ever sent.
PidInv ==
  /\ Phase \in InpStates => r.pid \in DatPids
  /\ Phase \in {"HSK", "DATA_OUT", "DRAIN"} => r.pid \in HskPids
  /\ wire # NoPkt => (wire.pid \in DatPids \/ (wire.pid \in HskPids /\ wire.dat = <<>>))
=============================================================================

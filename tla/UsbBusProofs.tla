---------------------------- MODULE UsbBusProofs ----------------------------
(***************************************************************************)
(* Proofs about the packet engine on the bus, for every set of endpoints,  *)
(* packet and buffer size, speed and scenario: types, the discipline of    *)
(* the single packet buffer and of the transmitted PIDs.                   *)
(***************************************************************************)
EXTENDS UsbBusInv, TLAPS

USE EPAssumption, SizeAssumption, SpeedAssumption, MarkerAssumption, ScenarioAssumption

\* A header as Usb2PktRx passes it on.
RxHeader == [pid : Pids, ep : EP, mine : BOOLEAN]
-----------------------------------------------------------------------------
(* Helpers.                                                                *)
\* Indices and counters wrap within their range.
LEMMA WrapIdx == \A i \in Idx : Inc(i) \in Idx /\ Dec(i) \in Idx
  BY DEF Idx, Inc, Dec

LEMMA WrapCnt == \A c \in Cnt : CntInc(c) \in Cnt /\ CntDec(c) \in Cnt
  BY DEF Cnt, CntInc, CntDec

LEMMA PidTypes ==
  /\ TokPids \subseteq Pids /\ DatPids \subseteq Pids /\ HskPids \subseteq Pids
  /\ \A t \in {0, 1} : DatPid(t) \in DatPids
  /\ DatPids \intersect HskPids = {}
  BY DEF Pids, TokPids, DatPids, HskPids, DatPid

LEMMA InvalidateType == \A v \in RegType : invalidateBuffer(v) \in RegType
  BY DEF RegType, invalidateBuffer

LEMMA SaveType == \A v \in RegType : SaveBuffer(v) \in RegType
  BY DEF RegType, SaveBuffer

LEMMA RespondType == \A v \in RegType, p \in Pids : RespondHsk(v, p) \in RegType
  <1> SUFFICES ASSUME NEW v \in RegType, NEW p \in Pids PROVE RespondHsk(v, p) \in RegType
    OBVIOUS
  <1>1. [v EXCEPT !.pid = p] \in RegType
    BY DEF RegType
  <1>2. \A w \in RegType : [w EXCEPT !.nxtState = "HSK", !.state = "WAIT_TX"] \in RegType
    BY DEF RegType, States
  <1>3. RespondHsk(v, p) = [[v EXCEPT !.pid = p] EXCEPT !.nxtState = "HSK", !.state = "WAIT_TX"]
    BY DEF RespondHsk, RegType
  <1> QED BY <1>1, <1>2, <1>3

LEMMA TokRegsType ==
  ASSUME r \in RegType, NEW p \in RxHeader
  PROVE  TokRegs(p) \in RegType /\ InpRegs(p) \in RegType /\ SendRegs(p) \in RegType
  <1>1. TokRegs(p) \in RegType
    BY DEF RegType, RxHeader, TokRegs
  <1>2. MaxPkt - 1 \in Cnt
    BY DEF Cnt
  <1>3. InpRegs(p) \in RegType
    BY <1>1, <1>2 DEF RegType, InpRegs
  <1>4. DatPid(r.dataTglInp[p.ep]) \in Pids
    BY PidTypes DEF RegType, RxHeader
  <1>5. SendRegs(p) \in RegType
    BY <1>3, <1>4 DEF RegType, SendRegs, States
  <1> QED BY <1>1, <1>3, <1>5
-----------------------------------------------------------------------------
(* Types: a received header.                                               *)
LEMMA IdleType ==
  ASSUME PktTypeOK, NEW p \in RxHeader, Idle(p)
  PROVE  r' \in RegType /\ mem' = mem
  <1>1. r \in RegType /\ p.pid \in Pids /\ p.ep \in EP
    BY DEF PktTypeOK, RxHeader
  <1>2. TokRegs(p) \in RegType /\ InpRegs(p) \in RegType /\ SendRegs(p) \in RegType
    BY <1>1, TokRegsType
  <1>3. {"ACK", "NAK", "STALL"} \subseteq Pids
    BY DEF Pids, HskPids
  <1>4. CASE IdlePing(p)
    BY <1>2, <1>3, <1>4, RespondType DEF IdlePing, Idle
  <1>5. CASE IdleInpRefuse(p)
    BY <1>2, <1>3, <1>5, RespondType DEF IdleInpRefuse, Idle
  <1>6. CASE IdleInpReplay(p)
    <2>1. Inc(r.bufRWIdx) \in Idx /\ SendRegs(p).bufRWIdx = r.bufRWIdx
      BY <1>1, WrapIdx DEF RegType, SendRegs, InpRegs, TokRegs
    <2> QED BY <1>2, <1>6, <2>1, ZenonT(60) DEF IdleInpReplay, Idle, RegType, States
  <1>7. CASE IdleInpZlp(p)
    BY <1>2, <1>7 DEF IdleInpZlp, Idle, RegType, States
  <1>8. CASE IdleInpFresh(p)
    BY <1>2, <1>8 DEF IdleInpFresh, Idle, RegType, States
  <1>9. CASE IdleOut(p)
    <2>1. MaxPkt - 1 \in Cnt
      BY DEF Cnt
    <2> QED BY <1>2, <1>9, <2>1 DEF IdleOut, Idle, RegType, States
  <1> QED BY <1>1, <1>4, <1>5, <1>6, <1>7, <1>8, <1>9 DEF Idle

LEMMA DataPidType ==
  ASSUME PktTypeOK, NEW p \in RxHeader, DataPid(p)
  PROVE  r' \in RegType /\ mem' \in [Idx -> Words]
  <1>1. r \in RegType /\ mem \in [Idx -> Words]
    BY DEF PktTypeOK
  <1>2. {"ACK", "NAK", "STALL"} \subseteq Pids
    BY DEF Pids, HskPids
  <1>3. CASE DataPidDrain(p)
    <2>1. DataPidRefusal(p) \in Pids
      BY <1>2, <1>3 DEF DataPidDrain, DataPidRefusal
    <2> QED BY <1>1, <1>3, <2>1 DEF DataPidDrain, RegType, States
  <1>4. CASE DataPidStore(p)
    <2>1. HdrWord(r.tok, r.epIdx) \in Words
      BY <1>1 DEF HdrWord, Words, RegType, Byte
    <2>2. mem' \in [Idx -> Words]
      BY <1>1, <1>4, <2>1 DEF DataPidStore
    <2>3. Inc(r.bufRWIdx) \in Idx
      BY <1>1, WrapIdx DEF RegType
    <2> QED BY <1>1, <1>2, <1>4, <2>2, <2>3 DEF DataPidStore, RegType, States
  <1>5. CASE DataPidOther(p)
    BY <1>1, <1>5 DEF DataPidOther, RegType, States
  <1> QED BY <1>3, <1>4, <1>5 DEF DataPid

LEMMA WaitAckType ==
  ASSUME PktTypeOK, NEW p \in RxHeader, WaitAck(p)
  PROVE  r' \in RegType /\ mem' = mem
  <1>1. r \in RegType
    BY DEF PktTypeOK
  <1>2. invalidateBuffer(r) \in RegType /\ SaveBuffer(r) \in RegType
    BY <1>1, InvalidateType, SaveType
  <1>3. \A v \in RegType : [v EXCEPT !.state = "IDLE"] \in RegType
    BY DEF RegType, States
  <1>4. CASE p.pid = "ACK"
    <2> DEFINE v == invalidateBuffer(r)
    <2>1. v.dataTglInp \in [EP -> {0, 1}] /\ r.epIdx \in EP
      BY <1>1, <1>2 DEF RegType
    <2>2. 1 - v.dataTglInp[r.epIdx] \in {0, 1}
      BY <2>1
    <2>3. [v EXCEPT !.dataTglInp[r.epIdx] = 1 - @, !.state = "IDLE"] \in RegType
      <3> HIDE DEF v
      <3> QED BY <1>2, <2>1, <2>2 DEF RegType, States, v
    <2> QED BY <1>4, <2>3 DEF WaitAck
  <1>5. CASE p.pid # "ACK"
    BY <1>2, <1>3, <1>5 DEF WaitAck
  <1> QED BY <1>4, <1>5

LEMMA RxHdrType ==
  ASSUME PktTypeOK, NEW p \in RxHeader, RxHdr(p)
  PROVE  PktTypeOK'
  <1>1. r' \in RegType /\ mem' \in [Idx -> Words]
    <2>1. mem \in [Idx -> Words]
      BY DEF PktTypeOK
    <2> QED BY <2>1, IdleType, DataPidType, WaitAckType DEF RxHdr
  <1> QED BY <1>1 DEF PktTypeOK, RxHdr, epVars
-----------------------------------------------------------------------------
(* Types: payload, transmission, reader.                                   *)
LEMMA RxDataType ==
  ASSUME PktTypeOK, NEW s \in Seq(Byte), NEW err \in BOOLEAN, RxData(s, err)
  PROVE  PktTypeOK'
  <1>1. r \in RegType /\ mem \in [Idx -> Words]
    BY DEF PktTypeOK
  <1>2. (r.bufRWIdx + Len(s)) % BufSize \in Idx
    BY <1>1 DEF RegType, Idx
  <1>3. Stored(r.bufRWIdx, s) \in [Idx -> Words]
    <2> SUFFICES ASSUME NEW j \in Idx
                 PROVE  Stored(r.bufRWIdx, s)[j] \in Words
      BY DEF Stored
    <2>1. (j + BufSize - r.bufRWIdx) % BufSize \in Nat
      BY <1>1 DEF RegType, Idx
    <2> DEFINE k == (j + BufSize - r.bufRWIdx) % BufSize
    <2>2. ASSUME k < Len(s) PROVE DatWord(s[k + 1]) \in Words
      <3>1. s[k + 1] \in Byte
        BY <2>1, <2>2
      <3> QED BY <3>1 DEF DatWord, Words, Pids, TokPids
    <2>3. mem[j] \in Words
      BY <1>1
    <2> QED BY <2>2, <2>3 DEF Stored
  <1>4. mem' \in [Idx -> Words]
    BY <1>1, <1>3 DEF RxData
  <1>5. r' \in RegType
    <2> DEFINE store == r.state = "DATA_OUT"
               rw    == IF store THEN (r.bufRWIdx + Len(s)) % BufSize ELSE r.bufRWIdx
               v     == [r EXCEPT !.bufRWIdx = rw]
               e     == r.epIdx
    <2>1. rw \in Idx
      BY <1>1, <1>2 DEF RegType
    <2>2. v \in RegType /\ v.dataTglOut = r.dataTglOut /\ v.dataTglInp = r.dataTglInp
      BY <1>1, <2>1 DEF RegType
    <2>3. /\ e \in EP /\ 1 - r.dataTglOut[e] \in {0, 1}
          /\ r.dataTglOut \in [EP -> {0, 1}] /\ r.dataTglInp \in [EP -> {0, 1}]
      BY <1>1 DEF RegType
    <2>4. r' = IF err THEN [v EXCEPT !.state = "IDLE"]
               ELSE IF ~store THEN [v EXCEPT !.nxtState = "HSK", !.state = "WAIT_TX"]
               ELSE [v EXCEPT !.bufVldIdx = rw, !.nxtState = "HSK", !.state = "WAIT_TX",
                              !.dataTglOut[e] = IF r.tok = "SETUP" THEN 1 ELSE 1 - @,
                              !.dataTglInp[e] = IF r.tok = "SETUP" THEN 1 ELSE @]
      BY DEF RxData
    <2>5. CASE err \/ ~store
      <3> HIDE DEF v, store
      <3> QED BY <2>2, <2>4, <2>5 DEF RegType, States
    <2>6. CASE ~err /\ store /\ r.tok = "SETUP"
      <3>1. r' = [v EXCEPT !.bufVldIdx = rw, !.nxtState = "HSK", !.state = "WAIT_TX",
                           !.dataTglOut[e] = 1, !.dataTglInp[e] = 1]
        BY <2>4, <2>6
      <3> HIDE DEF v, rw, e
      <3> QED BY <2>1, <2>2, <2>3, <3>1 DEF RegType, States
    <2>7. CASE ~err /\ store /\ r.tok # "SETUP"
      <3>1. r' = [v EXCEPT !.bufVldIdx = rw, !.nxtState = "HSK", !.state = "WAIT_TX",
                           !.dataTglOut[e] = 1 - @, !.dataTglInp[e] = @]
        BY <2>4, <2>7
      <3> HIDE DEF v, rw, e
      <3> QED BY <2>1, <2>2, <2>3, <3>1, ZenonT(60) DEF RegType, States
    <2> QED BY <2>5, <2>6, <2>7
  <1> QED BY <1>4, <1>5 DEF PktTypeOK, RxData, epVars

LEMMA TimeoutType ==
  ASSUME PktTypeOK, DataPidTimeout \/ WaitAckTimeout \/ IdleRetryTimeout
  PROVE  PktTypeOK'
  <1>1. r \in RegType
    BY DEF PktTypeOK
  <1>2. DataPidTimeout => r' \in RegType
    BY <1>1 DEF DataPidTimeout, RegType, States
  <1>3. WaitAckTimeout => r' \in RegType
    <2>1. SaveBuffer(r) \in RegType
      BY <1>1, SaveType
    <2> QED BY <2>1 DEF WaitAckTimeout, RegType, States
  <1>4. IdleRetryTimeout => r' \in RegType
    <2>1. [r EXCEPT !.deadInp = @ \union {r.bufInpEpIdx}] \in RegType
      BY <1>1 DEF RegType
    <2> QED BY <2>1, InvalidateType DEF IdleRetryTimeout
  <1>5. r' \in RegType /\ UNCHANGED <<rd, mem, epVars, tx, wire>>
    BY <1>2, <1>3, <1>4 DEF DataPidTimeout, WaitAckTimeout, IdleRetryTimeout
  <1> QED BY <1>5 DEF PktTypeOK, epVars

LEMMA SendType ==
  ASSUME PktTypeOK,
         WaitTx \/ Hsk \/ WaitDonTx \/ WaitDonNext \/ WaitDonAbort \/ WaitFs
  PROVE  PktTypeOK'
  <1>1. r \in RegType /\ tx \in Seq(Byte)
    BY DEF PktTypeOK
  <1>2. CASE WaitTx
    <2>1. r' \in RegType
      BY <1>1, <1>2 DEF WaitTx, RegType
    <2>2. tx' \in Seq(Byte)
      BY <1>2 DEF WaitTx
    <2> QED BY <1>2, <2>1, <2>2 DEF WaitTx, PktTypeOK, epVars
  <1>3. CASE Hsk
    <2>1. HskPid \in Pids
      BY <1>1 DEF HskPid, RegType, Pids, HskPids
    <2>2. r' \in RegType
      BY <1>1, <1>3, <2>1 DEF Hsk, RegType, States
    <2>3. wire' \in TxPacket
      BY <1>3, <2>1 DEF Hsk, TxPacket
    <2> QED BY <1>3, <2>2, <2>3 DEF Hsk, PktTypeOK, epVars
  <1>4. CASE WaitDonTx
    <2>1. r' \in RegType /\ wire' \in TxPacket
      BY <1>1, <1>4 DEF WaitDonTx, RegType, TxPacket
    <2> QED BY <1>4, <2>1 DEF WaitDonTx, PktTypeOK, epVars
  <1>5. CASE WaitDonNext
    BY <1>1, <1>5, ZenonT(60) DEF WaitDonNext, PktTypeOK, RegType, States, epVars
  <1>6. CASE WaitDonAbort
    <2>1. SaveBuffer(r) \in RegType
      BY <1>1, SaveType
    <2>2. r' \in RegType
      BY <1>6, <2>1 DEF WaitDonAbort, RegType, States
    <2> QED BY <1>6, <2>2 DEF WaitDonAbort, PktTypeOK, epVars
  <1>7. CASE WaitFs
    <2>1. r' \in RegType
      BY <1>1, <1>7 DEF WaitFs, RegType, States
    <2> QED BY <1>7, <2>1 DEF WaitFs, PktTypeOK, epVars
  <1> QED BY <1>2, <1>3, <1>4, <1>5, <1>6, <1>7

\* What an endpoint offers is a byte or a marker, and what is left is a stream.
LEMMA SrcType ==
  ASSUME PktTypeOK, src[r.epIdx] # <<>>
  PROVE  /\ Head(src[r.epIdx]) \in Item
         /\ [src EXCEPT ![r.epIdx] = Tail(@)] \in [EP -> Seq(Item)]
  <1>1. src \in [EP -> Seq(Item)] /\ r.epIdx \in EP
    BY DEF PktTypeOK, RegType
  <1>2. Head(src[r.epIdx]) \in Item /\ Tail(src[r.epIdx]) \in Seq(Item)
    BY <1>1
  <1> QED BY <1>1, <1>2

LEMMA DataInpRegsType ==
  ASSUME r \in RegType
  PROVE  DataInpRegs \in RegType
  BY DEF DataInpRegs, RegType

LEMMA CompleteType ==
  \A v \in RegType, f \in BOOLEAN : PacketComplete(v, f) \in RegType
  <1> SUFFICES ASSUME NEW v \in RegType, NEW f \in BOOLEAN
               PROVE  PacketComplete(v, f) \in RegType
    OBVIOUS
  <1>1. [v EXCEPT !.donFlg = f, !.state = "WAIT_DON"] \in RegType
    BY DEF RegType, States
  <1>2. \A w \in RegType : [w EXCEPT !.bufInpVld = TRUE, !.bufInpPart = FALSE] \in RegType
    BY DEF RegType
  <1>3. PacketComplete(v, f) = [[v EXCEPT !.donFlg = f, !.state = "WAIT_DON"]
                                  EXCEPT !.bufInpVld = TRUE, !.bufInpPart = FALSE]
    BY DEF PacketComplete, RegType
  <1> QED BY <1>1, <1>2, <1>3

LEMMA DataInpType ==
  ASSUME PktTypeOK, DataInpByte \/ DataInpDry \/ DataInpDon \/ DataInpAbort
  PROVE  PktTypeOK'
  <1>1. r \in RegType /\ tx \in Seq(Byte) /\ mem \in [Idx -> Words]
    BY DEF PktTypeOK
  <1>2. DataInpRegs \in RegType
    BY <1>1, DataInpRegsType
  <1>3. CASE DataInpByte
    <2> DEFINE b == Head(src[r.epIdx])
    <2>1. b \in Byte /\ src' \in [EP -> Seq(Item)]
      BY <1>3, SrcType DEF DataInpByte, Vld, Item, PopSrc
    <2>2. tx' \in Seq(Byte)
      BY <1>1, <1>3, <2>1 DEF DataInpByte
    <2>3. DatWord(b) \in Words
      BY <2>1 DEF DatWord, Words, Pids, TokPids
    <2>4. mem' \in [Idx -> Words]
      BY <1>1, <1>3, <2>3 DEF DataInpByte
    <2>5. /\ Inc(r.bufRWIdx) \in Idx /\ CntDec(r.dataCounter) \in Cnt
          /\ DataInpRegs.bufRWIdx = r.bufRWIdx /\ DataInpRegs.dataCounter = r.dataCounter
      BY <1>1, WrapIdx, WrapCnt DEF RegType, DataInpRegs
    <2>6. r' \in RegType
      <3> DEFINE v    == DataInpRegs
                 last == r.dataCounter = 0
                 rw   == Inc(v.bufRWIdx)
                 dc   == CntDec(v.dataCounter)
                 part == ~last
                 vld  == v.bufInpVld \/ last
                 flg  == v.donFlg \/ last
                 st   == IF last THEN "WAIT_DON" ELSE v.state
                 full == IF last THEN r.lstPktFullSz \union {r.epIdx}
                         ELSE r.lstPktFullSz \ {r.epIdx}
      <3>1. rw \in Idx /\ dc \in Cnt
        BY <2>5
      <3>2. part \in BOOLEAN /\ vld \in BOOLEAN /\ flg \in BOOLEAN
        OBVIOUS
      <3>3. st \in States /\ full \in SUBSET EP /\ r.epIdx \in EP
        BY <1>1, <1>2 DEF RegType, States
      <3> DEFINE v1 == [v EXCEPT !.bufRWIdx = rw, !.dataCounter = dc, !.bufInpPart = part,
                                 !.bufInpVld = vld]
                 v2 == [v1 EXCEPT !.bufInpEpIdx = r.epIdx, !.retryExpired = FALSE,
                                  !.donFlg = flg, !.state = st, !.lstPktFullSz = full]
      <3>4. r' = v2
        BY <1>3, Zenon DEF DataInpByte
      <3>5. v \in RegType
        BY <1>2
      <3>6. v1 \in RegType
        <4> HIDE DEF v, rw, dc, part, vld
        <4> QED BY <3>1, <3>2, <3>5 DEF RegType
      <3>7. v2 \in RegType
        <4> HIDE DEF v, v1, flg, st, full
        <4> QED BY <3>2, <3>3, <3>6 DEF RegType
      <3> QED BY <3>4, <3>7
    <2> QED BY <1>3, <2>1, <2>2, <2>4, <2>6 DEF DataInpByte, PktTypeOK
  <1>4. CASE DataInpDry
    <2>1. r' \in RegType
      BY <1>2, <1>4, CompleteType DEF DataInpDry
    <2> QED BY <1>4, <2>1 DEF DataInpDry, PktTypeOK, epVars
  <1>5. CASE DataInpDon
    <2>1. r' \in RegType
      BY <1>2, <1>5, CompleteType DEF DataInpDon
    <2>2. src' \in [EP -> Seq(Item)]
      BY <1>5, SrcType DEF DataInpDon, Don, PopSrc
    <2>3. wire' \in TxPacket \union {NoPkt}
      <3>1. wire \in TxPacket \union {NoPkt} /\ [pid |-> r.pid, dat |-> tx] \in TxPacket
        BY <1>1 DEF TxPacket, RegType, PktTypeOK
      <3> QED BY <1>5, <3>1 DEF DataInpDon
    <2> QED BY <1>5, <2>1, <2>2, <2>3 DEF DataInpDon, PktTypeOK
  <1>6. CASE DataInpAbort
    <2>1. SaveBuffer(DataInpRegs) \in RegType
      BY <1>2, SaveType
    <2>2. r' \in RegType
      BY <1>6, <2>1 DEF DataInpAbort, RegType, States
    <2> QED BY <1>6, <2>2 DEF DataInpAbort, PktTypeOK, epVars
  <1> QED BY <1>3, <1>4, <1>5, <1>6

LEMMA DataRepType ==
  ASSUME PktTypeOK, DataRepByte \/ DataRepAbort
  PROVE  PktTypeOK'
  <1>1. r \in RegType /\ tx \in Seq(Byte) /\ mem \in [Idx -> Words]
    BY DEF PktTypeOK
  <1>2. CASE DataRepByte
    <2>1. Dec(r.bufRWIdx) \in Idx /\ Inc(r.bufRWIdx) \in Idx /\ CntDec(r.dataCounter) \in Cnt
      BY <1>1, WrapIdx, WrapCnt DEF RegType
    <2>2. mem[Dec(r.bufRWIdx)].dat \in Byte
      BY <1>1, <2>1 DEF Words
    <2>3. tx' \in Seq(Byte)
      BY <1>1, <1>2, <2>2 DEF DataRepByte
    <2>4. r' \in RegType
      <3>1. [r EXCEPT !.dataCounter = CntDec(@)] \in RegType
        BY <1>1, <2>1 DEF RegType
      <3>2. PICK v \in RegType :
               \/ r' = [v EXCEPT !.bufRWIdx = Inc(@)]
               \/ r' = [v EXCEPT !.bufRWIdx = Inc(@), !.state = "DATA_INP"]
               \/ r' = [v EXCEPT !.donFlg = TRUE, !.state = "WAIT_DON"]
        BY <1>2, <3>1 DEF DataRepByte
      <3>3. Inc(v.bufRWIdx) \in Idx
        BY WrapIdx DEF RegType
      <3>4. [v EXCEPT !.bufRWIdx = Inc(@)] \in RegType
        BY <3>3 DEF RegType
      <3>5. [v EXCEPT !.bufRWIdx = Inc(@), !.state = "DATA_INP"] \in RegType
        BY <3>3 DEF RegType, States
      <3>6. [v EXCEPT !.donFlg = TRUE, !.state = "WAIT_DON"] \in RegType
        BY DEF RegType, States
      <3> QED BY <3>2, <3>4, <3>5, <3>6
    <2> QED BY <1>2, <2>3, <2>4 DEF DataRepByte, PktTypeOK, epVars
  <1>3. CASE DataRepAbort
    BY <1>1, <1>3 DEF DataRepAbort, PktTypeOK, RegType, States, epVars
  <1> QED BY <1>2, <1>3

LEMMA ReaderType ==
  ASSUME PktTypeOK, Reader
  PROVE  PktTypeOK'
  <1>1. rd \in BufReaderType /\ mem \in [Idx -> Words] /\ out \in [EP -> Seq(Delivery)]
    BY DEF PktTypeOK
  <1>2. Inc(rd.bufRdIdx) \in Idx /\ CntInc(rd.dataCounter) \in Cnt /\ RdWord \in Words
    BY <1>1, WrapIdx, WrapCnt DEF BufReaderType, RdWord
  <1>3. 0 \in Cnt /\ CntMod - 1 \in Cnt
    BY DEF Cnt
  <1>4. rd' \in BufReaderType
    BY <1>1, <1>2, <1>3 DEF Reader, RdNext, BufReaderType, Words
  <1>5. out' \in [EP -> Seq(Delivery)]
    <2>1. [port |-> Port, item |-> IF rd.mst = "don" THEN DON ELSE rd.dat] \in Delivery
      BY <1>1 DEF Port, Delivery, Item, BufReaderType
    <2>2. rd.epIdx \in EP
      BY <1>1 DEF BufReaderType
    <2> QED BY <1>1, <2>1, <2>2 DEF Reader, Deliver
  <1>6. outRdy' \subseteq EP
    BY DEF Reader, PktTypeOK
  <1> QED BY <1>4, <1>5, <1>6 DEF Reader, PktTypeOK

LEMMA HaltType ==
  ASSUME PktTypeOK, NEW dir \in {"inp", "out"}, NEW e \in EP,
         SetHalt(dir, e) \/ ClearHalt(dir, e)
  PROVE  PktTypeOK'
  <1>1. r \in RegType /\ halted \in [inp : SUBSET EP, out : SUBSET EP]
    BY DEF PktTypeOK
  <1>2. halted' \in [inp : SUBSET EP, out : SUBSET EP]
    <2>1. CASE dir = "inp"
      BY <1>1, <2>1 DEF SetHalt, ClearHalt
    <2>2. CASE dir = "out"
      BY <1>1, <2>2 DEF SetHalt, ClearHalt
    <2> QED BY <2>1, <2>2
  <1>3. r' \in RegType
    BY <1>1 DEF SetHalt, ClearHalt, RegType
  <1> QED BY <1>2, <1>3 DEF SetHalt, ClearHalt, PktTypeOK
-----------------------------------------------------------------------------
(* Types: engine, host and wire together.                                  *)
\* What the host puts on the wire is a header to the engine.
LEMMA HdrType ==
  ASSUME NEW p \in Pids, NEW t \in EP \union {NoPkt}
  PROVE  Hdr(p, t) \in RxHeader
  BY DEF Hdr, RxHeader

\* A lost packet uses up a fault.
LEMMA LoseType ==
  ASSUME TypeOK, NEW k \in FaultKinds, Lose(k)
  PROVE  env' \in Scenario /\ nLost' \in Nat /\ env'.outPkts = env.outPkts
  <1>1. env \in Scenario /\ nLost \in Nat
    BY DEF TypeOK
  <1>2. env.faults - 1 \in Nat
    BY <1>1 DEF Lose, Scenario
  <1>3. env' = [env EXCEPT !.faults = @ - 1] /\ nLost' = nLost + 1
    BY DEF Lose
  <1>4. nLost' \in Nat
    BY <1>1, <1>3
  <1>5. env' \in Scenario
    <2>1. \A n \in Nat : [env EXCEPT !.faults = n] \in Scenario
      BY <1>1 DEF Scenario
    <2>2. env' = [env EXCEPT !.faults = env.faults - 1]
      BY <1>3
    <2> QED BY <1>2, <2>1, <2>2
  <1>6. env'.outPkts = env.outPkts
    BY <1>1, <1>3 DEF Scenario
  <1> QED BY <1>4, <1>5, <1>6

\* The part of TypeOK that concerns host, wire and streams.
BusTypeOK ==
  /\ todo \in [EP -> Seq(Seq(Item))]
  /\ offered \in [EP -> Seq(Item)]
  /\ tokDat \in EP \union {NoPkt}
  /\ h \in [st : HostStates, ep : EP]
  /\ hTglInp \in [EP -> {0, 1}] /\ hTglOut \in [EP -> {0, 1}]
  /\ hPing \subseteq EP
  /\ oIdx \in [EP -> Nat]
  /\ sent \in [EP -> Seq(Delivery)]
  /\ rcv \in [EP -> Seq(Item)]
  /\ nSilent \in Nat
  /\ h.st \in {"out", "pld", "hsk"} => More(h.ep)

LEMMA TypeParts ==
  TypeOK <=> PktTypeOK /\ env \in Scenario /\ nLost \in Nat /\ BusTypeOK
  BY DEF TypeOK, BusTypeOK

LEMMA SendTokType ==
  ASSUME TypeOK, NEW pid \in Pids, NEW e \in EP, SendTok(pid, e)
  PROVE  /\ PktTypeOK' /\ env' \in Scenario /\ nLost' \in Nat
         /\ env'.outPkts = env.outPkts /\ tokDat' \in EP \union {NoPkt}
  <1>1. PktTypeOK /\ env \in Scenario /\ nLost \in Nat /\ tokDat \in EP \union {NoPkt}
    BY DEF TypeOK
  <1>2. CASE RxHdr(Hdr(pid, e)) /\ tokDat' = e /\ UNCHANGED faultVars
    BY <1>1, <1>2, HdrType, RxHdrType DEF faultVars
  <1>3. CASE Lose("tok") /\ tokDat' \in {tokDat, e} /\ UNCHANGED pktVars
    <2>1. PktTypeOK'
      BY <1>1, <1>3 DEF PktTypeOK, pktVars
    <2>2. "tok" \in FaultKinds
      BY DEF FaultKinds
    <2> QED BY <1>1, <1>3, <2>1, <2>2, LoseType
  <1> QED BY <1>2, <1>3 DEF SendTok

LEMMA EngineType ==
  ASSUME TypeOK, EngineStep \/ PhyAbort \/ EngineTimeout
  PROVE  TypeOK'
  <1>1. PktTypeOK /\ env \in Scenario /\ nLost \in Nat /\ BusTypeOK
    BY TypeParts
  <1>2. PktTypeOK'
    BY <1>1, SendType, DataInpType, DataRepType, ReaderType, TimeoutType
       DEF EngineStep, PhyAbort, EngineTimeout
  <1>3. env' \in Scenario /\ env'.outPkts = env.outPkts /\ nLost' \in Nat
    <2>1. CASE UNCHANGED busVars
      BY <1>1, <2>1 DEF busVars
    <2>2. CASE PhyAbort
      <3>1. env.aborts - 1 \in Nat
        BY <1>1, <2>2 DEF PhyAbort, Scenario
      <3>2. nLost' \in Nat
        BY <1>1, <2>2 DEF PhyAbort
      <3>3. env' \in Scenario /\ env'.outPkts = env.outPkts
        BY <1>1, <2>2, <3>1 DEF PhyAbort, Scenario
      <3> QED BY <3>2, <3>3
    <2> QED BY <2>1, <2>2 DEF EngineStep, EngineTimeout
  <1>4. UNCHANGED <<todo, offered, tokDat, h, hTglInp, hTglOut, hPing, oIdx, sent, rcv, nSilent>>
    BY DEF EngineStep, PhyAbort, EngineTimeout, busVars, hostVars
  <1>5. BusTypeOK'
    BY <1>1, <1>3, <1>4 DEF BusTypeOK, More
  <1> QED BY <1>1, <1>2, <1>3, <1>5 DEF TypeOK, BusTypeOK

LEMMA EndpointType ==
  ASSUME TypeOK, NEW e \in EP, EpOffer(e) \/ EpReady(e)
  PROVE  TypeOK'
  <1>1. CASE EpOffer(e)
    <2>1. todo[e] \in Seq(Seq(Item)) /\ src[e] \in Seq(Item)
      BY DEF TypeOK, PktTypeOK
    <2>2. Head(todo[e]) \in Seq(Item) /\ Tail(todo[e]) \in Seq(Seq(Item))
      BY <1>1, <2>1 DEF EpOffer
    <2>3. src' \in [EP -> Seq(Item)]
      BY <1>1, <2>1, <2>2 DEF EpOffer, TypeOK, PktTypeOK
    <2>4. todo' \in [EP -> Seq(Seq(Item))]
      BY <1>1, <2>2 DEF EpOffer, TypeOK
    <2>5. offered' \in [EP -> Seq(Item)]
      BY <1>1, <2>2 DEF EpOffer, TypeOK
    <2> QED BY <1>1, <2>3, <2>4, <2>5 DEF EpOffer, TypeOK, PktTypeOK, faultVars, hostVars, More
  <1>2. CASE EpReady(e)
    BY <1>2 DEF EpReady, TypeOK, PktTypeOK, busVars, More
  <1> QED BY <1>1, <1>2

LEMMA HaltStepType ==
  ASSUME TypeOK, NEW dir \in {"inp", "out"}, NEW e \in EP, Halt(dir, e)
  PROVE  TypeOK'
  <1>1. PktTypeOK /\ env \in Scenario
    BY DEF TypeOK
  <1>2. PktTypeOK'
    BY <1>1, HaltType DEF Halt
  <1>3. env' \in Scenario /\ env'.outPkts = env.outPkts
    <2>1. env.halts \ {<<dir, e>>} \in SUBSET ({"inp", "out"} \X EP)
      BY <1>1 DEF Scenario
    <2>2. \A q \in SUBSET ({"inp", "out"} \X EP) : [env EXCEPT !.halts = q] \in Scenario
      BY <1>1 DEF Scenario
    <2> QED BY <1>1, <2>1, <2>2 DEF Halt, Scenario
  <1>4. hTglInp' \in [EP -> {0, 1}] /\ hTglOut' \in [EP -> {0, 1}]
    BY DEF Halt, TypeOK
  <1> QED BY <1>2, <1>3, <1>4 DEF Halt, TypeOK, More

\* The packet the host has to send next.
LEMMA OutPktType ==
  ASSUME TypeOK, NEW e \in EP, More(e)
  PROVE  OutPkt(e) \in Packet
  <1>1. env.outPkts[e] \in Seq(Packet) /\ oIdx[e] \in Nat
    BY DEF TypeOK, Scenario
  <1>2. oIdx[e] < Len(env.outPkts[e])
    BY DEF More
  <1>3. oIdx[e] + 1 \in 1 .. Len(env.outPkts[e])
    BY <1>1, <1>2
  <1> QED BY <1>1, <1>3 DEF OutPkt

LEMMA AppendMark ==
  \A d \in Seq(Item) :
     /\ d \o <<DON>> \in Seq(Item) /\ Len(d \o <<DON>>) = Len(d) + 1
     /\ \A i \in 1 .. Len(d) : (d \o <<DON>>)[i] = d[i]
     /\ (d \o <<DON>>)[Len(d) + 1] = DON
     /\ d \o <<>> = d
  <1> TAKE d \in Seq(Item)
  <1>1. DON \in Item
    BY DEF Item
  <1> HIDE DEF Item
  <1>2. <<DON>> \in Seq(Item) /\ Len(<<DON>>) = 1 /\ <<DON>>[1] = DON /\ Len(d) \in Nat
    BY <1>1
  <1> QED BY <1>2

\* What an endpoint sees of a packet: an item per byte, and perhaps the marker.
LEMMA PktItemsType ==
  ASSUME NEW p \in Packet
  PROVE  /\ PktItems(p) \in Seq(Delivery)
         /\ LET port == IF p.tok = "SETUP" THEN "ctl" ELSE "out"
                end  == Len(p.dat) < MaxPkt \/ p.tok = "SETUP"
            IN  /\ Len(PktItems(p)) = Len(p.dat) + (IF end THEN 1 ELSE 0)
                /\ \A i \in 1 .. Len(p.dat) : PktItems(p)[i] = [port |-> port, item |-> p.dat[i]]
                /\ end => PktItems(p)[Len(p.dat) + 1] = [port |-> port, item |-> DON]
  <1> DEFINE port == IF p.tok = "SETUP" THEN "ctl" ELSE "out"
             end  == Len(p.dat) < MaxPkt \/ p.tok = "SETUP"
             s    == p.dat \o (IF end THEN <<DON>> ELSE <<>>)
  <1>1. p.dat \in Seq(Item) /\ DON \in Item /\ port \in {"ctl", "out"} /\ end \in BOOLEAN
    BY DEF Packet, Item
  <1>0. s = p.dat \o (IF end THEN <<DON>> ELSE <<>>)
    OBVIOUS
  <1> HIDE DEF port, end, s
  <1>2. PICK d \in Seq(Item) : d = p.dat
    BY <1>1
  <1>3. /\ s \in Seq(Item)
        /\ Len(s) = Len(d) + (IF end THEN 1 ELSE 0)
        /\ \A i \in 1 .. Len(d) : s[i] = d[i]
        /\ end => s[Len(d) + 1] = DON
    <2>1. CASE end
      <3>1. s = d \o <<DON>>
        BY <1>2, <1>0, <2>1
      <3> QED BY <2>1, <3>1, AppendMark
    <2>2. CASE ~end
      <3>1. s = d \o <<>>
        BY <1>2, <1>0, <2>2
      <3>2. s = d /\ Len(d) \in Nat
        BY <3>1, AppendMark
      <3> QED BY <2>2, <3>2
    <2> QED BY <1>1, <2>1, <2>2
  <1>4. PktItems(p) = [i \in DOMAIN s |-> [port |-> port, item |-> s[i]]]
    BY DEF PktItems, port, end, s
  <1>5. DOMAIN s = 1 .. Len(s) /\ Len(s) \in Nat /\ Len(d) \in Nat
    BY <1>3
  <1>6. \A i \in 1 .. Len(s) : s[i] \in Item
    BY <1>3
  <1>7. \A i \in 1 .. Len(s) : [port |-> port, item |-> s[i]] \in Delivery
    BY <1>1, <1>6 DEF Delivery
  <1>8. PktItems(p) \in Seq(Delivery) /\ Len(PktItems(p)) = Len(s)
    BY <1>4, <1>5, <1>7
  <1>9. \A i \in 1 .. Len(s) : PktItems(p)[i] = [port |-> port, item |-> s[i]]
    BY <1>4, <1>5
  <1>10. /\ \A i \in 1 .. Len(d) : i \in 1 .. Len(s)
         /\ end => Len(d) + 1 \in 1 .. Len(s)
    BY <1>3, <1>5
  <1> QED BY <1>2, <1>3, <1>8, <1>9, <1>10 DEF port, end

\* A token starts a transaction.
LEMMA TokStepType ==
  ASSUME TypeOK, NEW pid \in Pids, NEW e \in EP, SendTok(pid, e),
         NEW st \in HostStates, h' = [st |-> st, ep |-> e],
         st \in {"out", "pld", "hsk"} => More(e),
         UNCHANGED <<todo, offered, hTglInp, hTglOut, hPing, oIdx, sent, rcv, nSilent>>
  PROVE  TypeOK'
  <1>1. /\ PktTypeOK' /\ env' \in Scenario /\ nLost' \in Nat
        /\ env'.outPkts = env.outPkts /\ tokDat' \in EP \union {NoPkt}
    BY SendTokType
  <1>2. h' \in [st : HostStates, ep : EP] /\ h'.st = st /\ h'.ep = e
    OBVIOUS
  <1>3. More(e) => More(e)'
    BY <1>1 DEF More
  <1>4. h'.st \in {"out", "pld", "hsk"} => More(h.ep)'
    BY <1>2, <1>3 DEF More
  <1>5. BusTypeOK
    BY TypeParts
  <1>6. BusTypeOK'
    BY <1>1, <1>2, <1>4, <1>5 DEF BusTypeOK
  <1> QED BY <1>1, <1>6 DEF TypeOK, BusTypeOK

LEMMA HostTokType ==
  ASSUME TypeOK, NEW e \in EP, HostIn(e) \/ HostPing(e) \/ HostOut(e)
  PROVE  TypeOK'
  <1>1. "IN" \in Pids /\ "PING" \in Pids /\ {"inp", "ping", "out"} \subseteq HostStates
    BY DEF Pids, TokPids, HostStates
  <1>2. CASE HostIn(e)
    BY <1>1, <1>2, TokStepType DEF HostIn
  <1>3. CASE HostPing(e)
    BY <1>1, <1>3, TokStepType DEF HostPing
  <1>4. CASE HostOut(e)
    <2>1. More(e)
      BY <1>4 DEF HostOut
    <2>2. OutPkt(e).tok \in Pids
      BY <2>1, OutPktType DEF Packet, Pids, TokPids
    <2>3. /\ SendTok(OutPkt(e).tok, e) /\ h' = [st |-> "out", ep |-> e]
          /\ UNCHANGED <<todo, offered, hTglInp, hTglOut, hPing, oIdx, sent, rcv, nSilent>>
      BY <1>4 DEF HostOut
    <2> QED BY <1>1, <2>1, <2>2, <2>3, TokStepType
  <1> QED BY <1>2, <1>3, <1>4

LEMMA HostDataType ==
  ASSUME TypeOK, HostData
  PROVE  TypeOK'
  <1>1. h.ep \in EP /\ h \in [st : HostStates, ep : EP] /\ wire \in TxPacket
    BY DEF TypeOK, PktTypeOK, HostData
  <1>2. PktTypeOK'
    BY DEF HostData, TypeOK, PktTypeOK, epVars
  <1>3. env' \in Scenario /\ nLost' \in Nat /\ env'.outPkts = env.outPkts
    <2>1. "dat" \in FaultKinds
      BY DEF FaultKinds
    <2> QED BY <2>1, LoseType DEF HostData, faultVars, TypeOK
  <1>4. rcv' \in [EP -> Seq(Item)]
    <2>1. Received(h.ep, wire.dat) \in Seq(Item)
      <3>1. wire.dat \in Seq(Item)
        BY <1>1 DEF TxPacket, Item
      <3>2. <<DON>> \in Seq(Item) /\ <<>> \in Seq(Item)
        BY DEF Item
      <3> QED BY <3>1, <3>2 DEF Received
    <2>2. rcv' = rcv \/ rcv' = [rcv EXCEPT ![h.ep] = @ \o Received(h.ep, wire.dat)]
      BY DEF HostData
    <2>3. rcv \in [EP -> Seq(Item)]
      BY DEF TypeOK
    <2>4. rcv[h.ep] \o Received(h.ep, wire.dat) \in Seq(Item)
      BY <1>1, <2>1, <2>3
    <2> QED BY <1>1, <2>2, <2>3, <2>4
  <1>5. hTglInp' \in [EP -> {0, 1}]
    <2>1. hTglInp' = hTglInp \/ hTglInp' = [hTglInp EXCEPT ![h.ep] = 1 - @]
      BY DEF HostData
    <2>2. hTglInp \in [EP -> {0, 1}]
      BY DEF TypeOK
    <2> QED BY <1>1, <2>1, <2>2
  <1>6. h' \in [st : HostStates, ep : EP] /\ h'.st \in {"ack", "idle"}
    BY <1>1 DEF HostData, HostStates
  <1> QED BY <1>2, <1>3, <1>4, <1>5, <1>6 DEF HostData, TypeOK

LEMMA HostAckType ==
  ASSUME TypeOK, HostAck \/ HostInRefused
  PROVE  TypeOK'
  <1>1. h \in [st : HostStates, ep : EP] /\ tokDat \in EP \union {NoPkt} /\ PktTypeOK
    BY DEF TypeOK
  <1>2. h' \in [st : HostStates, ep : EP] /\ h'.st = "idle"
    BY <1>1 DEF HostAck, HostInRefused, HostStates
  <1>3. PktTypeOK' /\ env' \in Scenario /\ nLost' \in Nat /\ env'.outPkts = env.outPkts
    <2>1. CASE HostAck
      <3>1. "ack" \in FaultKinds /\ "ACK" \in Pids
        BY DEF FaultKinds, Pids, HskPids
      <3>2. CASE RxHdr(Hdr("ACK", tokDat)) /\ UNCHANGED faultVars
        BY <1>1, <3>1, <3>2, HdrType, RxHdrType DEF faultVars, TypeOK
      <3>3. CASE Lose("ack") /\ UNCHANGED pktVars
        <4>1. PktTypeOK'
          BY <1>1, <3>3 DEF PktTypeOK, pktVars
        <4> QED BY <3>1, <3>3, <4>1, LoseType
      <3> QED BY <2>1, <3>2, <3>3 DEF HostAck
    <2>2. CASE HostInRefused
      BY <2>2 DEF HostInRefused, TypeOK, PktTypeOK, epVars, faultVars
    <2> QED BY <2>1, <2>2
  <1> QED BY <1>2, <1>3 DEF HostAck, HostInRefused, TypeOK

LEMMA HostOutPidType ==
  ASSUME TypeOK, HostOutPid
  PROVE  TypeOK'
  <1>1. /\ h \in [st : HostStates, ep : EP] /\ tokDat \in EP \union {NoPkt}
        /\ PktTypeOK /\ More(h.ep) /\ hTglOut[h.ep] \in {0, 1}
    BY DEF TypeOK, HostOutPid
  <1>2. OutPid(h.ep) \in Pids
    BY <1>1, PidTypes DEF OutPid, DatPids
  <1>3. PktTypeOK' /\ env' \in Scenario /\ nLost' \in Nat /\ env'.outPkts = env.outPkts
    <2>1. CASE RxHdr(Hdr(OutPid(h.ep), tokDat)) /\ UNCHANGED faultVars
      BY <1>1, <1>2, <2>1, HdrType, RxHdrType DEF faultVars, TypeOK
    <2>2. CASE Lose("pid") /\ UNCHANGED pktVars
      <3>1. PktTypeOK' /\ "pid" \in FaultKinds
        BY <1>1, <2>2 DEF PktTypeOK, pktVars, FaultKinds
      <3> QED BY <2>2, <3>1, LoseType
    <2> QED BY <2>1, <2>2 DEF HostOutPid
  <1>4. h' \in [st : HostStates, ep : EP] /\ h'.ep = h.ep
    BY <1>1 DEF HostOutPid, HostStates
  <1> QED BY <1>1, <1>3, <1>4 DEF HostOutPid, TypeOK, More

LEMMA HostOutPayloadType ==
  ASSUME TypeOK, HostOutPayload
  PROVE  TypeOK'
  <1>1. h \in [st : HostStates, ep : EP] /\ PktTypeOK /\ More(h.ep) /\ env \in Scenario
    BY DEF TypeOK, HostOutPayload
  <1>2. OutPkt(h.ep) \in Packet
    BY <1>1, OutPktType
  <1>3. OutPkt(h.ep).dat \in Seq(Byte) /\ Damaged(OutPkt(h.ep).dat) \in Seq(Byte)
    BY <1>2 DEF Packet, Damaged, Byte
  <1>4. PktTypeOK' /\ env' \in Scenario /\ nLost' \in Nat /\ env'.outPkts = env.outPkts
    <2>1. CASE RxData(OutPkt(h.ep).dat, FALSE) /\ UNCHANGED faultVars
      BY <1>1, <1>3, <2>1, RxDataType DEF faultVars, TypeOK
    <2>2. CASE RxData(Damaged(OutPkt(h.ep).dat), TRUE) /\ Lose("crc")
      <3>1. "crc" \in FaultKinds
        BY DEF FaultKinds
      <3> QED BY <1>1, <1>3, <2>2, <3>1, RxDataType, LoseType
    <2>3. CASE UNCHANGED <<pktVars, faultVars>>
      BY <1>1, <2>3 DEF PktTypeOK, pktVars, faultVars, TypeOK
    <2> QED BY <2>1, <2>2, <2>3 DEF HostOutPayload
  <1>5. h' \in [st : HostStates, ep : EP] /\ h'.ep = h.ep
    BY <1>1 DEF HostOutPayload, HostStates
  <1> QED BY <1>1, <1>4, <1>5 DEF HostOutPayload, TypeOK, More

LEMMA HostHskType ==
  ASSUME TypeOK, HostHsk \/ HostSilence \/ HostSof
  PROVE  TypeOK'
  <1>1. h \in [st : HostStates, ep : EP] /\ PktTypeOK /\ tokDat \in EP \union {NoPkt}
    BY DEF TypeOK
  <1>2. CASE HostHsk
    <2>1. h' \in [st : HostStates, ep : EP] /\ h'.st = "idle"
      BY <1>1, <1>2 DEF HostHsk, HostStates
    <2>2. PktTypeOK'
      BY <1>1, <1>2 DEF HostHsk, PktTypeOK, epVars
    <2>3. env' \in Scenario /\ nLost' \in Nat
      <3>1. "hsk" \in FaultKinds
        BY DEF FaultKinds
      <3> QED BY <1>2, <3>1, LoseType DEF HostHsk, faultVars, TypeOK
    <2>4. /\ oIdx' \in [EP -> Nat] /\ sent' \in [EP -> Seq(Delivery)]
          /\ hTglOut' \in [EP -> {0, 1}] /\ hTglInp' \in [EP -> {0, 1}]
      <3>1. CASE h.st = "hsk" /\ Accepted(h.ep)
        <4>1. /\ oIdx \in [EP -> Nat] /\ h.ep \in EP
              /\ hTglOut \in [EP -> {0, 1}] /\ hTglInp \in [EP -> {0, 1}]
          BY <1>1 DEF TypeOK
        <4>2. /\ oIdx[h.ep] + 1 \in Nat
              /\ 1 - hTglOut[h.ep] \in {0, 1}
          BY <4>1
        <4>3. oIdx' = [oIdx EXCEPT ![h.ep] = @ + 1]
          BY <3>1 DEF Accepted
        <4>4. \E x, y \in {0, 1} : /\ hTglOut' = [hTglOut EXCEPT ![h.ep] = x]
                                  /\ hTglInp' = [hTglInp EXCEPT ![h.ep] = y]
          <5>1. CASE OutPkt(h.ep).tok = "SETUP"
            BY <3>1, <5>1 DEF Accepted
          <5>2. CASE OutPkt(h.ep).tok # "SETUP"
            <6>1. /\ hTglOut' = [hTglOut EXCEPT ![h.ep] = 1 - hTglOut[h.ep]]
                  /\ hTglInp' = [hTglInp EXCEPT ![h.ep] = hTglInp[h.ep]]
              BY <3>1, <5>2 DEF Accepted
            <6> QED BY <4>1, <4>2, <6>1
          <5> QED BY <5>1, <5>2
        <4>5. sent' \in [EP -> Seq(Delivery)]
          <5>1. More(h.ep)
            BY <3>1 DEF TypeOK
          <5>2. PktItems(OutPkt(h.ep)) \in Seq(Delivery)
            BY <4>1, <5>1, OutPktType, PktItemsType
          <5>3. sent \in [EP -> Seq(Delivery)]
            BY DEF TypeOK
          <5>4. sent[h.ep] \o PktItems(OutPkt(h.ep)) \in Seq(Delivery)
            BY <4>1, <5>2, <5>3
          <5>5. sent' = [sent EXCEPT ![h.ep] = sent[h.ep] \o PktItems(OutPkt(h.ep))]
            BY <3>1 DEF Accepted
          <5> QED BY <4>1, <5>3, <5>4, <5>5
        <4>6. oIdx' \in [EP -> Nat]
          <5>1. oIdx \in [EP -> Nat]
            BY DEF TypeOK
          <5> QED BY <4>1, <4>3, <5>1
        <4>7. hTglOut' \in [EP -> {0, 1}] /\ hTglInp' \in [EP -> {0, 1}]
          BY <4>1, <4>4
        <4> QED BY <4>5, <4>6, <4>7
      <3>2. CASE UNCHANGED <<oIdx, sent, hTglOut, hTglInp>>
        BY <3>2 DEF TypeOK
      <3> QED BY <1>2, <3>1, <3>2 DEF HostHsk
    <2>5. hPing' \subseteq EP
      BY <1>1, <1>2 DEF HostHsk, TypeOK
    <2> QED BY <1>2, <2>1, <2>2, <2>3, <2>4, <2>5 DEF HostHsk, TypeOK
  <1>3. CASE HostSilence
    <2>1. h' \in [st : HostStates, ep : EP] /\ h'.st = "idle"
      BY <1>1, <1>3 DEF HostSilence, HostStates
    <2>2. nSilent' \in Nat
      <3>1. nSilent \in Nat
        BY DEF TypeOK
      <3>2. nSilent' = IF nSilent <= nLost THEN nSilent + 1 ELSE nSilent
        BY <1>3 DEF HostSilence
      <3> QED BY <3>1, <3>2
    <2>3. PktTypeOK'
      BY <1>1, <1>3 DEF HostSilence, PktTypeOK, pktVars
    <2> QED BY <1>3, <2>1, <2>2, <2>3 DEF HostSilence, TypeOK, faultVars
  <1>4. CASE HostSof
    <2>1. PktTypeOK'
      <3>1. "SOF" \in Pids
        BY DEF Pids, TokPids
      <3> QED BY <1>1, <1>4, <3>1, HdrType, RxHdrType DEF HostSof
    <2> QED BY <1>4, <2>1 DEF HostSof, TypeOK, faultVars, hostVars, More
  <1> QED BY <1>2, <1>3, <1>4

LEMMA InitType == Init => TypeOK
  <1> SUFFICES ASSUME Init PROVE TypeOK
    OBVIOUS
  <1>1. RInit \in RegType
    BY PidTypes DEF RInit, RegType, States, Pids, TokPids, HskPids, Cnt, Idx
  <1>2. RdInit \in BufReaderType
    BY DEF RdInit, BufReaderType, Idx, Byte, Cnt
  <1>3. [i \in Idx |-> DatWord(0)] \in [Idx -> Words]
    BY DEF DatWord, Words, Pids, TokPids, Byte
  <1>4. PktTypeOK
    BY <1>1, <1>2, <1>3 DEF Init, PktInit, PktTypeOK
  <1>5. env \in Scenario /\ todo \in [EP -> Seq(Seq(Item))]
    BY DEF Init, Scenario
  <1> QED BY <1>4, <1>5 DEF Init, TypeOK, HostStates

LEMMA TypeStep == TypeOK /\ [Next]_vars => TypeOK'
  <1> SUFFICES ASSUME TypeOK, [Next]_vars PROVE TypeOK'
    OBVIOUS
  <1>1. CASE \E e \in EP : EpOffer(e) \/ EpReady(e)
    BY <1>1, EndpointType
  <1>2. CASE EngineStep \/ PhyAbort \/ EngineTimeout
    BY <1>2, EngineType
  <1>3. CASE \E e \in EP : Halt("inp", e) \/ Halt("out", e)
    BY <1>3, HaltStepType
  <1>4. CASE \E e \in EP : HostIn(e) \/ HostPing(e) \/ HostOut(e)
    BY <1>4, HostTokType
  <1>5. CASE HostData \/ HostAck \/ HostInRefused
    BY <1>5, HostDataType, HostAckType
  <1>6. CASE HostOutPid \/ HostOutPayload \/ HostHsk \/ HostSilence \/ HostSof
    BY <1>6, HostOutPidType, HostOutPayloadType, HostHskType
  <1>7. CASE UNCHANGED vars
    BY <1>7 DEF vars, pktVars, busVars, TypeOK, PktTypeOK, More
  <1> QED BY <1>1, <1>2, <1>3, <1>4, <1>5, <1>6, <1>7 DEF Next

\* Registers, buffer, streams and the host's transaction state keep their
\* types: no index or counter leaves its range, whatever is lost or aborted.
THEOREM TypeCorrect == Spec => []TypeOK
  BY InitType, TypeStep, PTL DEF Spec
-----------------------------------------------------------------------------
(* The discipline of the packet buffer and of the PIDs: one lemma for each *)
(* group of engine actions.                                                *)
EngineInv == BufferInv /\ PidInv

LEMMA IdleInv ==
  ASSUME TypeOK, EngineInv, NEW p \in RxHeader, Idle(p), wire' = wire
  PROVE  EngineInv'
  <1>1. r \in RegType /\ p.ep \in EP /\ p.pid \in Pids
    BY DEF TypeOK, PktTypeOK, RxHeader
  <1>2. DatPid(r.dataTglInp[p.ep]) \in DatPids
    BY <1>1, PidTypes DEF RegType
  <1>3. CASE r' = r
    BY <1>3 DEF EngineInv, BufferInv, PidInv, Phase, BufBusy
  <1>4. CASE IdlePing(p) \/ IdleInpRefuse(p)
    <2>1. /\ r'.state = "WAIT_TX" /\ r'.nxtState = "HSK" /\ r'.pid \in HskPids
          /\ r'.bufInpVld = r.bufInpVld /\ r'.bufInpPart = r.bufInpPart
      <3>1. {"ACK", "NAK", "STALL"} \subseteq HskPids
        BY DEF HskPids
      <3>2. PICK v \in {TokRegs(p), InpRegs(p)}, q \in {"ACK", "NAK", "STALL"} :
              r' = RespondHsk(v, q)
        BY <1>4 DEF IdlePing, IdleInpRefuse
      <3>3. v \in RegType
        BY <1>1, TokRegsType
      <3>4. v.bufInpVld = r.bufInpVld /\ v.bufInpPart = r.bufInpPart
        BY <1>1 DEF TokRegs, InpRegs, RegType
      <3> QED BY <3>1, <3>2, <3>3, <3>4 DEF RespondHsk, RegType
    <2> QED BY <2>1 DEF EngineInv, BufferInv, PidInv, Phase, BufBusy, InpStates
  <1>5. CASE IdleInpReplay(p) \/ IdleInpZlp(p) \/ IdleInpFresh(p)
    <2>1. /\ r'.state = "WAIT_TX" /\ r'.pid = DatPid(r.dataTglInp[p.ep])
          /\ r'.bufInpPart = r.bufInpPart
          /\ \/ r'.nxtState \in {"WAIT_DON", "DATA_REP"} /\ r'.bufInpVld = r.bufInpVld /\ BufBusy
             \/ r'.nxtState = "WAIT_DON" /\ r'.bufInpVld = TRUE /\ ~BufBusy
             \/ r'.nxtState = "DATA_INP" /\ r'.bufInpVld = r.bufInpVld /\ ~BufBusy
      <3>1. /\ SendRegs(p) \in RegType /\ SendRegs(p).state = "WAIT_TX"
            /\ SendRegs(p).pid = DatPid(r.dataTglInp[p.ep])
            /\ SendRegs(p).bufInpVld = r.bufInpVld /\ SendRegs(p).bufInpPart = r.bufInpPart
        BY <1>1, TokRegsType DEF SendRegs, InpRegs, TokRegs, RegType
      <3>2. CASE IdleInpReplay(p)
        BY <3>1, <3>2 DEF IdleInpReplay, RegType
      <3>3. CASE IdleInpZlp(p)
        BY <3>1, <3>3 DEF IdleInpZlp, RegType
      <3>4. CASE IdleInpFresh(p)
        BY <3>1, <3>4 DEF IdleInpFresh, RegType
      <3> QED BY <1>5, <3>2, <3>3, <3>4
    <2> QED BY <1>2, <2>1 DEF EngineInv, BufferInv, PidInv, Phase, BufBusy, InpStates
  <1>6. CASE IdleOut(p)
    <2>1. /\ r'.state = "DATA_PID"
          /\ r'.bufInpVld = r.bufInpVld /\ r'.bufInpPart = r.bufInpPart
      BY <1>1, <1>6 DEF IdleOut, TokRegs, RegType
    <2> QED BY <2>1 DEF EngineInv, BufferInv, PidInv, Phase, BufBusy, InpStates
  <1> QED BY <1>3, <1>4, <1>5, <1>6 DEF Idle

LEMMA DataPidInv ==
  ASSUME TypeOK, EngineInv, NEW p \in RxHeader, DataPid(p), wire' = wire
  PROVE  EngineInv'
  <1>1. r \in RegType /\ r.state = "DATA_PID"
    BY DEF TypeOK, PktTypeOK, DataPid
  <1>2. CASE DataPidDrain(p)
    <2>1. /\ r'.state = "DRAIN" /\ r'.pid \in HskPids
          /\ r'.bufInpVld = r.bufInpVld /\ r'.bufInpPart = r.bufInpPart
      BY <1>1, <1>2 DEF DataPidDrain, DataPidRefusal, RegType, HskPids
    <2> QED BY <2>1 DEF EngineInv, BufferInv, PidInv, Phase, BufBusy, InpStates
  <1>3. CASE DataPidStore(p)
    <2>1. /\ r'.state = "DATA_OUT" /\ r'.pid \in HskPids /\ r'.tok = r.tok
          /\ r'.bufInpVld = r.bufInpVld /\ r'.bufInpPart = r.bufInpPart
      BY <1>1, <1>3 DEF DataPidStore, RegType, HskPids
    <2>2. BufBusy => r.tok = "SETUP"
      BY <1>3 DEF DataPidStore, DataPidRefusal
    <2> QED BY <2>1, <2>2 DEF EngineInv, BufferInv, PidInv, Phase, BufBusy, InpStates
  <1>4. CASE DataPidOther(p)
    <2>1. /\ r'.state = "IDLE"
          /\ r'.bufInpVld = r.bufInpVld /\ r'.bufInpPart = r.bufInpPart
      BY <1>1, <1>4 DEF DataPidOther, RegType
    <2> QED BY <2>1 DEF EngineInv, BufferInv, PidInv, Phase, BufBusy, InpStates
  <1> QED BY <1>2, <1>3, <1>4 DEF DataPid

\* Back to IDLE: nothing is required of the buffer but that it does not hold a
\* complete and an incomplete packet.
LEMMA ToIdleInv ==
  ASSUME EngineInv, r'.state = "IDLE", ~(r'.bufInpVld /\ r'.bufInpPart), wire' = wire
  PROVE  EngineInv'
  BY DEF EngineInv, BufferInv, PidInv, Phase, BufBusy, InpStates

LEMMA WaitAckInv ==
  ASSUME TypeOK, EngineInv, NEW p \in RxHeader,
         WaitAck(p) \/ WaitAckTimeout \/ DataPidTimeout \/ IdleRetryTimeout, wire' = wire
  PROVE  EngineInv'
  <1>1. r \in RegType /\ ~(r.bufInpVld /\ r.bufInpPart)
    BY DEF TypeOK, PktTypeOK, EngineInv, BufferInv
  <1>2. r'.state = "IDLE" /\ ~(r'.bufInpVld /\ r'.bufInpPart)
    <2>1. CASE WaitAck(p)
      BY <1>1, <2>1 DEF WaitAck, invalidateBuffer, SaveBuffer, RegType
    <2>2. CASE WaitAckTimeout
      BY <1>1, <2>2 DEF WaitAckTimeout, SaveBuffer, RegType
    <2>3. CASE DataPidTimeout
      BY <1>1, <2>3 DEF DataPidTimeout, RegType
    <2>4. CASE IdleRetryTimeout
      BY <1>1, <2>4 DEF IdleRetryTimeout, invalidateBuffer, RegType
    <2> QED BY <2>1, <2>2, <2>3, <2>4
  <1> QED BY <1>2, ToIdleInv

LEMMA RxHdrInv ==
  ASSUME TypeOK, EngineInv, NEW p \in RxHeader, RxHdr(p)
  PROVE  EngineInv'
  BY IdleInv, DataPidInv, WaitAckInv DEF RxHdr

LEMMA RxDataInv ==
  ASSUME TypeOK, EngineInv, NEW s \in Seq(Byte), NEW err \in BOOLEAN, RxData(s, err)
  PROVE  EngineInv'
  <1>1. r \in RegType /\ r.state \in {"DATA_OUT", "DRAIN"} /\ wire' = wire
    BY DEF TypeOK, PktTypeOK, RxData
  <1>2. /\ r'.pid = r.pid /\ r'.bufInpVld = r.bufInpVld /\ r'.bufInpPart = r.bufInpPart
        /\ r'.state = "IDLE" \/ (r'.state = "WAIT_TX" /\ r'.nxtState = "HSK")
    BY <1>1 DEF RxData, RegType
  <1>3. r.pid \in HskPids
    BY <1>1 DEF EngineInv, PidInv, Phase
  <1> QED BY <1>1, <1>2, <1>3 DEF EngineInv, BufferInv, PidInv, Phase, BufBusy, InpStates

LEMMA SendInv ==
  ASSUME TypeOK, EngineInv, WaitTx \/ Hsk \/ WaitDonTx \/ WaitDonNext \/ WaitDonAbort \/ WaitFs
  PROVE  EngineInv'
  <1>1. r \in RegType
    BY DEF TypeOK, PktTypeOK
  <1>2. CASE WaitTx
    <2>1. /\ r.state = "WAIT_TX" /\ r' = [r EXCEPT !.state = r.nxtState] /\ wire' = wire
      BY <1>2 DEF WaitTx
    <2>2. r'.state = r.nxtState /\ r'.nxtState = r.nxtState
      BY <1>1, <2>1 DEF RegType
    <2>3. Phase = r.nxtState /\ Phase' = r.nxtState
      BY <2>1, <2>2 DEF Phase
    <2>4. /\ r'.pid = r.pid /\ r'.tok = r.tok /\ r'.bufInpVld = r.bufInpVld
          /\ r'.bufInpPart = r.bufInpPart
      BY <1>1, <2>1 DEF RegType
    <2> QED BY <2>1, <2>3, <2>4 DEF EngineInv, BufferInv, PidInv, BufBusy
  <1>3. CASE Hsk
    <2>1. r.pid \in HskPids
      BY <1>3 DEF Hsk, EngineInv, PidInv, Phase
    <2>2. HskPid \in HskPids /\ wire' = [pid |-> HskPid, dat |-> <<>>]
      BY <1>3, <2>1 DEF Hsk, HskPid, HskPids
    <2>3. /\ r'.state = "IDLE"
          /\ r'.bufInpVld = r.bufInpVld /\ r'.bufInpPart = r.bufInpPart
      BY <1>1, <1>3 DEF Hsk, RegType
    <2> QED BY <2>2, <2>3 DEF EngineInv, BufferInv, PidInv, Phase, BufBusy, InpStates
  <1>4. CASE WaitDonTx
    <2>1. /\ r.state = "WAIT_DON" /\ wire' = [pid |-> r.pid, dat |-> tx]
          /\ r'.state = r.state /\ r'.pid = r.pid
          /\ r'.bufInpVld = r.bufInpVld /\ r'.bufInpPart = r.bufInpPart
      BY <1>1, <1>4 DEF WaitDonTx, RegType
    <2> QED BY <2>1 DEF EngineInv, BufferInv, PidInv, Phase, BufBusy, InpStates
  <1>5. CASE WaitDonNext \/ WaitFs
    <2>1. /\ r.state \in InpStates \ {"DATA_INP"} /\ r'.state \in InpStates \ {"DATA_INP"}
          /\ r'.pid = r.pid /\ wire' = wire
          /\ r'.bufInpVld = r.bufInpVld /\ r'.bufInpPart = r.bufInpPart
      BY <1>1, <1>5 DEF WaitDonNext, WaitFs, RegType, InpStates
    <2> QED BY <2>1 DEF EngineInv, BufferInv, PidInv, Phase, BufBusy, InpStates
  <1>6. CASE WaitDonAbort
    <2>1. /\ r'.state = "IDLE" /\ wire' = wire
          /\ r'.bufInpVld = r.bufInpVld /\ r'.bufInpPart = r.bufInpPart
      BY <1>1, <1>6 DEF WaitDonAbort, SaveBuffer, RegType
    <2>2. ~(r.bufInpVld /\ r.bufInpPart)
      BY DEF EngineInv, BufferInv
    <2> QED BY <2>1, <2>2, ToIdleInv
  <1> QED BY <1>2, <1>3, <1>4, <1>5, <1>6

LEMMA DataInpInv ==
  ASSUME TypeOK, EngineInv, DataInpByte \/ DataInpDry \/ DataInpDon \/ DataInpAbort
  PROVE  EngineInv'
  <1>1. r \in RegType /\ r.state = "DATA_INP"
    BY DEF TypeOK, PktTypeOK, DataInpByte, DataInpDry, DataInpDon, DataInpAbort
  <1>2. ~r.bufInpVld /\ r.pid \in DatPids
    BY <1>1 DEF EngineInv, BufferInv, PidInv, Phase, InpStates
  <1>3. CASE DataInpByte
    <2>1. /\ r'.pid = r.pid /\ wire' = wire
          /\ \/ r'.state = "DATA_INP" /\ ~r'.bufInpVld
             \/ r'.state = "WAIT_DON" /\ r'.bufInpVld /\ ~r'.bufInpPart
      BY <1>1, <1>2, <1>3 DEF DataInpByte, DataInpRegs, RegType
    <2> QED BY <1>2, <2>1 DEF EngineInv, BufferInv, PidInv, Phase, BufBusy, InpStates
  <1>4. CASE DataInpDry \/ DataInpDon
    <2>1. /\ \E f \in BOOLEAN : r' = PacketComplete(DataInpRegs, f)
          /\ wire' = wire \/ wire' = [pid |-> r.pid, dat |-> tx]
      BY <1>4 DEF DataInpDry, DataInpDon
    <2>2. DataInpRegs \in RegType /\ DataInpRegs.pid = r.pid
      BY <1>1, DataInpRegsType DEF DataInpRegs, RegType
    <2>3. /\ r'.state = "WAIT_DON" /\ r'.bufInpVld /\ ~r'.bufInpPart /\ r'.pid = r.pid
      BY <2>1, <2>2 DEF PacketComplete, RegType
    <2> QED BY <1>2, <2>1, <2>3 DEF EngineInv, BufferInv, PidInv, Phase, BufBusy, InpStates
  <1>5. CASE DataInpAbort
    <2>1. /\ r'.state = "IDLE" /\ r'.bufInpVld = r.bufInpVld /\ wire' = wire
      BY <1>1, <1>5 DEF DataInpAbort, SaveBuffer, DataInpRegs, RegType
    <2> QED BY <1>2, <2>1, ToIdleInv
  <1> QED BY <1>3, <1>4, <1>5

LEMMA DataRepInv ==
  ASSUME TypeOK, EngineInv, DataRepByte \/ DataRepAbort
  PROVE  EngineInv'
  <1>1. r \in RegType /\ r.state = "DATA_REP" /\ wire' = wire
    BY DEF TypeOK, PktTypeOK, DataRepByte, DataRepAbort
  <1>2. BufBusy /\ ~(r.bufInpVld /\ r.bufInpPart) /\ r.pid \in DatPids
    BY <1>1 DEF EngineInv, BufferInv, PidInv, Phase, InpStates
  <1>3. CASE DataRepByte
    <2>1. /\ r'.pid = r.pid /\ r'.bufInpVld = r.bufInpVld /\ r'.bufInpPart = r.bufInpPart
          /\ \/ r'.state \in {"DATA_REP", "WAIT_DON"}
             \/ r'.state = "DATA_INP" /\ r.bufInpPart
      BY <1>1, <1>3 DEF DataRepByte, RegType
    <2> QED BY <1>1, <1>2, <2>1 DEF EngineInv, BufferInv, PidInv, Phase, BufBusy, InpStates
  <1>4. CASE DataRepAbort
    <2>1. /\ r'.state = "IDLE"
          /\ r'.bufInpVld = r.bufInpVld /\ r'.bufInpPart = r.bufInpPart
      BY <1>1, <1>4 DEF DataRepAbort, RegType
    <2> QED BY <1>1, <1>2, <2>1, ToIdleInv
  <1> QED BY <1>3, <1>4

\* The registers the invariants are about stay; the wire may be cleared.
LEMMA KeepInv ==
  ASSUME EngineInv, wire' \in {wire, NoPkt},
         r'.state = r.state, r'.nxtState = r.nxtState, r'.pid = r.pid, r'.tok = r.tok,
         r'.bufInpVld = r.bufInpVld, r'.bufInpPart = r.bufInpPart
  PROVE  EngineInv'
  BY DEF EngineInv, BufferInv, PidInv, Phase, BufBusy

LEMMA HaltInv ==
  ASSUME TypeOK, EngineInv, NEW dir \in {"inp", "out"}, NEW e \in EP, Halt(dir, e)
  PROVE  EngineInv'
  <1>1. r \in RegType
    BY DEF TypeOK, PktTypeOK
  <1>2. /\ wire' = wire
        /\ r' \in {r, [r EXCEPT !.dataTglInp[e] = 0], [r EXCEPT !.dataTglOut[e] = 0]}
    BY DEF Halt, SetHalt, ClearHalt
  <1> QED BY <1>1, <1>2, KeepInv DEF RegType

LEMMA EngineInvStep == TypeOK /\ EngineInv /\ [Next]_vars => EngineInv'
  <1> SUFFICES ASSUME TypeOK, EngineInv, [Next]_vars PROVE EngineInv'
    OBVIOUS
  <1>1. tokDat \in EP \union {NoPkt} /\ h \in [st : HostStates, ep : EP]
    BY DEF TypeOK
  <1> DEFINE Keep == r' = r /\ wire' \in {wire, NoPkt}
  <1>2. CASE Keep
    BY <1>2, KeepInv
  <1>3. CASE \E p \in RxHeader : RxHdr(p)
    BY <1>3, RxHdrInv
  <1>4. CASE \E s \in Seq(Byte), err \in BOOLEAN : RxData(s, err)
    BY <1>4, RxDataInv
  <1>5. CASE EngineStep \/ PhyAbort \/ EngineTimeout
    <2>1. Reader => Keep
      BY DEF Reader
    <2>2. \A p \in RxHeader :
            (WaitAckTimeout \/ DataPidTimeout \/ IdleRetryTimeout) /\ wire' = wire => EngineInv'
      BY WaitAckInv
    <2>3. Hdr("SOF", tokDat) \in RxHeader
      BY <1>1, HdrType DEF Pids, TokPids
    <2>4. WaitAckTimeout \/ DataPidTimeout \/ IdleRetryTimeout => wire' = wire
      BY DEF WaitAckTimeout, DataPidTimeout, IdleRetryTimeout
    <2> QED BY <1>2, <1>5, <2>1, <2>2, <2>3, <2>4, SendInv, DataInpInv, DataRepInv
            DEF EngineStep, PhyAbort, EngineTimeout
  <1>6. CASE \E e \in EP : Halt("inp", e) \/ Halt("out", e)
    BY <1>6, HaltInv
  <1>7. CASE \E e \in EP : EpOffer(e) \/ EpReady(e)
    BY <1>2, <1>7 DEF EpOffer, EpReady
  <1>8. CASE \E e \in EP : HostIn(e) \/ HostPing(e) \/ HostOut(e)
    <2>1. \A e \in EP, pid \in Pids : SendTok(pid, e) =>
                                        Keep \/ \E p \in RxHeader : RxHdr(p)
      BY HdrType DEF SendTok, pktVars
    <2>2. "IN" \in Pids /\ "PING" \in Pids
      BY DEF Pids, TokPids
    <2>3. \A e \in EP : HostOut(e) => OutPkt(e).tok \in Pids
      <3> SUFFICES ASSUME NEW e \in EP, HostOut(e) PROVE OutPkt(e).tok \in Pids
        OBVIOUS
      <3>1. OutPkt(e) \in Packet
        BY OutPktType DEF HostOut
      <3> QED BY <3>1 DEF Packet, Pids, TokPids
    <2> QED BY <1>2, <1>3, <1>8, <2>1, <2>2, <2>3 DEF HostIn, HostPing, HostOut
  <1>9. CASE HostData \/ HostInRefused \/ HostHsk \/ HostSilence \/ UNCHANGED vars
    BY <1>2, <1>9 DEF HostData, HostInRefused, HostHsk, HostSilence, vars, pktVars
  <1>10. CASE HostAck \/ HostSof
    <2>1. "ACK" \in Pids /\ "SOF" \in Pids
      BY DEF Pids, TokPids, HskPids
    <2> QED BY <1>1, <1>2, <1>3, <1>10, <2>1, HdrType DEF HostAck, HostSof, pktVars
  <1>11. CASE HostOutPid
    <2>1. OutPid(h.ep) \in Pids
      BY <1>1, PidTypes DEF OutPid, TypeOK, DatPids
    <2> QED BY <1>1, <1>2, <1>3, <1>11, <2>1, HdrType DEF HostOutPid, pktVars
  <1>12. CASE HostOutPayload
    <2>1. h.ep \in EP /\ h.st = "pld"
      BY <1>1, <1>12 DEF HostOutPayload
    <2>2. More(h.ep)
      BY <2>1 DEF TypeOK
    <2>3. OutPkt(h.ep) \in Packet
      BY <2>1, <2>2, OutPktType
    <2>4. OutPkt(h.ep).dat \in Seq(Byte) /\ Damaged(OutPkt(h.ep).dat) \in Seq(Byte)
      BY <2>3 DEF Packet, Damaged, Byte
    <2> QED BY <1>2, <1>4, <1>12, <2>4 DEF HostOutPayload, pktVars
  <1> QED BY <1>5, <1>6, <1>7, <1>8, <1>9, <1>10, <1>11, <1>12 DEF Next

LEMMA EngineInvInit == Init => EngineInv
  BY DEF Init, PktInit, RInit, EngineInv, BufferInv, PidInv, Phase, BufBusy, InpStates

LEMMA EngineSafe == Spec => []EngineInv
  BY TypeCorrect, EngineInvInit, EngineInvStep, PTL DEF Spec

\* The single buffer of Usb2PktProc is never used for two things at once.
THEOREM BufferSafe == Spec => []BufferInv
  <1>1. EngineInv => BufferInv
    BY DEF EngineInv
  <1> QED BY <1>1, EngineSafe, PTL

\* The engine sends data packets and handshakes, each with a PID of its kind.
THEOREM PidSafe == Spec => []PidInv
  <1>1. EngineInv => PidInv
    BY DEF EngineInv
  <1> QED BY <1>1, EngineSafe, PTL
-----------------------------------------------------------------------------
(* Every transaction is answered, but for the faults.                      *)
\* What is lost and what the host sends is fixed.
LEMMA EnvStep ==
  ASSUME TypeOK, [Next]_vars
  PROVE  env'.lose = env.lose /\ env'.outPkts = env.outPkts
  <1>1. env \in Scenario
    BY DEF TypeOK
  <1>2. \/ env' = env
        \/ \E n : env' = [env EXCEPT !.faults = n]
        \/ \E n : env' = [env EXCEPT !.aborts = n]
        \/ \E n : env' = [env EXCEPT !.halts = n]
    <2>1. CASE EngineStep \/ EngineTimeout \/ UNCHANGED vars
      BY <2>1 DEF EngineStep, EngineTimeout, vars, busVars
    <2>2. CASE PhyAbort
      BY <2>2 DEF PhyAbort
    <2>3. CASE \E e \in EP : EpOffer(e) \/ EpReady(e)
      BY <2>3 DEF EpOffer, EpReady, faultVars, busVars
    <2>4. CASE \E e \in EP : Halt("inp", e) \/ Halt("out", e)
      BY <2>4 DEF Halt
    <2>5. CASE \E e \in EP : HostIn(e) \/ HostPing(e) \/ HostOut(e)
      BY <2>5 DEF HostIn, HostPing, HostOut, SendTok, Lose, faultVars
    <2>6. CASE HostData \/ HostAck \/ HostInRefused \/ HostOutPid \/ HostOutPayload
               \/ HostHsk \/ HostSilence \/ HostSof
      BY <2>6 DEF HostData, HostAck, HostInRefused, HostOutPid, HostOutPayload, HostHsk,
                  HostSilence, HostSof, Lose, faultVars
    <2> QED BY <2>1, <2>2, <2>3, <2>4, <2>5, <2>6 DEF Next
  <1> QED BY <1>1, <1>2 DEF Scenario

\* The answer of IDLE to a packet it takes for a token.
LEMMA IdleAnswers ==
  ASSUME TypeOK, NEW p \in RxHeader, Idle(p)
  PROVE  /\ ~checkTokHdr(p) => r' = r
         /\ (checkTokHdr(p) /\ p.pid = "IN") => Phase' = "HSK" \/ Sending'
         /\ (checkTokHdr(p) /\ p.pid = "PING") => Phase' = "HSK"
         /\ (checkTokHdr(p) /\ p.pid \notin {"IN", "PING"}) => r'.state = "DATA_PID"
         /\ r'.pid = "NYET" => r.pid = "NYET"
  <1>1. r \in RegType /\ p.ep \in EP /\ p.pid \in Pids
    BY DEF TypeOK, PktTypeOK, RxHeader
  <1>2. CASE ~checkTokHdr(p)
    BY <1>2 DEF Idle
  <1>3. CASE checkTokHdr(p) /\ (IdlePing(p) \/ IdleInpRefuse(p))
    <2>1. r'.state = "WAIT_TX" /\ r'.nxtState = "HSK" /\ r'.pid # "NYET"
      <3>1. PICK v \in {TokRegs(p), InpRegs(p)}, q \in {"ACK", "NAK", "STALL"} :
              r' = RespondHsk(v, q)
        BY <1>3 DEF IdlePing, IdleInpRefuse
      <3>2. v \in RegType
        BY <1>1, TokRegsType
      <3> QED BY <3>1, <3>2 DEF RespondHsk, RegType
    <2>2. p.pid \in {"IN", "PING"}
      BY <1>3 DEF IdlePing, IdleInpRefuse
    <2> QED BY <1>3, <2>1, <2>2 DEF Phase
  <1>4. CASE checkTokHdr(p) /\ (IdleInpReplay(p) \/ IdleInpZlp(p) \/ IdleInpFresh(p))
    <2>1. SendRegs(p) \in RegType /\ SendRegs(p).state = "WAIT_TX" /\ SendRegs(p).pid \in DatPids
      BY <1>1, TokRegsType, PidTypes DEF SendRegs, InpRegs, TokRegs, RegType
    <2>2. /\ r'.state = "WAIT_TX" /\ r'.pid \in DatPids
          /\ r'.nxtState \in {"DATA_INP", "DATA_REP"} \/ (r'.nxtState = "WAIT_DON" /\ r'.donFlg)
      <3>1. CASE IdleInpReplay(p)
        BY <2>1, <3>1 DEF IdleInpReplay, RegType
      <3>2. CASE IdleInpZlp(p)
        BY <2>1, <3>2 DEF IdleInpZlp, RegType
      <3>3. CASE IdleInpFresh(p)
        BY <2>1, <3>3 DEF IdleInpFresh, RegType
      <3> QED BY <1>4, <3>1, <3>2, <3>3
    <2>3. p.pid = "IN"
      BY <1>4 DEF IdleInpReplay, IdleInpZlp, IdleInpFresh, InpAccepted
    <2> QED BY <1>4, <2>2, <2>3 DEF Sending, Phase, DatPids
  <1>5. CASE checkTokHdr(p) /\ IdleOut(p)
    <2>1. r'.state = "DATA_PID" /\ r'.pid = r.pid
      BY <1>1, <1>5 DEF IdleOut, TokRegs, RegType
    <2> QED BY <1>5, <2>1 DEF IdleOut
  <1> QED BY <1>2, <1>3, <1>4, <1>5 DEF Idle

\* What AnswerInv says of the registers, for a step that leaves them alone.
LEMMA AnswerStays ==
  ASSUME AnswerInv, env'.lose = env.lose, env'.outPkts = env.outPkts,
         r'.state = r.state, r'.nxtState = r.nxtState, r'.donFlg = r.donFlg, r'.pid = r.pid,
         UNCHANGED <<wire, h, hPing, nLost, nSilent>>
  PROVE  AnswerInv'
  BY DEF AnswerInv, Answerable, NoOut, Answering, Answered, Unanswered, Resting, Talking,
         Waiting, Even, Owed, Sending, Sent, Phase

LEMMA CountTypes == TypeOK => nSilent \in Nat /\ nLost \in Nat
  BY DEF TypeOK

\* What may happen around the engine stays, and so does what follows from it.
LEMMA AnswerEnv ==
  ASSUME AnswerInv, env'.lose = env.lose, env'.outPkts = env.outPkts
  PROVE  Answerable(env') /\ (NoOut(env') <=> NoOut(env))
  BY DEF AnswerInv, Answerable, NoOut

\* The engine sends: an answer that is prepared reaches the wire.
LEMMA AnswerSent ==
  ASSUME TypeOK, EngineInv, AnswerInv, UNCHANGED <<env, h, hPing, nLost, nSilent>>,
         WaitTx \/ Hsk \/ WaitDonTx \/ WaitDonNext \/ WaitFs
  PROVE  AnswerInv'
  <1>1. r \in RegType /\ tx \in Seq(Byte)
    BY DEF TypeOK, PktTypeOK
  <1>2. CASE WaitTx
    <2>1. /\ r.state = "WAIT_TX" /\ r'.state = r.nxtState /\ r'.nxtState = r.nxtState
          /\ r'.donFlg = r.donFlg /\ r'.pid = r.pid /\ wire' = wire
      BY <1>1, <1>2 DEF WaitTx, RegType
    <2>2. r.nxtState # "WAIT_TX" => Phase' = Phase
      BY <2>1 DEF Phase
    <2> QED BY <2>1, <2>2 DEF AnswerInv, Answerable, NoOut, Answering, Answered, Unanswered,
                               Resting, Talking, Waiting, Even, Owed, Sending, Sent, Phase
  <1>3. CASE Hsk
    <2>1. /\ r.state = "HSK" /\ r'.state = "IDLE" /\ r'.pid = HskPid
          /\ wire' = [pid |-> HskPid, dat |-> <<>>]
      BY <1>1, <1>3 DEF Hsk, RegType
    <2>2. r.pid \in HskPids
      BY <2>1 DEF EngineInv, PidInv, Phase
    <2>3. HskPid \in HskPids /\ (HskPid = "NYET" => (HiSpeed \/ r.pid = "NYET"))
      BY <2>2 DEF HskPid, HskPids
    <2>4. wire' # NoPkt /\ wire'.pid = HskPid /\ HskPid \notin DatPids
      <3>1. HskPid \in Pids /\ HskPid \notin DatPids
        BY <2>3, PidTypes
      <3>2. wire' \in TxPacket
        BY <2>1, <3>1 DEF TxPacket
      <3> QED BY <2>1, <3>1, <3>2, WireAssumption
    <2>5. Answering
      BY <2>1 DEF AnswerInv, Answered, Unanswered, Resting, Talking, Sent, Phase
    <2>6. Answered'
      BY <2>1, <2>4, <2>5 DEF Answering, Answered, Waiting, Even
    <2> QED BY <2>1, <2>3, <2>4, <2>6 DEF AnswerInv, Answerable, NoOut
  <1>4. CASE WaitDonTx
    <2>1. /\ r.state = "WAIT_DON" /\ r.donFlg /\ r'.state = "WAIT_DON" /\ ~r'.donFlg
          /\ r'.pid = r.pid /\ wire' = [pid |-> r.pid, dat |-> tx]
      BY <1>1, <1>4 DEF WaitDonTx, RegType
    <2>2. r.pid \in DatPids
      BY <2>1 DEF EngineInv, PidInv, Phase, InpStates
    <2>3. wire' # NoPkt /\ wire'.pid = r.pid
      BY <1>1, <2>1, <2>2, WireAssumption, PidTypes DEF TxPacket
    <2>4. Answering /\ h.st = "inp"
      BY <2>1 DEF AnswerInv, Answering, Answered, Unanswered, Resting, Talking, Sent, Phase
    <2>5. Answered'
      BY <2>1, <2>2, <2>3, <2>4 DEF Answering, Answered, Waiting, Even, Sent, Phase
    <2> QED BY <2>1, <2>2, <2>3, <2>5 DEF AnswerInv, Answerable, NoOut, DatPids
  <1>5. CASE WaitDonNext \/ WaitFs
    <2>1. Sent /\ r.state # "IDLE" /\ Sent' /\ r'.pid = r.pid /\ wire' = wire
      BY <1>1, <1>5 DEF WaitDonNext, WaitFs, RegType, Sent, Phase
    <2>2. Answered \/ Unanswered \/ (Talking /\ h.st = "ack")
      BY <2>1 DEF AnswerInv, Answering, Resting, Talking, Sending, Sent, Phase
    <2>3. Answered' \/ Unanswered' \/ Talking'
      BY <2>1, <2>2 DEF Answered, Unanswered, Talking, Waiting, Even, Owed, NoOut
    <2>4. wire = NoPkt \/ Answered
      BY <2>1 DEF AnswerInv, Answering, Resting, Sending, Sent, Phase
    <2> QED BY <2>1, <2>2, <2>3, <2>4 DEF AnswerInv, Answerable, NoOut, Answered, Waiting, Even
  <1> QED BY <1>2, <1>3, <1>4, <1>5

\* The data phase of an IN transaction goes on, or the packet is out.
LEMMA AnswerData ==
  ASSUME TypeOK, EngineInv, AnswerInv, UNCHANGED <<env, h, hPing, nLost, nSilent>>,
         DataInpByte \/ DataInpDry \/ DataInpDon \/ DataRepByte
  PROVE  AnswerInv'
  <1>1. r \in RegType /\ tx \in Seq(Byte) /\ r.state \in {"DATA_INP", "DATA_REP"}
    BY DEF TypeOK, PktTypeOK, DataInpByte, DataInpDry, DataInpDon, DataRepByte
  <1>2. r.pid \in DatPids
    BY <1>1 DEF EngineInv, PidInv, Phase, InpStates
  <1>3. Answering /\ h.st = "inp"
    BY <1>1 DEF AnswerInv, Answering, Answered, Unanswered, Resting, Talking, Sent, Phase
  <1>4. DataInpRegs \in RegType /\ DataInpRegs.pid = r.pid
    BY <1>1, DataInpRegsType DEF DataInpRegs, RegType
  <1>5. /\ r'.pid = r.pid
        /\ \/ wire' = wire /\ r'.state \in {"DATA_INP", "DATA_REP"}
           \/ wire' = wire /\ r'.state = "WAIT_DON" /\ r'.donFlg
           \/ wire' = [pid |-> r.pid, dat |-> tx] /\ r'.state = "WAIT_DON" /\ ~r'.donFlg
    <2>1. CASE DataInpByte
      <3>1. r'.pid = r.pid /\ wire' = wire
        BY <1>1, <2>1 DEF DataInpByte, DataInpRegs, RegType
      <3>2. r'.state = "DATA_INP" \/ (r'.state = "WAIT_DON" /\ r'.donFlg)
        BY <1>1, <2>1 DEF DataInpByte, DataInpRegs, RegType
      <3> QED BY <3>1, <3>2
    <2>2. CASE DataInpDry \/ DataInpDon
      <3>1. \E g \in BOOLEAN : /\ r' = PacketComplete(DataInpRegs, g)
                              /\ \/ g /\ wire' = wire
                                 \/ ~g /\ wire' = [pid |-> r.pid, dat |-> tx]
        BY <2>2 DEF DataInpDry, DataInpDon
      <3>2. \A g \in BOOLEAN : /\ PacketComplete(DataInpRegs, g).pid = r.pid
                              /\ PacketComplete(DataInpRegs, g).state = "WAIT_DON"
                              /\ PacketComplete(DataInpRegs, g).donFlg = g
        BY <1>4 DEF PacketComplete, RegType
      <3> QED BY <3>1, <3>2
    <2>3. CASE DataRepByte
      BY <1>1, <2>3 DEF DataRepByte, RegType
    <2> QED BY <2>1, <2>2, <2>3
  <1>6. wire' = [pid |-> r.pid, dat |-> tx] => wire' # NoPkt /\ wire'.pid = r.pid
    BY <1>1, <1>2, WireAssumption, PidTypes DEF TxPacket
  <1>7. Answering' \/ Answered'
    BY <1>2, <1>3, <1>5, <1>6 DEF Answering, Answered, Waiting, Even, Sending, Sent, Phase
  <1>8. r.pid # "NYET"
    BY <1>2 DEF DatPids
  <1> QED BY <1>3, <1>5, <1>6, <1>7, <1>8 DEF AnswerInv, Answerable, NoOut, Answering

\* An abort by the PHY costs the answer.
LEMMA AnswerAborted ==
  ASSUME TypeOK, EngineInv, AnswerInv, PhyAbort,
         env'.lose = env.lose, env'.outPkts = env.outPkts
  PROVE  AnswerInv'
  <1>1. r \in RegType
    BY DEF TypeOK, PktTypeOK
  <1>2. Sending /\ ~Sent /\ Phase # "HSK" /\ r.state \notin {"IDLE", "DATA_PID", "DATA_OUT", "DRAIN"}
    BY DEF PhyAbort, DataInpAbort, DataRepAbort, WaitDonAbort, Sending, Sent, Phase
  <1>3. Answering /\ h.st = "inp"
    BY <1>2 DEF AnswerInv, Answering, Answered, Unanswered, Resting, Talking
  <1>4. r'.state = "IDLE" /\ r'.pid = r.pid
    <2>1. DataInpAbort => r'.state = "IDLE" /\ r'.pid = r.pid
      BY <1>1 DEF DataInpAbort, SaveBuffer, DataInpRegs, RegType
    <2>2. DataRepAbort \/ WaitDonAbort => r'.state = "IDLE" /\ r'.pid = r.pid
      BY <1>1 DEF DataRepAbort, WaitDonAbort, SaveBuffer, RegType
    <2> QED BY <2>1, <2>2 DEF PhyAbort
  <1>5. UNCHANGED <<wire, h, hPing, nSilent>>
    BY DEF PhyAbort, DataInpAbort, DataRepAbort, WaitDonAbort, hostVars
  <1>6. nSilent \in Nat /\ nLost \in Nat /\ nLost' = nLost + 1
    BY CountTypes DEF PhyAbort
  <1>7. Unanswered'
    BY <1>3, <1>4, <1>5, <1>6 DEF Answering, Unanswered, Even, Owed
  <1> QED BY <1>3, <1>4, <1>5, <1>7, AnswerEnv DEF AnswerInv, Answering

\* A timer that runs out does so only while nobody waits for an answer.
LEMMA AnswerTimeout ==
  ASSUME TypeOK, AnswerInv, EngineTimeout
  PROVE  AnswerInv'
  <1>1. r \in RegType /\ wire = NoPkt
    BY DEF TypeOK, PktTypeOK, EngineTimeout
  <1>2. /\ r'.state = "IDLE" /\ r'.pid = r.pid /\ wire' = wire
        /\ \/ r.state = "WAIT_ACK" /\ h.st # "ack"
           \/ r.state = "DATA_PID" /\ h.st # "out"
    BY <1>1 DEF EngineTimeout, WaitAckTimeout, DataPidTimeout, SaveBuffer, RegType
  <1>3. Unanswered
    BY <1>1, <1>2 DEF AnswerInv, Answering, Answered, Resting, Talking, Sending, Sent, Phase
  <1> QED BY <1>1, <1>2, <1>3 DEF EngineTimeout, busVars, AnswerInv, Answerable, NoOut,
                                   Unanswered, Owed

\* Steps of the endpoints and the reader, and the end of the time for retries.
LEMMA AnswerOther ==
  ASSUME TypeOK, AnswerInv, env'.lose = env.lose, env'.outPkts = env.outPkts,
         \/ \E e \in EP : EpOffer(e) \/ EpReady(e)
         \/ \E e \in EP : Halt("inp", e) \/ Halt("out", e)
         \/ (IdleRetryTimeout \/ Reader) /\ UNCHANGED busVars
         \/ UNCHANGED vars
  PROVE  AnswerInv'
  <1>1. r \in RegType
    BY DEF TypeOK, PktTypeOK
  <1> DEFINE Same == /\ r'.state = r.state /\ r'.nxtState = r.nxtState
                     /\ r'.donFlg = r.donFlg /\ r'.pid = r.pid
                     /\ UNCHANGED <<wire, h, hPing, nLost, nSilent>>
  <1>2. ASSUME \/ \E e \in EP : EpOffer(e) \/ EpReady(e)
               \/ Reader /\ UNCHANGED busVars
               \/ UNCHANGED vars
        PROVE  Same
    BY <1>2 DEF EpOffer, EpReady, Reader, faultVars, hostVars, busVars, vars, pktVars, Same
  <1>3. ASSUME \E e \in EP : Halt("inp", e) \/ Halt("out", e)
        PROVE  Same
    <2>1. UNCHANGED <<wire, h, hPing, nLost, nSilent>>
      BY <1>3 DEF Halt, SetHalt, ClearHalt
    <2>2. \/ r' = r
          \/ \E e \in EP : r' \in {[r EXCEPT !.dataTglInp[e] = 0], [r EXCEPT !.dataTglOut[e] = 0]}
      BY <1>3 DEF Halt, SetHalt, ClearHalt
    <2> QED BY <1>1, <2>1, <2>2 DEF RegType, Same
  <1>4. ASSUME IdleRetryTimeout /\ UNCHANGED busVars
        PROVE  Same
    BY <1>1, <1>4 DEF IdleRetryTimeout, invalidateBuffer, RegType, busVars, Same
  <1>5. Same
    <2> HIDE DEF Same
    <2> QED BY <1>2, <1>3, <1>4
  <1> QED BY <1>5, AnswerStays DEF Same
-----------------------------------------------------------------------------
(* The host's part.                                                        *)
\* A loss costs at most the next answer, and hits an OUT transaction only in
\* its handshake.
LEMMA LossCost ==
  ASSUME TypeOK, AnswerInv, NEW k, Lose(k)
  PROVE  /\ nLost' = nLost + 1 /\ nLost \in Nat /\ nSilent \in Nat
         /\ k # "hsk" => NoOut(env)
  BY CountTypes DEF Lose, AnswerInv, Answerable

LEMMA MoreOut ==
  ASSUME TypeOK, NEW e \in EP, More(e)
  PROVE  ~NoOut(env)
  <1>1. oIdx[e] \in Nat
    BY DEF TypeOK
  <1>2. env.outPkts[e] # <<>>
    BY <1>1 DEF More
  <1> QED BY <1>2 DEF NoOut

\* Between transactions.
LEMMA HostRests ==
  ASSUME TypeOK, AnswerInv, h.st = "idle"
  PROVE  /\ wire = NoPkt /\ Even
         /\ r.state = "IDLE" \/ (Sent /\ NoOut(env) /\ Owed)
  <1>1. nSilent \in Nat /\ nLost \in Nat
    BY CountTypes
  <1> QED BY <1>1 DEF AnswerInv, Answering, Answered, Unanswered, Resting, Talking, Waiting,
                      Even, Owed

LEMMA AckEnds ==
  ASSUME TypeOK, NEW p, WaitAck(p)
  PROVE  r'.state = "IDLE" /\ r'.pid = r.pid
  BY DEF TypeOK, PktTypeOK, WaitAck, invalidateBuffer, SaveBuffer, RegType

LEMMA OwnToken ==
  ASSUME NEW e \in EP, NEW pid \in Pids
  PROVE  /\ Hdr(pid, e) \in RxHeader /\ Hdr(pid, e).pid = pid /\ Hdr(pid, e).ep = e
         /\ Hdr(pid, e).mine
  BY DEF Hdr, RxHeader

LEMMA AnswerIn ==
  ASSUME TypeOK, AnswerInv, NEW e \in EP, HostIn(e),
         env'.lose = env.lose, env'.outPkts = env.outPkts
  PROVE  AnswerInv'
  <1>1. /\ h.st = "idle" /\ wire = NoPkt /\ Even
        /\ r.state = "IDLE" \/ (Sent /\ NoOut(env) /\ Owed)
        /\ r.state \in {"IDLE", "DATA_PID", "WAIT_ACK"}
    BY HostRests DEF HostIn, CanRx
  <1>2. UNCHANGED <<wire, hPing, nSilent>> /\ h'.st = "inp"
    BY DEF HostIn, SendTok, RxHdr, pktVars
  <1>3. CASE RxHdr(Hdr("IN", e)) /\ UNCHANGED faultVars
    <2>1. /\ "IN" \in Pids /\ nLost' = nLost
      BY <1>3 DEF Pids, TokPids, faultVars
    <2> DEFINE p == Hdr("IN", e)
    <2>2. p \in RxHeader /\ checkTokHdr(p) /\ p.pid = "IN"
      BY <2>1, OwnToken DEF checkTokHdr
    <2>3. CASE r.state = "IDLE"
      <3>1. Idle(p)
        BY <1>3, <2>3 DEF RxHdr, DataPid, WaitAck
      <3>2. (Phase' = "HSK" \/ Sending') /\ (r'.pid = "NYET" => r.pid = "NYET")
        BY <2>2, <3>1, IdleAnswers
      <3>3. Answering'
        BY <1>1, <1>2, <2>1, <3>2 DEF Answering, Waiting, Even
      <3> QED BY <1>1, <1>2, <3>2, <3>3, AnswerEnv DEF AnswerInv
    <2>4. CASE r.state = "WAIT_ACK" /\ Sent /\ NoOut(env) /\ Owed
      <3>1. r'.state = "IDLE" /\ r'.pid = r.pid
        BY <1>3, <2>4, AckEnds DEF RxHdr, Idle, DataPid
      <3>2. Unanswered'
        BY <1>2, <2>1, <2>4, <3>1 DEF Unanswered, Owed
      <3> QED BY <1>1, <1>2, <3>1, <3>2, AnswerEnv DEF AnswerInv
    <2> QED BY <1>1, <2>3, <2>4 DEF Sent, Phase
  <1>4. CASE Lose("tok") /\ UNCHANGED pktVars
    <2>1. nLost' = nLost + 1 /\ nLost \in Nat /\ nSilent \in Nat /\ r' = r
      BY <1>4, LossCost DEF pktVars
    <2>2. Owed' /\ (NoOut(env)' <=> NoOut(env)) /\ (Sent' <=> Sent)
      BY <1>1, <1>2, <2>1, AnswerEnv DEF Even, Owed, Sent, Phase
    <2>3. Unanswered'
      BY <1>1, <1>2, <2>1, <2>2 DEF Unanswered
    <2> QED BY <1>1, <1>2, <2>1, <2>3, AnswerEnv DEF AnswerInv
  <1> QED BY <1>3, <1>4 DEF HostIn, SendTok

LEMMA AnswerOutTok ==
  ASSUME TypeOK, AnswerInv, NEW e \in EP, HostPing(e) \/ HostOut(e),
         env'.lose = env.lose, env'.outPkts = env.outPkts
  PROVE  AnswerInv'
  <1>1. h.st = "idle" /\ More(e) /\ CanRx
    BY DEF HostPing, HostOut
  <1>2. ~NoOut(env) /\ wire = NoPkt /\ Even /\ r.state = "IDLE"
    BY <1>1, MoreOut, HostRests
  <1>3. OutPkt(e).tok \in {"OUT", "SETUP"} /\ (OutPkt(e).tok = "SETUP" => e \in Control)
    <2>1. OutPkt(e) \in Packet
      BY <1>1, OutPktType
    <2>2. \E i \in DOMAIN env.outPkts[e] : OutPkt(e) = env.outPkts[e][i]
      <3>1. oIdx[e] \in Nat /\ env.outPkts[e] \in Seq(Packet)
        BY DEF TypeOK, Scenario
      <3>2. oIdx[e] + 1 \in DOMAIN env.outPkts[e]
        BY <1>1, <3>1 DEF More
      <3> QED BY <3>2 DEF OutPkt
    <2> QED BY <2>1, <2>2 DEF Packet, AnswerInv, Answerable
  <1>4. PICK pid \in {"PING", "OUT", "SETUP"} :
          /\ SendTok(pid, e)
          /\ \/ pid = "PING" /\ HostPing(e)
             \/ pid = OutPkt(e).tok /\ HostOut(e)
    BY <1>3 DEF HostPing, HostOut
  <1>5. RxHdr(Hdr(pid, e)) /\ UNCHANGED faultVars
    BY <1>2, <1>4, LossCost DEF SendTok
  <1>6. UNCHANGED <<wire, hPing, nSilent, nLost>>
    BY <1>5 DEF HostPing, HostOut, RxHdr, faultVars
  <1> DEFINE p == Hdr(pid, e)
  <1>7. p \in RxHeader /\ p.pid = pid /\ p.ep = e /\ p.mine
    BY OwnToken DEF Pids, TokPids
  <1>8. checkTokHdr(p)
    BY <1>3, <1>4, <1>7 DEF checkTokHdr, AnswerInv, HostPing
  <1>9. Idle(p)
    BY <1>2, <1>5 DEF RxHdr, DataPid, WaitAck
  <1>10. /\ pid = "PING" => Phase' = "HSK"
         /\ pid # "PING" => r'.state = "DATA_PID"
         /\ r'.pid = "NYET" => r.pid = "NYET"
    BY <1>7, <1>8, <1>9, IdleAnswers
  <1>11. CASE pid = "PING"
    <2>1. h'.st = "ping"
      BY <1>3, <1>4, <1>11 DEF HostPing
    <2>2. Answering'
      BY <1>2, <1>6, <1>10, <1>11, <2>1 DEF Answering, Waiting, Even
    <2> QED BY <1>2, <1>6, <1>10, <2>2, AnswerEnv DEF AnswerInv
  <1>12. CASE pid # "PING"
    <2>1. h'.st = "out"
      BY <1>4, <1>12 DEF HostOut
    <2>2. Talking'
      BY <1>2, <1>6, <1>10, <1>12, <2>1 DEF Talking, Even
    <2> QED BY <1>2, <1>6, <1>10, <2>2, AnswerEnv DEF AnswerInv
  <1> QED BY <1>11, <1>12

LEMMA AnswerOutData ==
  ASSUME TypeOK, EngineInv, AnswerInv, HostOutPid \/ HostOutPayload,
         env'.lose = env.lose, env'.outPkts = env.outPkts
  PROVE  AnswerInv'
  <1>1. /\ r \in RegType /\ h \in [st : HostStates, ep : EP]
        /\ tokDat \in EP \union {NoPkt} /\ hTglOut \in [EP -> {0, 1}]
    BY DEF TypeOK, PktTypeOK
  <1>2. h.st \in {"out", "pld"} /\ h.ep \in EP
    BY <1>1 DEF HostOutPid, HostOutPayload
  <1>3. More(h.ep) /\ ~NoOut(env)
    <2>1. More(h.ep)
      BY <1>2 DEF TypeOK
    <2> QED BY <1>2, <2>1, MoreOut
  <1>4. wire = NoPkt /\ Talking /\ Even
    BY <1>2 DEF AnswerInv, Answering, Answered, Unanswered, Resting, Talking, Waiting
  <1>5. \A k \in {"pid", "crc"} : ~Lose(k)
    BY <1>3, LossCost
  <1>6. CASE HostOutPid
    <2> DEFINE p == Hdr(OutPid(h.ep), tokDat)
    <2>1. RxHdr(p) /\ UNCHANGED faultVars /\ h'.st = "pld"
      BY <1>1, <1>5, <1>6 DEF HostOutPid
    <2>2. UNCHANGED <<wire, hPing, nSilent, nLost>>
      BY <1>6, <2>1 DEF HostOutPid, RxHdr, faultVars
    <2>3. h.st = "out" /\ r.state = "DATA_PID"
      BY <1>4, <1>6 DEF HostOutPid, Talking
    <2>4. p.pid \in DatPids
      <3>1. OutPid(h.ep) \in DatPids
        BY <1>1, <1>2, PidTypes DEF OutPid, DatPids
      <3> QED BY <3>1 DEF Hdr
    <2>5. DataPidDrain(p) \/ DataPidStore(p)
      BY <2>1, <2>3, <2>4 DEF RxHdr, Idle, WaitAck, DataPid, DataPidOther
    <2>6. r'.state \in {"DATA_OUT", "DRAIN"} /\ r'.pid # "NYET"
      <3>1. CASE DataPidDrain(p)
        <4>1. DataPidRefusal(p) # "NYET"
          BY DEF DataPidRefusal
        <4> QED BY <1>1, <3>1, <4>1 DEF DataPidDrain, RegType
      <3>2. CASE DataPidStore(p)
        BY <1>1, <3>2 DEF DataPidStore, RegType
      <3> QED BY <2>5, <3>1, <3>2
    <2>7. Talking'
      BY <1>4, <2>1, <2>2, <2>6 DEF Talking, Even
    <2> QED BY <1>3, <1>4, <2>1, <2>2, <2>6, <2>7, AnswerEnv DEF AnswerInv
  <1>7. CASE HostOutPayload
    <2>1. h.st = "pld" /\ r.state \in {"DATA_OUT", "DRAIN"} /\ h'.st = "hsk"
      BY <1>1, <1>4, <1>7 DEF HostOutPayload, Talking
    <2>2. RxData(OutPkt(h.ep).dat, FALSE) /\ UNCHANGED faultVars
      BY <1>5, <1>7, <2>1 DEF HostOutPayload
    <2>3. UNCHANGED <<wire, hPing, nSilent, nLost>>
      BY <1>7, <2>2 DEF HostOutPayload, RxData, faultVars
    <2>4. r'.state = "WAIT_TX" /\ r'.nxtState = "HSK" /\ r'.pid = r.pid
      BY <1>1, <2>2 DEF RxData, RegType
    <2>5. Answering'
      BY <1>4, <2>1, <2>3, <2>4 DEF Answering, Waiting, Even, Phase
    <2> QED BY <1>3, <1>4, <2>3, <2>4, <2>5, AnswerEnv DEF AnswerInv
  <1> QED BY <1>6, <1>7

LEMMA AnswerTaken ==
  ASSUME TypeOK, AnswerInv, HostHsk \/ HostInRefused \/ HostData,
         env'.lose = env.lose, env'.outPkts = env.outPkts
  PROVE  AnswerInv'
  <1>1. h \in [st : HostStates, ep : EP] /\ r' = r /\ wire # NoPkt /\ wire' = NoPkt
    BY DEF TypeOK, HostHsk, HostInRefused, HostData
  <1>2. /\ Answered /\ Even
        /\ IF wire.pid \in DatPids THEN h.st = "inp" /\ Sent ELSE r.state = "IDLE"
    BY <1>1 DEF AnswerInv, Answering, Answered
  <1>3. nSilent' = nSilent
    BY DEF HostHsk, HostInRefused, HostData
  <1>4. nSilent \in Nat /\ nLost \in Nat
    BY CountTypes
  <1>5. CASE HostHsk
    <2>1. h'.st = "idle" /\ r.state = "IDLE"
      BY <1>1, <1>2, <1>5 DEF HostHsk
    <2>2. nLost' = nLost \/ nLost' = nLost + 1
      BY <1>5 DEF HostHsk, Lose, faultVars
    <2>3. hPing' # {} => (hPing # {} \/ HiSpeed \/ wire.pid = "NYET")
      BY <1>5 DEF HostHsk
    <2>4. Resting'
      BY <1>1, <1>2, <1>3, <1>4, <2>1, <2>2 DEF Resting, Even
    <2> QED BY <1>1, <2>1, <2>3, <2>4, AnswerEnv DEF AnswerInv
  <1>6. CASE HostInRefused
    <2>1. h'.st = "idle" /\ r.state = "IDLE" /\ nLost' = nLost /\ hPing' = hPing
      BY <1>1, <1>2, <1>6, PidTypes DEF HostInRefused, faultVars
    <2>2. Resting'
      BY <1>1, <1>2, <1>3, <2>1 DEF Resting, Even
    <2> QED BY <1>1, <2>1, <2>2, AnswerEnv DEF AnswerInv
  <1>7. CASE HostData
    <2>1. h.st = "inp" /\ Sent /\ hPing' = hPing
      BY <1>2, <1>7 DEF HostData
    <2>2. Sent'
      BY <1>1, <2>1 DEF Sent, Phase
    <2>3. CASE h'.st = "ack" /\ UNCHANGED faultVars
      <3>1. Talking'
        BY <1>2, <1>3, <2>2, <2>3 DEF Talking, Even, faultVars
      <3> QED BY <1>1, <2>1, <2>3, <3>1, AnswerEnv DEF AnswerInv
    <2>4. CASE h'.st = "idle" /\ Lose("dat")
      <3>1. nLost' = nLost + 1 /\ NoOut(env')
        BY <2>4, LossCost, AnswerEnv
      <3>2. Unanswered'
        BY <1>2, <1>3, <1>4, <2>2, <2>4, <3>1 DEF Unanswered, Even, Owed
      <3> QED BY <1>1, <2>1, <2>4, <3>2, AnswerEnv DEF AnswerInv
    <2> QED BY <1>1, <1>7, <2>3, <2>4 DEF HostData
  <1> QED BY <1>5, <1>6, <1>7

LEMMA AnswerAck ==
  ASSUME TypeOK, AnswerInv, HostAck,
         env'.lose = env.lose, env'.outPkts = env.outPkts
  PROVE  AnswerInv'
  <1>1. /\ h \in [st : HostStates, ep : EP] /\ h.st = "ack" /\ wire = NoPkt /\ h'.st = "idle"
        /\ r.state \in {"IDLE", "DATA_PID", "WAIT_ACK"}
    BY DEF TypeOK, HostAck, CanRx
  <1>2. Talking /\ Sent /\ Even /\ r.state = "WAIT_ACK"
    BY <1>1 DEF AnswerInv, Answering, Answered, Unanswered, Resting, Talking, Waiting, Sent, Phase
  <1>3. UNCHANGED <<wire, hPing, nSilent>>
    BY DEF HostAck, RxHdr, pktVars
  <1>4. CASE RxHdr(Hdr("ACK", tokDat)) /\ UNCHANGED faultVars
    <2>1. r'.state = "IDLE" /\ r'.pid = r.pid
      BY <1>2, <1>4, AckEnds DEF RxHdr, Idle, DataPid
    <2>2. Resting'
      BY <1>1, <1>2, <1>3, <1>4, <2>1 DEF Resting, Even, faultVars
    <2> QED BY <1>1, <1>3, <2>1, <2>2, AnswerEnv DEF AnswerInv
  <1>5. CASE Lose("ack") /\ UNCHANGED pktVars
    <2>1. /\ nLost' = nLost + 1 /\ nLost \in Nat /\ nSilent \in Nat
          /\ NoOut(env') /\ r' = r
      BY <1>5, LossCost, AnswerEnv DEF pktVars
    <2>2. Sent' /\ Owed'
      BY <1>2, <1>3, <2>1 DEF Sent, Phase, Even, Owed
    <2>3. Unanswered'
      BY <1>1, <2>1, <2>2 DEF Unanswered
    <2> QED BY <1>1, <1>3, <2>1, <2>3, AnswerEnv DEF AnswerInv
  <1> QED BY <1>4, <1>5 DEF HostAck

\* The host gives up waiting only in a transaction that a fault has cost.
LEMMA AnswerSilence ==
  ASSUME TypeOK, AnswerInv, HostSilence,
         env'.lose = env.lose, env'.outPkts = env.outPkts
  PROVE  AnswerInv'
  <1>1. /\ h \in [st : HostStates, ep : EP] /\ h.st \in {"inp", "hsk", "ping"} /\ wire = NoPkt
        /\ r.state \in {"IDLE", "DATA_PID"} /\ h'.st = "idle"
        /\ nSilent' = nSilent \/ nSilent' = nSilent + 1
    BY DEF TypeOK, HostSilence
  <1>2. UNCHANGED <<wire, r, hPing, nLost>>
    BY DEF HostSilence, pktVars, faultVars
  <1>3. Unanswered /\ Owed /\ r.state = "IDLE"
    BY <1>1 DEF AnswerInv, Answering, Answered, Unanswered, Resting, Talking, Sending, Sent, Phase
  <1>4. nSilent \in Nat /\ nLost \in Nat
    BY CountTypes
  <1>5. Resting'
    BY <1>1, <1>2, <1>3, <1>4 DEF Resting, Even, Owed
  <1> QED BY <1>1, <1>2, <1>5, AnswerEnv DEF AnswerInv

LEMMA AnswerSof ==
  ASSUME TypeOK, AnswerInv, HostSof
  PROVE  AnswerInv'
  <1>1. /\ h.st = "idle" /\ wire = NoPkt /\ Even
        /\ r.state = "IDLE" \/ (Sent /\ NoOut(env) /\ Owed)
        /\ r.state \in {"IDLE", "DATA_PID", "WAIT_ACK"}
    BY HostRests DEF HostSof, CanRx
  <1>2. UNCHANGED <<wire, h, hPing, nSilent, nLost, env>>
    BY DEF HostSof, RxHdr, hostVars, faultVars
  <1> DEFINE p == Hdr("SOF", tokDat)
  <1>3. CASE r.state = "IDLE"
    <2>1. Idle(p)
      BY <1>3 DEF HostSof, RxHdr, DataPid, WaitAck
    <2>2. ~checkTokHdr(p)
      BY DEF checkTokHdr, Hdr
    <2>3. r' = r
      BY <2>1, <2>2 DEF Idle
    <2> QED BY <1>2, <2>3, AnswerStays
  <1>4. CASE r.state = "WAIT_ACK" /\ NoOut(env) /\ Owed
    <2>1. r'.state = "IDLE" /\ r'.pid = r.pid
      BY <1>4, AckEnds DEF HostSof, RxHdr, Idle, DataPid
    <2>2. Unanswered'
      BY <1>1, <1>2, <1>4, <2>1 DEF Unanswered, Owed
    <2> QED BY <1>1, <1>2, <2>1, <2>2, AnswerEnv DEF AnswerInv
  <1> QED BY <1>1, <1>3, <1>4 DEF Sent, Phase
-----------------------------------------------------------------------------
LEMMA AnswerStep == TypeOK /\ EngineInv /\ AnswerInv /\ [Next]_vars => AnswerInv'
  <1> SUFFICES ASSUME TypeOK, EngineInv, AnswerInv, [Next]_vars PROVE AnswerInv'
    OBVIOUS
  <1>1. env'.lose = env.lose /\ env'.outPkts = env.outPkts
    BY EnvStep
  <1>2. CASE EngineStep
    <2>1. UNCHANGED <<env, h, hPing, nLost, nSilent>> /\ UNCHANGED busVars
      BY <1>2 DEF EngineStep, busVars
    <2> QED BY <1>1, <1>2, <2>1, AnswerSent, AnswerData, AnswerOther DEF EngineStep
  <1>3. CASE PhyAbort \/ EngineTimeout
    BY <1>1, <1>3, AnswerAborted, AnswerTimeout
  <1>4. CASE \/ \E e \in EP : EpOffer(e) \/ EpReady(e)
             \/ \E e \in EP : Halt("inp", e) \/ Halt("out", e)
             \/ UNCHANGED vars
    BY <1>1, <1>4, AnswerOther
  <1>5. CASE \E e \in EP : HostIn(e) \/ HostPing(e) \/ HostOut(e)
    BY <1>1, <1>5, AnswerIn, AnswerOutTok
  <1>6. CASE HostOutPid \/ HostOutPayload
    BY <1>1, <1>6, AnswerOutData
  <1>7. CASE HostHsk \/ HostInRefused \/ HostData
    BY <1>1, <1>7, AnswerTaken
  <1>8. CASE HostAck \/ HostSilence \/ HostSof
    BY <1>1, <1>8, AnswerAck, AnswerSilence, AnswerSof
  <1> QED BY <1>2, <1>3, <1>4, <1>5, <1>6, <1>7, <1>8 DEF Next

LEMMA AnswerInit ==
  ASSUME \A s \in Scenarios : Answerable(s)
  PROVE  Init => AnswerInv
  <1> SUFFICES ASSUME Init PROVE AnswerInv
    OBVIOUS
  <1>1. /\ Answerable(env) /\ hPing = {} /\ wire = NoPkt /\ h.st = "idle"
        /\ nSilent = 0 /\ nLost = 0
    BY DEF Init, PktInit
  <1>2. r.pid = "ACK" /\ r.state = "IDLE"
    BY DEF Init, PktInit, RInit
  <1> QED BY <1>1, <1>2 DEF AnswerInv, Resting, Even

\* The engine leaves a transaction of the host without an answer only when it
\* lost a packet, or the PHY aborted one, that it has not accounted for yet:
\* one fault costs one retry at most.
THEOREM SilenceIsLossHolds ==
  ASSUME \A s \in Scenarios : Answerable(s)
  PROVE  Spec => []SilenceIsLoss
  <1>1. Init => TypeOK /\ EngineInv /\ AnswerInv
    BY InitType, EngineInvInit, AnswerInit
  <1>2. TypeOK /\ EngineInv /\ AnswerInv /\ [Next]_vars => (TypeOK /\ EngineInv /\ AnswerInv)'
    BY TypeStep, EngineInvStep, AnswerStep
  <1>3. TypeOK /\ AnswerInv => SilenceIsLoss
    <2> SUFFICES ASSUME TypeOK, AnswerInv PROVE SilenceIsLoss
      OBVIOUS
    <2>1. Even \/ Owed
      BY DEF AnswerInv, Answering, Answered, Unanswered, Resting, Talking
    <2> QED BY <2>1, CountTypes DEF SilenceIsLoss, Even, Owed
  <1> QED BY <1>1, <1>2, <1>3, PTL DEF Spec
=============================================================================

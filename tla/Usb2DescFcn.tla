---------------------------- MODULE Usb2DescFcn ----------------------------
(***************************************************************************)
(* The functions a device is composed of (Usb2Desc.py, from SingleCfgDevice *)
(* on): the descriptors each one adds to a context, from the settings of a  *)
(* YAML file.                                                               *)
(*                                                                          *)
(* A function yields the sequence of descriptors it creates, each with the  *)
(* strings it sets: [d |-> content, n |-> pairs of offset and string].      *)
(* Settings are a record of the keys present in the file.                   *)
(***************************************************************************)
EXTENDS Usb2Desc

LOCAL INSTANCE SequencesExt

\* yml.get(key, dflt)
get(yml, key, dflt) == IF key \in DOMAIN yml THEN yml[key] ELSE dflt

Plain(d) == [d |-> d, n |-> <<>>]
WithName(d, off, s) == [d |-> d, n |-> << <<off, s>> >>]
createAll(c, entries) == FoldLeft(LAMBDA e, x : create(e, x.d, x.n), c, entries)

Association(ifcNumber, class, yml) ==
  WithName(InterfaceAssociationDesc(ifcNumber, 2, class), 7, get(yml, "iFunction", <<>>))
ControlInterface(ifcNumber, class, yml) ==
  WithName(InterfaceDesc(ifcNumber, 0, class), 8, get(yml, "iInterfaceCtrl", <<>>))
DataInterface(ifcNumber, alt, class, yml) ==
  WithName(InterfaceDesc(ifcNumber, alt, class), 8, get(yml, "iInterfaceData", <<>>))
IN_ == 128
BulkPair(epAddr, sizes) ==
  <<Plain(EndpointDesc(IN_ + epAddr, 2, sizes[1], 0)), Plain(EndpointDesc(epAddr, 2, sizes[2], 0))>>
InterruptIn(epAddr, size, interval) == <<Plain(EndpointDesc(IN_ + epAddr, 3, size, interval))>>
-----------------------------------------------------------------------------
\* The sizes of IN and OUT packets: one that is not set is that of the other
\* direction, or the greatest of the speed.
getMaxPktSize(yml, hiSpeed) ==
  LET inp  == get(yml, "maxPktSizeIN", 0)
      out  == get(yml, "maxPktSizeOUT", 0)
      dflt == IF hiSpeed THEN 512 ELSE 64
  IN  CASE inp = 0 /\ out = 0 -> <<dflt, dflt>>
        [] inp = 0 /\ out # 0 -> <<out, out>>
        [] inp # 0 /\ out = 0 -> <<inp, inp>>
        [] OTHER              -> <<inp, out>>

SingleCfgDevice(idVendor, idDevice, remWake, bcdDevice) ==
  <<Plain(Set(DeviceDesc(<<0, 0, 0>>, 64, idVendor, idDevice, bcdDevice), 17, 1, 1)),
    Plain(ConfigurationDesc(IF remWake THEN 32 ELSE 0, 50))>>

\* Mutant: the notifications have the first endpoint pair.
MutAddBasicACM(yml, ifcNumber, epAddr, hiSpeed) ==
  <<Association(ifcNumber, <<2, 2, 0>>, yml),
    ControlInterface(ifcNumber, <<2, 2, 0>>, yml),
    Plain(ACMDesc(6))>>
  \o InterruptIn(epAddr, 8, 8)
  \o <<DataInterface(ifcNumber + 1, 0, <<10, 0, 0>>, yml)>>
  \o BulkPair(epAddr + 1, getMaxPktSize(yml, hiSpeed))

addBasicACM(yml, ifcNumber, epAddr, hiSpeed) ==
  LET sendBreak == get(yml, "haveSendBreak", TRUE)
      lineState == get(yml, "haveLineState", TRUE)
      interval  == CASE hiSpeed /\ lineState  -> 8
                     [] hiSpeed /\ ~lineState -> 16
                     [] ~hiSpeed /\ lineState -> 16
                     [] OTHER                 -> 255
  IN  <<Association(ifcNumber, <<2, 2, 0>>, yml),
        ControlInterface(ifcNumber, <<2, 2, 0>>, yml),
        Plain(CDCHeaderDesc),
        Plain(CallManagementDesc(0, ifcNumber + 1)),
        Plain(ACMDesc((IF sendBreak THEN 4 ELSE 0) + (IF lineState THEN 2 ELSE 0))),
        Plain(UnionDesc(ifcNumber, <<ifcNumber + 1>>))>>
      \o InterruptIn(epAddr + 1, 8, interval)
      \o <<DataInterface(ifcNumber + 1, 0, <<10, 0, 0>>, yml)>>
      \o BulkPair(epAddr, getMaxPktSize(yml, hiSpeed))
-----------------------------------------------------------------------------
(* Ethernet. *)

IsHexDigit(u) == u \in (48 .. 57) \cup (65 .. 70) \cup (97 .. 102)
HexValue(u) == CASE u <= 57 -> u - 48 [] u <= 70 -> u - 55 [] OTHER -> u - 87

\* Mutant: exactly the twelve digits.
MutCheckMAC(v) == Len(v) = 12 /\ \A k \in 1 .. 12 : IsHexDigit(v[k])

\* '$' also matches before a newline at the end.
checkMAC(v) ==
  /\ Len(v) = 12 \/ (Len(v) = 13 /\ v[13] = 10)
  /\ \A k \in 1 .. 12 : IsHexDigit(v[k])
  /\ \E k \in 1 .. 12 : HexValue(v[k]) # 0
  /\ HexValue(v[2]) % 2 = 0

\* Only an address that is given is checked.  Without one, iMACAddress(None) reads the
\* attribute, and its string index stays 0.
ethernetRaises(yml) == "iMACAddress" \in DOMAIN yml /\ ~checkMAC(yml.iMACAddress)

\* The Ethernet functional descriptor, with n multicast filters.
EthernetWithMAC(yml, n) == WithName(EthernetDesc(n), 3, get(yml, "iMACAddress", <<>>))

EthernetData(ifcNumber, protocol, yml, epAddr, hiSpeed) ==
  <<DataInterface(ifcNumber + 1, 0, <<10, 0, protocol>>, yml),
    DataInterface(ifcNumber + 1, 1, <<10, 0, protocol>>, yml)>>
  \o BulkPair(epAddr, getMaxPktSize(yml, hiSpeed))

addBasicECM(yml, ifcNumber, epAddr, hiSpeed) ==
  <<Association(ifcNumber, <<2, 6, 0>>, yml),
    ControlInterface(ifcNumber, <<2, 6, 0>>, yml),
    Plain(CDCHeaderDesc),
    Plain(UnionDesc(ifcNumber, <<ifcNumber + 1>>)),
    EthernetWithMAC(yml, 32768)>>
  \o InterruptIn(epAddr + 1, 16, IF hiSpeed THEN 8 ELSE 16)
  \o EthernetData(ifcNumber, 0, yml, epAddr, hiSpeed)

addBasicNCM(yml, ifcNumber, epAddr, hiSpeed) ==
  <<Association(ifcNumber, <<2, 13, 0>>, yml),
    ControlInterface(ifcNumber, <<2, 13, 0>>, yml),
    Plain(CDCHeaderDesc),
    Plain(UnionDesc(ifcNumber, <<ifcNumber + 1>>)),
    EthernetWithMAC(yml, get(yml, "numMulticastFilters", 0)),
    Plain(NCMDesc(IF get(yml, "haveDynamicMACAddress", FALSE) THEN 3 ELSE 1))>>
  \o InterruptIn(epAddr + 1, 16, IF hiSpeed THEN 8 ELSE 16)
  \o EthernetData(ifcNumber, 1, yml, epAddr, hiSpeed)
-----------------------------------------------------------------------------
(* Audio. *)

\* The ids must be those of the BADD profile, which the firmware dispatches by.
clkID == 9
inTID == 1
ftrID == 2
ouTID == 3
scTID == 15
alTID == 16
tidOf(k) == IF k = 1 THEN inTID ELSE alTID + k - 2

\* Mutant: rounded down.
MutSamplesPerFrame(maxSmplFreq) == maxSmplFreq \div 1000

smplSize(numBits) == (numBits + 7) \div 8
samplesPerFrame(maxSmplFreq) == (maxSmplFreq + 999) \div 1000
isoPktSize(maxSmplFreq, numChannels, numBits, isAsync) ==
  (samplesPerFrame(maxSmplFreq) + IF isAsync THEN 1 ELSE 0) * numChannels * smplSize(numBits)

Sizes(entries) == FoldLeft(LAMBDA n, x : n + Len(x.d), 0, entries)

terminalNames(yml) == get(yml, "iInputTerminal", << <<>> >>)

\* Terminal ids are bytes, the greatest that of the last terminal.
audioRaises(yml, spkrNotMic) ==
  LET n == Len(terminalNames(yml))
  IN  \/ n = 0
      \/ ~spkrNotMic /\ n > 1 /\ tidOf(n) > 255
      \/ get(yml, "numBits", 24) \notin 1 .. 32

\* Mutant: the pins are set before their number, which clears them.
MutSelector(ids, yml) ==
  WithName(Set(bNrInPins(SelectorUnitDesc, Len(ids)), 3, scTID, 1), 6 + Len(ids),
           get(yml, "iSelector", <<>>))

\* A selector for the terminals, all of its attributes set.
Selector(ids, yml) ==
  LET d == baSourceID(Set(bNrInPins(SelectorUnitDesc, Len(ids)), 3, scTID, 1), ids)
  IN  WithName(Set(d, selControlsOff(d), 3, 1), iSelectorOff(d), get(yml, "iSelector", <<>>))

\* The control interface: clock, terminals, a selector if there are several,
\* feature unit, all counted by the header.
AudioControl(yml, ifcNumber, spkrNotMic) ==
  LET names     == terminalNames(yml)
      numInputs == IF spkrNotMic THEN 1 ELSE Len(names)
      channels  == get(yml, "numChannels", 2)
      config    == IF channels = 2 THEN 3 ELSE 4
      ctls(mute, volume) == (IF get(yml, mute, TRUE) THEN 3 ELSE 0)
                              + (IF get(yml, volume, TRUE) THEN 12 ELSE 0)
      chCtls    == ctls("haveChannelMute", "haveChannelVolume")
      units ==
        <<Plain(ClockSourceDesc(clkID, 0, 1))>>
        \o [k \in 1 .. numInputs |->
             WithName(InputTerminalDesc(tidOf(k), IF spkrNotMic THEN 257 ELSE 513, clkID,
                                        channels, config), 16, names[k])]
        \o (IF numInputs > 1 THEN <<Selector([k \in 1 .. numInputs |-> tidOf(k)], yml)>> ELSE <<>>)
        \o <<Plain(FeatureUnitDesc(ftrID, IF numInputs > 1 THEN scTID ELSE inTID,
                                   <<ctls("haveMasterMute", "haveMasterVolume"), chCtls>>
                                     \o IF channels = 2 THEN <<chCtls>> ELSE <<>>)),
             WithName(OutputTerminalDesc(ouTID, IF spkrNotMic THEN 769 ELSE 257, ftrID, clkID), 11,
                      get(yml, "iOutputTerminal", <<>>))>>
  IN  <<Association(ifcNumber, <<1, 0, 32>>, yml),
        ControlInterface(ifcNumber, <<1, 1, 32>>, yml),
        Plain(AudioHeaderDesc(IF spkrNotMic THEN 1 ELSE 3, 9 + Sizes(units)))>> \o units

IsoEndpoint(addr, isAsync, size, hiSpeed) ==
  Plain(EndpointDesc(addr, 1 + (IF isAsync THEN 4 ELSE 12), size, IF hiSpeed THEN 4 ELSE 1))
FeedbackEndpoint(epAddr, hiSpeed) ==
  Plain(EndpointDesc(IN_ + epAddr, 17, IF hiSpeed THEN 4 ELSE 3, IF hiSpeed THEN 4 ELSE 1))

\* The streaming interface: no bandwidth in the alternate setting 0.
AudioStreaming(yml, ifcNumber, epAddr, hiSpeed, isAsync, spkrNotMic) ==
  LET channels == get(yml, "numChannels", 2)
      numBits  == get(yml, "numBits", 24)
      class    == <<1, 2, 32>>
      size     == isoPktSize(get(yml, "maxSamplingFrequency", 48000), channels, numBits, isAsync)
  IN  <<DataInterface(ifcNumber + 1, 0, class, yml),
        DataInterface(ifcNumber + 1, 1, class, yml),
        Plain(ASInterfaceDesc(IF spkrNotMic THEN inTID ELSE ouTID, 1, channels,
                              IF channels = 2 THEN 3 ELSE 4)),
        Plain(FormatType1Desc(smplSize(numBits), numBits)),
        IsoEndpoint(epAddr + IF spkrNotMic THEN 0 ELSE IN_, isAsync, size, hiSpeed),
        Plain(ASEndpointDesc)>>
      \o IF isAsync /\ spkrNotMic THEN <<FeedbackEndpoint(epAddr, hiSpeed)>> ELSE <<>>

addUAC2Function(yml, ifcNumber, epAddr, hiSpeed, isAsync, spkrNotMic) ==
  AudioControl(yml, ifcNumber, spkrNotMic)
  \o AudioStreaming(yml, ifcNumber, epAddr, hiSpeed, isAsync, spkrNotMic)

\* The speaker of the basic audio profile: no class-specific descriptors.
baddRaises(numBits, numChannels, maxSmplFreq) ==
  numChannels # 2 \/ maxSmplFreq # 48000 \/ numBits \notin {16, 24}

addBADDSpeaker(ifcNumber, epAddr, hiSpeed, numBits, isAsync, fcnTitle) ==
  <<WithName(InterfaceAssociationDesc(ifcNumber, 2, <<1, 34, 48>>), 7, fcnTitle),
    Plain(InterfaceDesc(ifcNumber, 0, <<1, 1, 48>>)),
    Plain(InterfaceDesc(ifcNumber + 1, 0, <<1, 2, 48>>)),
    Plain(InterfaceDesc(ifcNumber + 1, 1, <<1, 2, 48>>)),
    IsoEndpoint(epAddr, isAsync, isoPktSize(48000, 2, numBits, isAsync), hiSpeed)>>
  \o IF isAsync THEN <<FeedbackEndpoint(epAddr, hiSpeed)>> ELSE <<>>
=============================================================================

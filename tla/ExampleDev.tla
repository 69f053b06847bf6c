----------------------------- MODULE ExampleDev -----------------------------
(***************************************************************************)
(* The generator of the table together with the firmware that reads it:     *)
(* what the searches of Usb2DescPkg find in the file a run of the generator *)
(* leaves, compared with the YAML file the table was made from.             *)
(***************************************************************************)
EXTENDS ExampleDevDesc, Usb2DescPkg

LOCAL INSTANCE SequencesExt
LOCAL INSTANCE FiniteSetsExt

IsTable == file \notin {Absent, Partial}
\* A run has just left a complete table.
Complete == pc = "done"

\* The name of a function in the YAML file.
KeyOf(fcn) == CASE fcn = "ACM"  -> "functionACM"
                [] fcn = "SPKR" -> "functionUAC2I2SOutput"
                [] fcn = "MICR" -> "functionUAC2Input"
                [] fcn = "ECM"  -> "functionECM"
                [] fcn = "NCM"  -> "functionNCM"
Wanted(fcn) == Enabled(wrote, KeyOf(fcn))
SettingsOf(fcn) == Settings(wrote, KeyOf(fcn))

\* The sections of the table: of the first, and of the second speed if there are two.
Sections == IF Len(speeds(wrote)) = 2 THEN {FALSE, TRUE} ELSE {FALSE}
SectionFrom(d, hs) == Visited(d, deviceDescriptorIndex(d, hs), TRUE)
InSection(d, hs, t) == {x \in SectionFrom(d, hs) : TypeAt(d, x) = t}

\* The function, configuration and interface a descriptor belongs to.
OwnerOf(d, hs, t, x) == Max({y \in InSection(d, hs, t) : y <= x})
IfcOf(d, hs, x) == At(d, OwnerOf(d, hs, INTERFACE, x) + 2)
Word(d, x) == At(d, x) + 256 * At(d, x + 1)
-----------------------------------------------------------------------------
\* Where the generator is, and what it numbers next.
Places ==
  /\ pc \in Ended \cup {Steps[k].pc : k \in DOMAIN Steps}
              \cup {"start", "device", "speed", "wrapup", "open", "write"}
  /\ speed \in 0 .. Len(speeds(yml)) /\ runs \in 1 .. MaxRuns
  /\ ifcNumber \in 0 .. 10 /\ epAddr \in 1 .. 9

\* State of the generator, and a table only of bytes.
TypeOK == Places /\ (IsTable => file \in Seq(Byte))

\* The firmware reaches every descriptor of the file and stops at its end; it finds
\* one configuration per section, and the length the host is told for it ends where
\* the section does (README.md:812-852).
LayoutRead ==
  LET d == file
      OneConfiguration(hs) ==
        LET tbl == usb2AppGetConfigIdxTbl(d, hs)
            over == {x \in Visited(d, 0, FALSE) : x > tbl[2] /\ TypeAt(d, x) \in {STRING_, SENTINEL}}
        IN  Len(tbl) = 2 /\ tbl[2] + Word(d, tbl[2] + 2) = Min(over)
  IN  Complete =>
        /\ Max(Visited(d, 0, FALSE)) = Len(d) - 2 /\ TypeAt(d, Len(d) - 2) = SENTINEL
        /\ \A hs \in Sections : OneConfiguration(hs)
        /\ TRUE \notin Sections => usb2AppGetConfigIdxTbl(d, TRUE) = <<>>

\* The endpoints and interfaces that the example device computes for its agents
\* (Usb2ExampleDev.vhd:356-369) are those of the descriptors, at either speed, and
\* the core has as many endpoint pairs, interfaces and settings as they need.
FunctionsWired ==
  LET d == file
      wanted == {fcn \in Range(Functions5) : Wanted(fcn)}
      Endpoints(hs, ifc) ==
        {At(d, x + 2) : x \in {y \in InSection(d, hs, ENDPOINT) : IfcOf(d, hs, y) = ifc}}
      Wired(hs, fcn) ==
        LET c == CTL_IFC_NUM(d, fcn)
            e == EP_IDX(d, fcn)
        IN  CASE fcn = "SPKR" -> Endpoints(hs, c) = {} /\ Endpoints(hs, c + 1) = {e, 128 + e}
              [] fcn = "MICR" -> Endpoints(hs, c) = {} /\ Endpoints(hs, c + 1) = {128 + e}
              [] OTHER -> Endpoints(hs, c) = {129 + e} /\ Endpoints(hs, c + 1) = {e, 128 + e}
  IN  Complete =>
        /\ \A k \in DOMAIN Functions5 : Have(d, Functions5[k]) = Wanted(Functions5[k])
        /\ \A hs \in Sections, k \in DOMAIN Functions5 :
             Have(d, Functions5[k]) => Wired(hs, Functions5[k])
        /\ usb2AppGetMaxEndpointAddr(d)
             = 1 + 2 * Cardinality(wanted) - Cardinality(wanted \cap Audio)
        /\ usb2AppGetMaxInterfaces(d) = 2 * Cardinality(wanted)
        /\ usb2AppGetMaxAltsettings(d) = IF wanted = {"ACM"} THEN 1 ELSE 2

\* Whatever refers to interfaces refers to those of its own function, and a
\* configuration numbers them without gaps.
OwnInterfaces ==
  LET d == file
      Refers(hs, x) ==      \* union and call management
        LET a == OwnerOf(d, hs, INTERFACE_ASSOCIATION, x)
        IN  At(d, OwnerOf(d, hs, INTERFACE, x) + 5) = 2 =>
                   CASE SubtypeAt(d, x) = 6 -> /\ At(d, x + 3) = IfcOf(d, hs, x)
                                               /\ At(d, x + 4) = At(d, a + 2) + 1
                     [] SubtypeAt(d, x) = 1 -> At(d, x + 4) = At(d, a + 2) + 1
                     [] OTHER -> TRUE
      Spans(hs, a) ==
        {At(d, x + 2) : x \in {y \in InSection(d, hs, INTERFACE) :
                                 OwnerOf(d, hs, INTERFACE_ASSOCIATION, y) = a}}
          = At(d, a + 2) .. At(d, a + 2) + At(d, a + 3) - 1
  IN  Complete =>
        \A hs \in Sections :
          /\ {At(d, x + 2) : x \in InSection(d, hs, INTERFACE)}
               = 0 .. At(d, usb2AppGetConfigIdxTbl(d, hs)[2] + 4) - 1
          /\ \A a \in InSection(d, hs, INTERFACE_ASSOCIATION) : Spans(hs, a)
          /\ \A x \in InSection(d, hs, CS_INTERFACE) : Refers(hs, x)

\* The strings of the YAML file come out at their index: the names of the functions
\* in every section, of the product, and the MAC addresses as the firmware decodes
\* them.  A function that is given no address refers to no string for it at any speed, not
\* to that of something else.
StringsRead ==
  LET d == file
      StringAt(n) == LET x == usb2NthStringDescriptor(d, n)
                     IN  [k \in 1 .. (At(d, x) - 2) \div 2 |-> Word(d, x + 2 * k)]
      Reads(n, s) == IF s = <<>> THEN n = 0
                     ELSE n \in 1 .. usb2AppGetNumStrings(d) - 1 /\ StringAt(n) = s
      wanted == SelectSeq(Functions5, Wanted)
      Names(hs) == InOrder(InSection(d, hs, INTERFACE_ASSOCIATION))
      Subclass(fcn) == IF fcn = "ECM" THEN 6 ELSE 13
      MACIndex(hs, fcn) ==
        LET c == CHOOSE x \in InSection(d, hs, INTERFACE) :
                   At(d, x + 5) = 2 /\ At(d, x + 6) = Subclass(fcn)
        IN  At(d, usb2NextCsDescriptor(d, c, 15, TRUE) + 3)
      Binary(mac) == [k \in 1 .. 6 |-> 16 * HexValue(mac[2 * k - 1]) + HexValue(mac[2 * k])]
  IN  Complete =>
        /\ \A hs \in Sections :
             /\ Len(Names(hs)) = Len(wanted)
             /\ \A k \in DOMAIN wanted :
                  Reads(At(d, Names(hs)[k] + 7), SettingsOf(wanted[k]).iFunction)
             /\ Reads(At(d, deviceDescriptorIndex(d, hs) + 15),
                      get(wrote.dev, "iProduct", DefaultProduct))
        /\ \A fcn \in {"ECM", "NCM"} : Wanted(fcn) =>
             LET s == SettingsOf(fcn)
             IN  /\ \A hs \in Sections : Reads(MACIndex(hs, fcn), get(s, "iMACAddress", <<>>))
                 /\ "iMACAddress" \in DOMAIN s =>
                      getMacAddr(d, IfcAssoc(d, fcn), Subclass(fcn)) = Binary(s.iMACAddress)

\* The parameters that the firmware takes from the table are those of the YAML file.
ParametersRead ==
  LET d == file
      Set_(fcn, key, dflt) == get(SettingsOf(fcn), key, dflt)
      Bytes(fcn) == CHOOSE n \in 1 .. 4 : Set_(fcn, "numBits", 24) \in 8 * n - 7 .. 8 * n
  IN  Complete =>
        /\ \A fcn \in Audio : Wanted(fcn) =>
             /\ usb2GetUAC2NumChannels(d, IfcAssoc(d, fcn)) = Set_(fcn, "numChannels", 2)
             /\ usb2GetUAC2SubSlotSize(d, IfcAssoc(d, fcn)) = Bytes(fcn)
        /\ Wanted("MICR") =>
             LET n == Len(terminalNames(SettingsOf("MICR")))
             IN  usb2GetUAC2SelectorUnitPins(d, IfcAssoc(d, "MICR")) = IF n > 1 THEN n ELSE 0
        /\ Wanted("NCM") =>
             /\ usb2GetNumMCFilters(d, IfcAssoc(d, "NCM"), 13)
                  = Set_("NCM", "numMulticastFilters", 0) % 32768
             /\ (usb2GetNCMNetworkCapabilities(d, IfcAssoc(d, "NCM")) = 3)
                  = Set_("NCM", "haveDynamicMACAddress", FALSE)
        /\ Wanted("ECM") => ~usb2GetMCFilterPerfect(d, IfcAssoc(d, "ECM"), 6)
        /\ Wanted("ACM") =>
             acmCapabilities(d) = (IF Set_("ACM", "haveSendBreak", TRUE) THEN 4 ELSE 0)
                                    + (IF Set_("ACM", "haveLineState", TRUE) THEN 2 ELSE 0)
-----------------------------------------------------------------------------
\* The units of an audio function form one connected chain: their ids are different,
\* every source and clock is one of them, the header counts exactly them, and the
\* stream ends at one of the terminals.
AudioTopology ==
  LET d == file
      UnitsOf(hs, h) == {x \in InSection(d, hs, CS_INTERFACE) :
                           x > h /\ OwnerOf(d, hs, INTERFACE, x) = OwnerOf(d, hs, INTERFACE, h)}
      Id(x) == At(d, x + 3)
      Sources(x) == CASE SubtypeAt(d, x) = 6 -> {At(d, x + 4)}
                      [] SubtypeAt(d, x) = 3 -> {At(d, x + 7), At(d, x + 8)}
                      [] SubtypeAt(d, x) = 2 -> {At(d, x + 7)}
                      [] SubtypeAt(d, x) = 5 -> {At(d, x + 4 + k) : k \in 1 .. At(d, x + 4)}
                      [] OTHER -> {}
      Chain(hs, h) ==
        LET units == UnitsOf(hs, h)
            used  == UNION {Sources(x) : x \in units}
        IN  /\ Cardinality({Id(x) : x \in units}) = Cardinality(units)
            /\ used = {Id(x) : x \in units} \ {ouTID}
            /\ Word(d, h + 6) = FoldSet(LAMBDA x, n : n + At(d, x), At(d, h), units)
      Headers(hs) == {x \in InSection(d, hs, CS_INTERFACE) :
                        /\ SubtypeAt(d, x) = 1
                        /\ LET i == OwnerOf(d, hs, INTERFACE, x) IN At(d, i + 5) = 1 /\ At(d, i + 6) = 1}
  IN  Complete => \A hs \in Sections : \A h \in Headers(hs) : Chain(hs, h)

\* A packet of an isochronous data endpoint holds the samples of a frame and one to
\* spare, at every rate and width, and is none a speed forbids.
IsoPacketsFit ==
  LET d == file
      Data(hs) == {x \in InSection(d, hs, ENDPOINT) : At(d, x + 3) % 4 = 1 /\ At(d, x + 3) < 16}
      Fits(hs, x) ==
        LET fcn  == IF At(d, x + 2) >= 128 THEN "MICR" ELSE "SPKR"
            s    == SettingsOf(fcn)
            size == Word(d, x + 4)
            frame == get(s, "numChannels", 2) * usb2GetUAC2SubSlotSize(d, IfcAssoc(d, fcn))
        IN  /\ size <= 1023
            /\ size % frame = 0
            /\ 1000 * (size \div frame - 1) >= get(s, "maxSamplingFrequency", 48000)
  IN  Complete => \A hs \in Sections : \A x \in Data(hs) : Fits(hs, x)

\* A script that builds a device of the basic audio profile with SingleCfgDevice and
\* addBADDSpeaker(), for which the YAML file has no keys: the firmware recognizes the
\* speaker, and wires it to the one endpoint pair its descriptors have.
BADDWired ==
  LET Table(hs, isAsync, numBits) ==
        VhdlByteArray(wrapup(createAll(NewContext,
          SingleCfgDevice(4617, yml.dev.idProduct, get(yml.cfg, "remoteWakeup", TRUE), 256)
            \o addBADDSpeaker(0, 1, hs, numBits, isAsync, get(yml.dev, "iProduct", <<>>)))))
      Wired(d, isAsync, numBits) ==
        LET data == FirstOf(OfTypeFrom(d, 0, ENDPOINT, TRUE))
            e    == EP_IDX(d, "SPKR")
        IN  /\ Have(d, "SPKR") /\ ~Have(d, "MICR")
            /\ {At(d, x + 2) : x \in OfTypeFrom(d, 0, ENDPOINT, TRUE)}
                 = {e} \cup IF isAsync THEN {128 + e} ELSE {}
            /\ Word(d, data + 4) = ((48 + IF isAsync THEN 1 ELSE 0) * numBits) \div 4
            /\ usb2AppGetMaxInterfaces(d) = 2 /\ usb2AppGetMaxEndpointAddr(d) = 2
            /\ At(d, usb2AppGetConfigIdxTbl(d, FALSE)[2] + 4) = 2
  IN  pc = "acm" /\ speed = 1 =>
        \A isAsync \in BOOLEAN, numBits \in 8 .. 32 :
          baddRaises(numBits, 2, 48000)
            \/ Wired(Table(speeds(yml)[1], isAsync, numBits), isAsync, numBits)

\* What refers to an interface or an endpoint, in the table or in the firmware, refers to the
\* one of its function.
ReferencesRight == FunctionsWired /\ OwnInterfaces /\ BADDWired

\* What the YAML file says of names, addresses and parameters reaches the firmware; what it
\* does not say of them, no string.
ReadBack == StringsRead /\ ParametersRead

\* A complete table is only replaced by a run with -F.
TableKept == [][IsTable /\ ~force => file' = file]_vars

\* The exceptions that a YAML file still meets which the schema accepts: the output
\* file is there, no function is enabled, an address is all zeros or a group's, the
\* terminals are too many, or a name has a character outside the basic plane.
ExceptionsExplained ==
  LET on == {k \in DOMAIN Functions5 : Enabled(yml, KeyOf(Functions5[k]))}
      BadAddress(k) == /\ Functions5[k] \in {"ECM", "NCM"}
                       /\ LET mac == yml.cfg[KeyOf(Functions5[k])].iMACAddress
                          IN  \/ \A j \in 1 .. 12 : HexValue(mac[j]) = 0
                              \/ HexValue(mac[2]) % 2 = 1
      TooMany(k) == /\ Functions5[k] = "MICR"
                    /\ Len(terminalNames(Settings(yml, KeyOf(Functions5[k])))) > 241
  IN  pc = "raised" /\ schema =>
        IF ctx.wrapped
          THEN \/ file # Absent /\ ~force
               \/ \E i \in DOMAIN ctx.strtbl : \E j \in DOMAIN ctx.strtbl[i] :
                    ctx.strtbl[i][j] \in 55296 .. 57343
          ELSE on = {} \/ \E k \in on : BadAddress(k) \/ TooMany(k)
=============================================================================

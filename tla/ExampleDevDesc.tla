-------------------------- MODULE ExampleDevDesc ---------------------------
(***************************************************************************)
(* The generator of the example device: genAppCfgPkgBody.py reads a YAML    *)
(* file, has mkExampleDevDescriptors() of ExampleDevDesc.py build the       *)
(* context and writes the table, the body of a VHDL package, to a file.     *)
(* It is run again and again, over the file that the last run left; an      *)
(* exception ends a run, and the user may kill it.                          *)
(***************************************************************************)
EXTENDS Usb2DescFcn

LOCAL INSTANCE SequencesExt

CONSTANTS
  Ymls,       \* contents of the YAML file of the first run
  LaterYmls,  \* and of the following ones
  MaxRuns,    \* bound: runs
  Absent,     \* state of the output file: there is none,
  Partial     \* or it is not a complete table

ASSUME MaxRunsAssumption == MaxRuns \in Nat \ {0}
ASSUME FileAssumption == {Absent, Partial} \cap Seq(Byte) = {}

VARIABLES
  yml,     \* [dev |-> keys of deviceDesc, cfg |-> keys of configurationDesc]
  schema,  \* the module jsonschema is installed
  force,   \* option -F
  runs,    \* runs so far
  pc,      \* where the run is
  speed,   \* index i of the loop over the speeds
  ctx, ifcNumber, epAddr,
  file,    \* the output file: Absent, Partial or the table
  wrote    \* the YAML of the run that opened it last

vars == <<yml, schema, force, runs, pc, speed, ctx, ifcNumber, epAddr, file, wrote>>

Ended == {"done", "rejected", "raised", "killed"}
-----------------------------------------------------------------------------
(* Settings. *)

speeds(y) == LET s == get(y.dev, "speeds", "dual")
             IN  CASE s = "dual" -> <<FALSE, TRUE>> [] s = "high" -> <<TRUE>> [] OTHER -> <<FALSE>>

\* The names stand for the texts of the code.
DefaultProduct == <<84, 39>>
DefaultName(fcn) == CASE fcn = "functionACM"           -> <<65, 67, 77>>
                      [] fcn = "functionUAC2I2SOutput" -> <<83, 80, 75>>
                      [] fcn = "functionUAC2Input"     -> <<77, 73, 67>>
                      [] fcn = "functionECM"           -> <<69, 67, 77>>
                      [] fcn = "functionNCM"           -> <<78, 67, 77>>

\* ACM is there unless it is disabled, the others only if they are listed.
Enabled(y, fcn) == IF fcn \in DOMAIN y.cfg THEN get(y.cfg[fcn], "enabled", TRUE)
                   ELSE fcn = "functionACM"
Settings(y, fcn) == LET given == get(y.cfg, fcn, [enabled |-> TRUE])
                        name  == [iFunction |-> get(given, "iFunction", DefaultName(fcn))]
                    IN  [k \in DOMAIN given \cup {"iFunction"} |->
                          IF k = "iFunction" THEN name.iFunction ELSE given[k]]

\* What schema.json says of the settings that an exception depends on.
SchemaValid(y) ==
  /\ "idProduct" \in DOMAIN y.dev
  /\ \A fcn \in DOMAIN y.cfg :
       /\ fcn \in {"functionECM", "functionNCM"} =>
            "iMACAddress" \in DOMAIN y.cfg[fcn] /\ Len(y.cfg[fcn].iMACAddress) \in {12, 13}
       /\ "numBits" \in DOMAIN y.cfg[fcn] => y.cfg[fcn].numBits \in 1 .. 32

\* The functions in the order of the code, with the place in the run that adds each.
Steps == <<[pc |-> "acm",  fcn |-> "functionACM"],
           [pc |-> "spkr", fcn |-> "functionUAC2I2SOutput"],
           [pc |-> "mic",  fcn |-> "functionUAC2Input"],
           [pc |-> "ecm",  fcn |-> "functionECM"],
           [pc |-> "ncm",  fcn |-> "functionNCM"]>>
-----------------------------------------------------------------------------
Init ==
  /\ yml \in Ymls
  /\ schema \in BOOLEAN
  /\ force \in BOOLEAN
  /\ runs = 1
  /\ pc = "start"
  /\ speed = 0
  /\ ctx = NewContext
  /\ ifcNumber = 0 /\ epAddr = 1
  /\ file = Absent
  /\ wrote = yml

Unchanged == UNCHANGED <<yml, schema, force, runs>>

\* An invalid file ends the run if it can be validated; the product id is checked anyway.
Validate ==
  /\ pc = "start"
  /\ pc' = IF schema /\ ~SchemaValid(yml) THEN "rejected"
           ELSE IF "idProduct" \notin DOMAIN yml.dev THEN "raised" ELSE "device"
  /\ Unchanged /\ UNCHANGED <<speed, ctx, ifcNumber, epAddr, file, wrote>>

\* The device and its configuration, those of the first speed.
MkDevice ==
  LET dev  == yml.dev
      name(off, key, dflt) == <<off, get(dev, key, dflt)>>
      device == DeviceDesc(<<239, 2, 1>>, 64, get(dev, "idVendor", 4617), dev.idProduct,
                           get(dev, "bcdDevice", 0))
      config == ConfigurationDesc(IF get(yml.cfg, "remoteWakeup", TRUE) THEN 32 ELSE 0, 50)
  IN  /\ pc = "device"
      /\ ctx' = create(create(NewContext, device,
                              <<name(15, "iProduct", DefaultProduct),
                                name(16, "iSerialNumber", <<>>),
                                name(14, "iManufacturer", <<>>)>>),
                       config, << <<6, get(yml.cfg, "iConfiguration", <<>>)>> >>)
      /\ speed' = 1 /\ ifcNumber' = 0 /\ epAddr' = 1
      /\ pc' = "acm"
      /\ Unchanged /\ UNCHANGED <<file, wrote>>

\* One function of the list, if it is enabled, at the next free interface and endpoint.
AddFunction(k) ==
  LET fcn   == Steps[k].fcn
      s     == Settings(yml, fcn)
      hi    == speeds(yml)[speed]
      next  == IF k = Len(Steps) THEN "speed" ELSE Steps[k + 1].pc
      pairs == IF fcn \in {"functionUAC2I2SOutput", "functionUAC2Input"} THEN 1 ELSE 2
      raises == CASE fcn = "functionACM" -> FALSE
                  [] fcn = "functionUAC2I2SOutput" -> audioRaises(s, TRUE)
                  [] fcn = "functionUAC2Input" -> audioRaises(s, FALSE)
                  [] OTHER -> ethernetRaises(s)
      descs == CASE fcn = "functionACM" -> addBasicACM(s, ifcNumber, epAddr, hi)
                 [] fcn = "functionUAC2I2SOutput" ->
                      addUAC2Function(s, ifcNumber, epAddr, hi, TRUE, TRUE)
                 [] fcn = "functionUAC2Input" ->
                      addUAC2Function(s, ifcNumber, epAddr, hi, TRUE, FALSE)
                 [] fcn = "functionECM" -> addBasicECM(s, ifcNumber, epAddr, hi)
                 [] fcn = "functionNCM" -> addBasicNCM(s, ifcNumber, epAddr, hi)
  IN  /\ pc = Steps[k].pc
      /\ \/ /\ ~Enabled(yml, fcn)
            /\ pc' = next
            /\ UNCHANGED <<ctx, ifcNumber, epAddr>>
         \/ /\ Enabled(yml, fcn) /\ raises
            /\ pc' = "raised"
            /\ UNCHANGED <<ctx, ifcNumber, epAddr>>
         \/ /\ Enabled(yml, fcn) /\ ~raises
            /\ ctx' = createAll(ctx, descs)
            /\ ifcNumber' = ifcNumber + 2 /\ epAddr' = epAddr + pairs
            /\ pc' = next
      /\ Unchanged /\ UNCHANGED <<speed, file, wrote>>

\* Mutant: interfaces and endpoints are numbered on.
MutNextSpeed ==
  /\ pc = "speed"
  /\ IF speed < Len(speeds(yml))
       THEN /\ ctx' = clone(clone(create(ctx, SentinelDesc, <<>>), 1), 2)
            /\ speed' = speed + 1
            /\ pc' = "acm"
       ELSE pc' = "wrapup" /\ UNCHANGED <<ctx, speed>>
  /\ Unchanged /\ UNCHANGED <<ifcNumber, epAddr, file, wrote>>

\* A sentinel, clones of device and configuration, and all over for the next speed.
NextSpeed ==
  /\ pc = "speed"
  /\ IF speed < Len(speeds(yml))
       THEN /\ ctx' = clone(clone(create(ctx, SentinelDesc, <<>>), 1), 2)
            /\ speed' = speed + 1 /\ ifcNumber' = 0 /\ epAddr' = 1
            /\ pc' = "acm"
       ELSE pc' = "wrapup" /\ UNCHANGED <<ctx, speed, ifcNumber, epAddr>>
  /\ Unchanged /\ UNCHANGED <<file, wrote>>

Wrapup ==
  /\ pc = "wrapup"
  /\ ctx' = wrapup(ctx)
  /\ pc' = IF wrapupRaises(ctx) THEN "raised" ELSE "open"
  /\ Unchanged /\ UNCHANGED <<speed, ifcNumber, epAddr, file, wrote>>

\* Mutant: an existing file is overwritten.
MutOpen ==
  /\ pc = "open"
  /\ pc' = "write" /\ file' = Partial /\ wrote' = yml
  /\ Unchanged /\ UNCHANGED <<speed, ctx, ifcNumber, epAddr>>

\* io.open(), for exclusive creation unless -F is given; it empties the file.
Open ==
  /\ pc = "open"
  /\ IF file # Absent /\ ~force
       THEN pc' = "raised" /\ UNCHANGED <<file, wrote>>
       ELSE pc' = "write" /\ file' = Partial /\ wrote' = yml
  /\ Unchanged /\ UNCHANGED <<speed, ctx, ifcNumber, epAddr>>

\* The comment behind the bytes of a string shows its characters one by one, and
\* one half of a pair of surrogates cannot be decoded (nameAt()).
CannotShow(d) == bDescriptorType(d) = STRING_
                 /\ \E k \in 1 .. Len(d) \div 2 - 1 : d[2 * k + 2] \in 216 .. 223

\* genAppCfgPkgBody(): all or, with an exception, the first part of the table.
Write ==
  /\ pc = "write"
  /\ IF \E d \in {ctx.descs[i] : i \in DOMAIN ctx.descs} : CannotShow(d)
       THEN pc' = "raised" /\ UNCHANGED file
       ELSE pc' = "done" /\ file' = VhdlByteArray(ctx)
  /\ Unchanged /\ UNCHANGED <<speed, ctx, ifcNumber, epAddr, wrote>>

Kill ==
  /\ pc = "write"
  /\ pc' = "killed"
  /\ Unchanged /\ UNCHANGED <<speed, ctx, ifcNumber, epAddr, file, wrote>>

\* The script is run again.
Rerun ==
  /\ pc \in Ended /\ runs < MaxRuns
  /\ yml' \in LaterYmls /\ force' \in BOOLEAN
  /\ runs' = runs + 1
  /\ pc' = "start"
  /\ speed' = 0 /\ ctx' = NewContext /\ ifcNumber' = 0 /\ epAddr' = 1
  /\ UNCHANGED <<schema, file, wrote>>

Next == Validate \/ MkDevice \/ (\E k \in DOMAIN Steps : AddFunction(k)) \/ NextSpeed
          \/ Wrapup \/ Open \/ Write \/ Kill \/ Rerun

Spec == Init /\ [][Next]_vars
=============================================================================

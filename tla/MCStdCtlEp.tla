----------------------------- MODULE MCStdCtlEp -----------------------------
(* Instances of StdCtlEp for TLC: a device for both speeds, whose              *)
(* configuration has an alternate setting at full speed, with two small       *)
(* configurations at high speed.                                              *)
EXTENDS StdCtlInv

LOCAL INSTANCE SequencesExt
G == INSTANCE Usb2Desc

Device(size) == G!DeviceDesc(<<0, 0, 0>>, size, 4617, 1, 512)
Interface(num, alt) == G!InterfaceDesc(num, alt, <<255, 0, 0>>)
Bulk(addr, size) == G!EndpointDesc(addr, 2, size, 0)
FSConfig == <<G!ConfigurationDesc(0, 50), Interface(0, 0), G!EndpointDesc(130, 3, 8, 4),
              Interface(1, 0), Interface(1, 1), Bulk(1, 64), Bulk(129, 64)>>
\* 32: remote wakeup.
HSConfig(attributes, size) == <<G!ConfigurationDesc(attributes, 50), Interface(0, 0), Bulk(129, size)>>

Created == <<Device(8)>> \o FSConfig
             \o <<G!SentinelDesc, Device(64)>> \o HSConfig(0, 512) \o HSConfig(32, 256)
\* The second string fills a packet at full speed.
Context == G!wrapup([descs |-> Created, strtbl |-> << <<97>>, <<97, 98, 99>> >>, wrapped |-> FALSE])

\* The table that wrapup() makes of it, written out.
MCDescriptors == <<
  <<18, 1, 0, 2, 0, 0, 0, 8, 9, 18, 1, 0, 0, 2, 0, 0, 0, 1>>,
  <<10, 6, 0, 2, 0, 0, 0, 64, 2, 0>>,
  <<9, 2, 57, 0, 2, 1, 0, 128, 50>>,
  <<9, 4, 0, 0, 1, 255, 0, 0, 0>>,
  <<7, 5, 130, 3, 8, 0, 4>>,
  <<9, 4, 1, 0, 0, 255, 0, 0, 0>>,
  <<9, 4, 1, 1, 2, 255, 0, 0, 0>>,
  <<7, 5, 1, 2, 64, 0, 0>>,
  <<7, 5, 129, 2, 64, 0, 0>>,
  <<2, 255>>,
  <<18, 1, 0, 2, 0, 0, 0, 64, 9, 18, 1, 0, 0, 2, 0, 0, 0, 2>>,
  <<10, 6, 0, 2, 0, 0, 0, 8, 1, 0>>,
  <<9, 2, 25, 0, 1, 1, 0, 128, 50>>,
  <<9, 4, 0, 0, 1, 255, 0, 0, 0>>,
  <<7, 5, 129, 2, 0, 2, 0>>,
  <<9, 2, 25, 0, 1, 2, 0, 160, 50>>,
  <<9, 4, 0, 0, 1, 255, 0, 0, 0>>,
  <<7, 5, 129, 2, 0, 1, 0>>,
  <<4, 3, 9, 4>>,
  <<4, 3, 97, 0>>,
  <<8, 3, 97, 0, 98, 0, 99, 0>>,
  <<2, 255>> >>
ASSUME DescriptorsAssumption == MCDescriptors = Context.descs

Get(typ, n, len) == <<128, GET_DESCRIPTOR, n, typ, 0, 0, len, 0>>
Out(rcp, req, val, ind) == <<rcp, req, val, 0, ind, 0, 0, 0>>
In(rcp, req, ind, len) == <<128 + rcp, req, 0, 0, ind, 0, len, 0>>

MCReads == {Get(1, 0, 8), Get(2, 0, 255), Get(2, 1, 9), Get(6, 0, 10), Get(7, 0, 57),
          Get(3, 2, 255), Get(3, 3, 255)}
Sets == {Out(DEV, SET_ADDRESS, 5, 0), Out(DEV, SET_CONFIGURATION, 0, 0),
         Out(DEV, SET_CONFIGURATION, 1, 0), Out(DEV, SET_CONFIGURATION, 2, 0),
         Out(IFC, SET_INTERFACE, 1, 1), Out(IFC, SET_INTERFACE, 0, 1),
         Out(EPT, SET_FEATURE, 0, 129), Out(EPT, CLEAR_FEATURE, 0, 129),
         Out(DEV, SET_FEATURE, 1, 0)}
Gets == {In(DEV, GET_CONFIGURATION, 0, 1), In(IFC, GET_INTERFACE, 1, 1),
         In(EPT, GET_STATUS, 129, 2), In(DEV, GET_STATUS, 0, 2), In(IFC, GET_STATUS, 1, 2)}
\* Of the agents, with and without data.
Class == {In(33, 161, 0, 1), Out(33, 35, 0, 0)}

MCRequests == MCReads \cup Sets \cup Gets \cup Class
MCLateRequests == {Out(DEV, SET_CONFIGURATION, 1, 0)}
MCForeign == {"OUT", "SETUP"}
=============================================================================

--------------------------- MODULE MCBiosSettings ---------------------------
(* Instances of BiosSettings for TLC: two threads, three bits, two values.   *)
EXTENDS BiosSettings, TLC

CONSTANTS t1, t2

\* Both threads change masks and write the pair of the OFD, one of them reads it.
MaskAndOfdCalls ==
  (t1 :> {"setAutoOpenShift", "setPrinterExNotPrint", "setOFDSettings", "getOFDSettings"})
  @@ (t2 :> {"setAutoOpenShift", "setPrinterExPrint", "setOFDSettings"})
SomeMasks == {{NotPrint}, Bits}

OrgCalls == [t \in Threads |-> {"setENVDRegData"}]
NoBits == {{}}
=============================================================================

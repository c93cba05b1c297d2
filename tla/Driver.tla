------------------------------- MODULE Driver -------------------------------
(***************************************************************************)
(* The kernel side of hdmiservice: the AV8100 driver, its sysfs event file  *)
(* and the frame buffer it creates.  None of it is under src/; it is        *)
(* modelled from how src/src/kevent.c and src/src/hdmi_service.c use it.    *)
(*                                                                         *)
(*   EVENT_FILE      read by hdmieventfile_read, waited on with poll        *)
(*   EVENTCLR_FILE   written by hdmievclr                                   *)
(*   EVWAKEUP_FILE   written by hdmievwakeupfile_wr                         *)
(*   PLUGDETEN_FILE  written by hdmiplug_subscribe                          *)
(*   DISPONOFF_FILE  creates and destroys the HDMI frame buffer             *)
(***************************************************************************)
CONSTANT
  DriverMerges  \* TRUE if opposite plug reports may be pending together

ASSUME DriverMergesAssumption == DriverMerges \in BOOLEAN

VARIABLES
  cable,        \* TRUE while a sink is connected to the HDMI connector
  kevents,      \* event bits the next read of EVENT_FILE returns
  subscribed,   \* TRUE once plug detection has been enabled
  fb            \* TRUE while the HDMI frame buffer exists

driverVars == <<cable, kevents, subscribed, fb>>

\* The plug bits and the bits the chip raises by itself
\* (HDMIEVENT_xxx of hdmi_service_local.h), and the bit that
\* hdmievwakeupfile_wr makes the driver raise.
PlugBits   == {"PLUGGED", "UNPLUGGED"}
ChipBits   == {"CEC", "HDCP", "CECTXERR"}
KernelBits == PlugBits \union ChipBits \union {"WAKEUP"}

DriverTypeOK ==
  /\ cable \in BOOLEAN
  /\ kevents \in SUBSET KernelBits
  /\ subscribed \in BOOLEAN
  /\ fb \in BOOLEAN

DriverInit ==
  /\ cable \in BOOLEAN
  /\ kevents = {}
  /\ subscribed = FALSE
  /\ fb = FALSE

-----------------------------------------------------------------------------
(* What a bit raised by the driver does to the pending ones.  A plug report *)
(* replaces the opposite one, or, if DriverMerges, may accumulate with it.  *)

Accumulated(e) == kevents \union {e}

PlugReported(e) ==
  {(kevents \ PlugBits) \union {e}} \union
  (IF DriverMerges THEN {Accumulated(e)} ELSE {})

\* The cable is connected or removed; reported only after plug detection
\* was enabled ("until then no events will occur", kevent.c:137-140).
SetCable(in, bit) ==
  /\ cable = ~in
  /\ cable' = in
  /\ IF subscribed THEN kevents' \in PlugReported(bit) ELSE UNCHANGED kevents
  /\ UNCHANGED <<subscribed, fb>>

PlugIn  == SetCable(TRUE, "PLUGGED")
PlugOut == SetCable(FALSE, "UNPLUGGED")

\* The chip reports CEC traffic, an HDCP state or a CEC transmit error.
ChipEvent(e) ==
  /\ kevents' = Accumulated(e)
  /\ UNCHANGED <<cable, subscribed, fb>>

\* A write to PLUGDETEN_FILE: a cable that is already in is reported.
EnablePlugDetection ==
  /\ subscribed' = TRUE
  /\ IF cable THEN kevents' \in PlugReported("PLUGGED") ELSE UNCHANGED kevents

=============================================================================

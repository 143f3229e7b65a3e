---------------------------- MODULE MCUsbSerial ----------------------------
(***************************************************************************)
(* Small instances of the USB serial port for TLC.                         *)
(***************************************************************************)
EXTENDS UsbSerial

CONSTANTS d1, d2

Use(host, ops, written, sent) ==
  [host |-> host, ops |-> ops, written |-> written, sent |-> sent]

\* Reading; writing to a host that may be slow; using the port while the bus
\* sleeps and the device is configured again, or only the latter; writing to
\* a host that goes away, comes back and resets; ending and starting again.
MCUses ==
  { Use({}, {"available", "peek", "read"}, {}, {d1, d2}),
    Use({"nak", "dtr"}, {"write", "flush", "bool"}, {d1}, {}),
    Use({"suspend", "reconfigure"}, {"read", "write"}, {d1}, {d1}),
    Use({"reconfigure", "dtr"}, {"available", "write"}, {d1}, {d1}),
    Use({"unplug", "reset"}, {"write"}, {d1}, {}),
    Use({"reset", "suspend", "dtr"}, {"bool", "end"}, {}, {}) }
=============================================================================

----------------------------- MODULE MCScanning -----------------------------
(* Instances of Scanning for TLC.                                          *)
EXTENDS Scanning, TLC

CONSTANTS net, sub, h1, h2

\* One subnet; one with a single address.
MCOne    == net :> {h1, h2}
MCSingle == net :> {h1}

\* No explicit range, or one across the border of the subnet.
MCNoRanges == {}
MCAcross   == {{h1, h2}}
=============================================================================

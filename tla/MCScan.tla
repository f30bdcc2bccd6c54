------------------------------- MODULE MCScan -------------------------------
(***************************************************************************)
(* Scan with two interfaces and three channels: a probed one and a passive *)
(* one in the 2.4 GHz band, a probed one in the 5 GHz band.                *)
(***************************************************************************)
EXTENDS Scan

CONSTANTS v1, v2, c1, c2, c3

MCVifs        == {v1, v2}
MCChannels    == {c1, c2, c3}
MCBand        == [c \in MCChannels |-> IF c = c3 THEN "5GHZ" ELSE "2GHZ"]
MCPassiveOnly == {c2}
MCRequests    == {[chans |-> MCChannels, ssids |-> "some"],
                  [chans |-> {c1, c2}, ssids |-> "none"]}
=============================================================================

----------------------------- MODULE MCUpgrade -----------------------------
(* Instances of Upgrade, with the script of the host, for TLC.             *)
EXTENDS SerialUpgrade

(* What the properties allow, with the script and without; the script and  *)
(* calls that fail; and everything but a failing erase.                    *)
MCFaultSets == {{}, {"overrun", "ftp"}, {"malloc", "init", "write", "request", "length"},
                AllFaults \ {"erase"}}

NoFaults == {{}}

Mismatch == {{"mismatch"}}
=============================================================================

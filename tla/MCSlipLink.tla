----------------------------- MODULE MCSlipLink -----------------------------
(* Instances of SlipLink for TLC: the packets of one byte, and uploads of  *)
(* up to two, one more than the uint8_t of their length holds; and a       *)
(* packet of two commands, of which one counts.  The longest leaves the    *)
(* decoder room for an END.                                                *)
EXTENDS SlipLink

Arguments == {END, ESC, ESC_END, TRANSFER}

MCPackets ==
  {<<b>> : b \in Bytes} \cup {<<UPLOAD, a>> : a \in Arguments}
    \cup {<<UPLOAD, a, b>> : a \in Arguments, b \in Arguments}
    \cup {<<TRANSFER, DOWNLOAD>>}
=============================================================================

------------------------------- MODULE MCNetIo -------------------------------
(* Small instances of NetIo for TLC. *)
EXTENDS NetIo

CONSTANTS s1, l1, p1, p2

(* Both directions of one stream, a listener that accepts it, or one       *)
(* direction of a stream that is split.                                    *)
MCPrograms ==
  {[ends |-> {<<s1, "Read">>, <<s1, "Write">>}, splits |-> FALSE,
    pollers |-> {p1}],
   [ends |-> {<<l1, "Read">>}, splits |-> FALSE, pollers |-> {p1, p2}],
   [ends |-> {<<s1, "Read">>}, splits |-> TRUE, pollers |-> {p1, p2}],
   [ends |-> {<<s1, "Write">>}, splits |-> TRUE, pollers |-> {p1, p2}]}
=============================================================================

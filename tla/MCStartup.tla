------------------------------ MODULE MCStartup ------------------------------
(***************************************************************************)
(* A small instance of Startup.                                            *)
(***************************************************************************)
EXTENDS Startup

(* The instance. *)
MCStrings == {"port", "addr", "empty"}
MCStrLen == [s \in MCStrings |-> IF s = "empty" THEN 0 ELSE 4]
MCScalars == {"8080"}
MCIntOf == [s \in MCScalars |-> 8080]

(* Both sides of each limit of the encoding. *)
MCPoints == {10, Quote, 65, Backslash, 127, 128, 2047, 2048, 55295, 57344, 65535, 65536,
             128512, 196608}

=============================================================================

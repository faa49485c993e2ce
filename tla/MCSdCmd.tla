------------------------------ MODULE MCSdCmd ------------------------------
(* Instances of SdCmd for TLC. *)
EXTENDS SdCmd

\* A command of each kind that sd_cmd treats in its own way: with an error
\* decoded from its response, with a data phase, with a prefix.
MCCodes == {"SEND_REL_ADDR", "READ_SINGLE", "SET_BUS_WIDTH"}

\* sd_cmd tests one field of a response at a time.
MCResponses == {{}, {"APP_CMD"}, {"ERRORS"}}
=============================================================================

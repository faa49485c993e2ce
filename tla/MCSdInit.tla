------------------------------ MODULE MCSdInit ------------------------------
(* Instances of SdInit for TLC. *)
EXTENDS SdInit

InitCodes == {"GO_IDLE", "SEND_IF_COND", "SEND_OP_COND", "ALL_SEND_CID", "SEND_REL_ADDR",
              "CARD_SELECT", "SEND_SCR", "SET_BUS_WIDTH"}
InitResponses == {{}, {"APP_CMD"}, {"ECHO"}, {"RCA"}, {"VOLTAGE"}, {"VOLTAGE", "COMPLETE"},
                  {"VOLTAGE", "COMPLETE", "CCS"}}

Kind(version, ccs_, scr) == [version |-> version, ccs |-> ccs_, scr |-> scr]

\* A card of version 1, standard cards of version 2, high capacity cards with
\* and without SET_BLOCKCNT, and one with a single data line.
AllCards == {Kind(1, FALSE, {"BUS_WIDTH_4", "CCS"}),
             Kind(2, FALSE, {"BUS_WIDTH_4"}),
             Kind(2, TRUE, {"SET_BLKCNT"}),
             Kind(2, TRUE, {"BUS_WIDTH_4", "SET_BLKCNT"})}
OneCard == {Kind(2, TRUE, {"BUS_WIDTH_4", "SET_BLKCNT"})}
=============================================================================

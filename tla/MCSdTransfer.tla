---------------------------- MODULE MCSdTransfer ----------------------------
(* Instances of SdTransfer for TLC. *)
EXTENDS SdTransfer, TLC

CONSTANTS d1, d2

TransferCodes == {"SET_BLOCKCNT", "READ_SINGLE", "READ_MULTI", "WRITE_SINGLE",
                  "WRITE_MULTI", "STOP_TRANS"}
TransferResponses == {{}, {"ERRORS"}}
TransferArgs == 0 .. (NumBlocks + MaxNum) * BlockLen

\* The contents of blocks are only compared.
Contents == Permutations({d1, d2})

HighCapacity == {{"CCS"}, {"CCS", "SET_BLKCNT"}}
StandardCapacity == {{}}
AnyCapacity == HighCapacity \cup StandardCapacity
=============================================================================

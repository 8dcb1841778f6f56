----------------------------- MODULE MCFirmware -----------------------------
EXTENDS FirmwareInv
=============================================================================

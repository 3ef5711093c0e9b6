-------------------------------- MODULE MCClient --------------------------------
\* Small instances of Client, and of the Player it extends, for TLC.
EXTENDS Client

MCAmounts == -1..2
================================================================================

-------------------------------- MODULE MCWatch --------------------------------
EXTENDS Watch
================================================================================

------------------------- MODULE MCCourierDownload -------------------------
EXTENDS CourierDownload
=============================================================================

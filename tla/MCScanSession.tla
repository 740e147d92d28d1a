--------------------------- MODULE MCScanSession ---------------------------
\* Small instances of ScanSession.
EXTENDS ScanSession
=============================================================================

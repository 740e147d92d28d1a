--------------------------- MODULE MCScanService ---------------------------
\* Small instances of ScanService.
EXTENDS ScanService
=============================================================================

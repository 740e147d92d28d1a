---------------------------- MODULE MCSshControl ----------------------------
\* Small instances of SshControl.
EXTENDS SshControl
=============================================================================

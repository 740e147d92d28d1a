---------------------------- MODULE MCJoinDialog ----------------------------
\* Small instances of JoinDialog.
EXTENDS JoinDialog
=============================================================================

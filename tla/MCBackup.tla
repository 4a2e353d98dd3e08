------------------------------ MODULE MCBackup ------------------------------
\* Backup on a chain of three heights.
EXTENDS Backup
=============================================================================

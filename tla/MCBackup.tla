------------------------------ MODULE MCBackup ------------------------------
EXTENDS Backup, TLC

\* Tasks are interchangeable, and so are the changes of one class.
Symmetry == Permutations(Tasks) \cup Permutations(Changes \ TopupChanges)
=============================================================================

---------------------------- MODULE MCPermission ----------------------------
(* Instances of Permission for TLC.                                         *)
EXTENDS Permission

CONSTANTS f1, f2, self, other

\* The required mode, and one more bit of each kind that the texts treat
\* differently from the rest.
MCMode == {Required} \cup {Required \cup {b} : b \in {"IXOTH", "ISVTX"}}

MCFlag == {{}, {"UID", "MODE"}, VANESSA_CONFIG_FILE_CHECK_ALL}
=============================================================================

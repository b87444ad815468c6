----------------------------- MODULE Permission -----------------------------
(***************************************************************************)
(* vanessa_config_file_check_permission and _check_exits of config_file.c, *)
(* each for a path and for a descriptor of the caller, and the two         *)
(* functions that put a mode into words.  A program runs one check after   *)
(* another, while other processes change the file's mode and owner and     *)
(* move other files to its path: before, during and after the check.       *)
(*                                                                         *)
(* A file is what an inode holds; its type never changes.  A mode is the   *)
(* set of its bits without the type.  The uid, gid and mode arguments are  *)
(* not modelled: the code does not use them.  Names are kept apart from    *)
(* those of ConfigFile, so that one module can extend both.                *)
(***************************************************************************)
EXTENDS Integers

CONSTANTS
    File,         \* inodes
    Regular,      \* those that are regular files
    Id,           \* user ids, and group ids
    euid, egid,   \* what geteuid and getegid return
    Mode,         \* the modes that files are given
    Flag,         \* the flag arguments
    NOTHING,      \* no file, and no value yet
    MaxChanges    \* how often a file changes during one check

Bit == {"ISUID", "ISGID", "ISVTX", "IRUSR", "IWUSR", "IXUSR",
        "IRGRP", "IWGRP", "IXGRP", "IROTH", "IWOTH", "IXOTH"}

VANESSA_CONFIG_FILE_CHECK_ALL == {"UID", "GID", "MODE", "FILE"}

Attr == [type : {"reg", "dir"}, uid : Id, gid : Id, mode : Mode]

ASSUME PermissionAssumption ==
    /\ Regular \subseteq File
    /\ {euid, egid} \subseteq Id
    /\ Mode \subseteq SUBSET Bit
    /\ Flag \subseteq SUBSET VANESSA_CONFIG_FILE_CHECK_ALL
    /\ NOTHING \notin File \cup Attr
    /\ MaxChanges \in Nat

VARIABLES
    named,        \* the file at the path, NOTHING when there is none
    attr,         \* what fstat says of each file
    table,        \* descriptors: the caller's, and the one of the library
    pc,           \* where the check is, "idle" outside of it
    fd,           \* which descriptor it looks at
    flag,         \* its flag argument
    stat_buf,     \* stat_buf, NOTHING before fstat succeeded
    verdict,      \* what the last check returned
    seen,         \* ghost: what the checked file was since the check began
    changes       \* changes of files during this check

check_vars == <<named, attr, table, pc, fd, flag, stat_buf, verdict, seen, changes>>
files == <<named, attr>>

----------------------------------------------------------------------------
Letter == <<"IRUSR", "IWUSR", "IXUSR", "IRGRP", "IWGRP", "IXGRP",
            "IROTH", "IWOTH", "IXOTH">>

\* vanessa_mode_str: every known type falls through to the last case, and the
\* sticky bit is shown with the group.  Types are "none", which the checks
\* pass, and those of <sys/stat.h>.
ModeStr(type, mode) ==
    [p \in 0 .. 9 |->
        CASE p = 0 -> IF type = "none" THEN "-" ELSE "p"
          [] p = 3 /\ "ISUID" \in mode -> IF "IXUSR" \in mode THEN "s" ELSE "S"
          [] p = 6 /\ "ISVTX" \in mode -> IF "IXOTH" \in mode THEN "t" ELSE "T"
          [] p = 6 /\ "ISGID" \in mode /\ "ISVTX" \notin mode ->
                IF "IXGRP" \in mode THEN "s" ELSE "S"
          [] OTHER -> IF Letter[p] \notin mode THEN "-"
                      ELSE IF p % 3 = 1 THEN "r" ELSE IF p % 3 = 2 THEN "w" ELSE "x"]

\* Mutant: the last bit is forgotten.
ModeNumNoOthers(mode) ==
    {CASE b = "ISUID" -> \h4000 [] b = "ISGID" -> \h2000 [] b = "ISVTX" -> \h1000
       [] b = "IRUSR" -> \h0400 [] b = "IWUSR" -> \h0200 [] b = "IXUSR" -> \h0100
       [] b = "IRGRP" -> \h0040 [] b = "IWGRP" -> \h0020 [] b = "IXGRP" -> \h0010
       [] b = "IROTH" -> \h0004 [] b = "IWOTH" -> \h0002 : b \in mode \ {"IXOTH"}}

\* vanessa_mode_num_str, as the set of the flags that are or'ed together; each
\* is one bit of a digit of its own, so the text shows exactly this set.  The
\* last bit is given the place of the group's.
ModeNum(mode) ==
    {CASE b = "ISUID" -> \h4000 [] b = "ISGID" -> \h2000 [] b = "ISVTX" -> \h1000
       [] b = "IRUSR" -> \h0400 [] b = "IWUSR" -> \h0200 [] b = "IXUSR" -> \h0100
       [] b = "IRGRP" -> \h0040 [] b = "IWGRP" -> \h0020 [] b = "IXGRP" -> \h0010
       [] b = "IROTH" -> \h0004 [] b = "IWOTH" -> \h0002 [] b = "IXOTH" -> \h0010
        : b \in mode}

Required == {"IRUSR", "IWUSR"}

----------------------------------------------------------------------------
\* The checks, on what fstat returned: one that finds a difference fails, and so
\* does the strdup of the name to report.
Accepts(s) ==
    /\ "FILE" \in flag => s.type = "reg"
    /\ "UID"  \in flag => s.uid = euid
    /\ "GID"  \in flag => s.gid = egid
    /\ "MODE" \in flag => s.mode = Required

BeginCheck(first, d, f) ==
    /\ pc = "idle"
    /\ pc' = first
    /\ fd' = d
    /\ flag' = f
    /\ stat_buf' = NOTHING
    /\ verdict' = NOTHING
    /\ seen' = IF first = "fstat" THEN {attr[table[d]]} ELSE {}
    /\ changes' = 0
    /\ UNCHANGED <<files, table>>

CheckPermission(f) == BeginCheck("open", "lib", f)

CheckPermissionFd(f) == BeginCheck("fstat", "own", f)

CheckExits == BeginCheck("open", "lib", {"FILE"})

CheckExitsFd == BeginCheck("fstat", "own", {"FILE"})

Open ==
    /\ pc = "open"
    /\ named # NOTHING
    /\ table' = [table EXCEPT !.lib = named]
    /\ seen' = {attr[named]}
    /\ pc' = "fstat"
    /\ UNCHANGED <<files, fd, flag, stat_buf, verdict, changes>>

OpenFails ==
    /\ pc = "open"
    /\ pc' = "idle"
    /\ verdict' = -1
    /\ UNCHANGED <<files, table, fd, flag, stat_buf, seen, changes>>

\* Mutant: stat of the path in place of fstat.
FstatPath ==
    /\ pc = "fstat"
    /\ named # NOTHING
    /\ stat_buf' = attr[named]
    /\ pc' = "check"
    /\ UNCHANGED <<files, table, fd, flag, verdict, seen, changes>>

Fstat ==
    /\ pc = "fstat"
    /\ stat_buf' = attr[table[fd]]
    /\ pc' = "check"
    /\ UNCHANGED <<files, table, fd, flag, verdict, seen, changes>>

\* Mutant: the check goes on with what is in stat_buf.
FstatFailsUnseen ==
    /\ pc = "fstat"
    /\ pc' = "check"
    /\ UNCHANGED <<files, table, fd, flag, stat_buf, verdict, seen, changes>>

FstatFails ==
    /\ pc = "fstat"
    /\ verdict' = -1
    /\ pc' = IF fd = "lib" THEN "close" ELSE "idle"
    /\ UNCHANGED <<files, table, fd, flag, stat_buf, seen, changes>>

\* Mutant: a check that fails returns at once.
CheckReturns ==
    /\ pc = "check"
    /\ verdict' = IF Accepts(stat_buf) THEN 0 ELSE -1
    /\ pc' = IF fd = "lib" /\ Accepts(stat_buf) THEN "close" ELSE "idle"
    /\ UNCHANGED <<files, table, fd, flag, stat_buf, seen, changes>>

Check ==
    /\ pc = "check"
    /\ verdict' = IF Accepts(stat_buf) THEN 0 ELSE -1
    /\ pc' = IF fd = "lib" THEN "close" ELSE "idle"
    /\ UNCHANGED <<files, table, fd, flag, stat_buf, seen, changes>>

Close ==
    /\ pc = "close"
    /\ table' = [table EXCEPT !.lib = NOTHING]
    /\ pc' = "idle"
    /\ UNCHANGED <<files, fd, flag, stat_buf, verdict, seen, changes>>

----------------------------------------------------------------------------
\* Other processes
Counted ==
    /\ pc # "idle"
    /\ changes < MaxChanges
    /\ changes' = changes + 1
    /\ UNCHANGED <<table, pc, fd, flag, stat_buf, verdict>>

\* A file is another after a chmod, chown or chgrp.
Change(f, s) ==
    /\ Counted
    /\ attr' = [attr EXCEPT ![f] = s]
    /\ seen' = IF table[fd] = f THEN seen \cup {s} ELSE seen
    /\ UNCHANGED named

Chmod(f)  == \E m \in Mode : Change(f, [attr[f] EXCEPT !.mode = m])
Chown(f)  == \E u \in Id : Change(f, [attr[f] EXCEPT !.uid = u])
Chgrp(f)  == \E g \in Id : Change(f, [attr[f] EXCEPT !.gid = g])

\* The path gets another file, or none.
Rename ==
    /\ Counted
    /\ named' \in (File \cup {NOTHING}) \ {named}
    /\ UNCHANGED <<attr, seen>>

----------------------------------------------------------------------------
CheckInit ==
    /\ named \in File \cup {NOTHING}
    /\ attr \in [File -> Attr]
    /\ \A f \in File : attr[f].type = "reg" <=> f \in Regular
    /\ table \in [own : File, lib : {NOTHING}]
    /\ pc = "idle"
    /\ fd = "own"
    /\ flag = {}
    /\ stat_buf = NOTHING
    /\ verdict = NOTHING
    /\ seen = {}
    /\ changes = 0

CheckNext ==
    \/ \E f \in Flag : CheckPermission(f)
    \/ \E f \in Flag : CheckPermissionFd(f)
    \/ CheckExits
    \/ CheckExitsFd
    \/ Open
    \/ OpenFails
    \/ Fstat
    \/ FstatFails
    \/ Check
    \/ Close
    \/ \E f \in File : Chmod(f)
    \/ \E f \in File : Chown(f)
    \/ \E f \in File : Chgrp(f)
    \/ Rename

CheckSpec == CheckInit /\ [][CheckNext]_check_vars

----------------------------------------------------------------------------
CheckTypeOK ==
    /\ named \in File \cup {NOTHING}
    /\ attr \in [File -> Attr]
    /\ table \in [own : File, lib : File \cup {NOTHING}]
    /\ pc \in {"idle", "open", "fstat", "check", "close"}
    /\ fd \in {"own", "lib"}
    /\ flag \subseteq VANESSA_CONFIG_FILE_CHECK_ALL
    /\ stat_buf \in Attr \cup {NOTHING}
    /\ pc = "fstat" => table[fd] # NOTHING
    /\ pc = "check" => stat_buf # NOTHING
    /\ verdict \in {0, -1, NOTHING}
    /\ seen \subseteq Attr
    /\ changes \in 0 .. MaxChanges

\* However other processes change the file, or put another in its place, while a
\* check runs: what it says was true of the checked file as it was at one moment
\* between the call and the return, for all checks at once (config_file.c 584-657).
\* A check for which open or fstat failed says nothing of a file.
VerdictOfOneMoment ==
    pc = "idle" /\ stat_buf # NOTHING =>
        \E s \in seen : verdict = 0 <=> Accepts(s)

\* On every path out of a check its own descriptor is closed again, and the
\* caller's is left open (config_file.c 680-690, 730-739).
DescriptorsBalanced ==
    pc = "idle" => table.lib = NOTHING /\ table.own # NOTHING

\* A mode that is refused is never reported as the required one, in letters or in
\* digits, although both texts show some modes alike (config_file.c 642-653).
RefusalLegible ==
    stat_buf # NOTHING /\ stat_buf.mode # Required =>
        /\ ModeStr("none", stat_buf.mode) # ModeStr("none", Required)
        /\ ModeNum(stat_buf.mode) # ModeNum(Required)
=============================================================================

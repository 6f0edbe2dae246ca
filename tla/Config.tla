------------------------------- MODULE Config -------------------------------
(***************************************************************************)
(* src/configstuff/config.c and apps/ax25tnc/config.c: a file of lines     *)
(* "KEY value" is read into a table, and the TNC asks the table for the    *)
(* keys it needs.  A line is the sequence of its words, a comment's first  *)
(* word is Hash.  How atoi() and atof() read a word is a constant.         *)
(***************************************************************************)
EXTENDS Integers, Sequences

CONSTANTS MaxEntries,    \* CONFIG_MAX_ENTRIES
          StrKeys,       \* keys read with cs_config_get_str: HOST
          NumKeys,       \* keys read with cs_config_get_int or _float
          Hash,          \* what a comment starts with: '#' or ';'
          Atoi(_)        \* the number a word is read as, 0 if it is none

ASSUME ConfigAssumption ==
    MaxEntries \in Nat /\ Hash \notin StrKeys \cup NumKeys /\ StrKeys # {}

Keys == StrKeys \cup NumKeys

\* Does a line get past the checks of the reading loop?
IsEntry(line) == Len(line) >= 2 /\ line[1] # Hash

\* One turn of the reading loop: the table takes an entry while it has room.
Read(entries, line) ==
    IF Len(entries) < MaxEntries /\ IsEntry(line) THEN Append(entries, line) ELSE entries

\* The loop, as long as every line fits the line buffer: the table after n lines.
Table(file) ==
    LET after[n \in 0 .. Len(file)] ==
          IF n = 0 THEN <<>> ELSE Read(after[n - 1], file[n])
    IN  after

cs_config_read(file) == Table(file)[Len(file)]

Has(entries, key) == \E i \in DOMAIN entries : entries[i][1] = key

\* Mutant of cs_config_get_str: the last entry counts.
GetLast(entries, key) ==
    LET found == CHOOSE i \in DOMAIN entries :
                    /\ entries[i][1] = key
                    /\ \A j \in i + 1 .. Len(entries) : entries[j][1] # key
    IN  entries[found][2]

\* cs_config_get_str, for a key that is there: the first entry counts.
cs_config_get_str(entries, key) ==
    LET found == CHOOSE i \in DOMAIN entries :
                    entries[i][1] = key /\ \A j \in 1 .. i - 1 : entries[j][1] # key
    IN  entries[found][2]

\* cs_config_get_int and cs_config_get_float
cs_config_get_int(entries, key) == Atoi(cs_config_get_str(entries, key))

\* ax25tnc_config_read: the TNC's parameters, or <<>> if one is not supplied.
ax25tnc_config_read(file) ==
    LET entries == cs_config_read(file)
    IN  IF \A k \in Keys : Has(entries, k)
        THEN [k \in Keys |-> IF k \in NumKeys THEN cs_config_get_int(entries, k)
                             ELSE cs_config_get_str(entries, k)]
        ELSE <<>>
=============================================================================

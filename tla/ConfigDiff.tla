------------------------------ MODULE ConfigDiff ------------------------------
(***************************************************************************)
(* The comparison of two configurations by compare_fabric_snapshots and    *)
(* get_fabric_config_diff.  A configuration maps the keys of CONFIG_DB to  *)
(* their fields, and those to values.                                      *)
(***************************************************************************)
CONSTANTS
    Table,         \* the table of each key
    None

Get(fields, f) == IF f \in DOMAIN fields THEN fields[f] ELSE None

\* _extract_table, for all the tables of a comparison.  (It drops a table or a key whose
\* value is no JSON object, which no CONFIG_DB has.)
Extract(config, tables) ==
    [k \in {k \in DOMAIN config : Table[k] \in tables} |-> config[k]]

\* _dump_table: a table whose KEYS fail is empty, a key whose HGETALL fails is left out, and
\* one whose fields cannot be parsed has none.
NoFields == [f \in {} |-> None]

Dump(config, tables, failed, garbled) ==
    [k \in {k \in DOMAIN config : Table[k] \in tables /\ {k, Table[k]} \cap failed = {}} |->
        IF k \in garbled THEN NoFields ELSE config[k]]

\* Mutant: keys that only the right side has are not looked for.
MutDiffOne(left, right) ==
    [leftOnly |-> DOMAIN left \ DOMAIN right,
     rightOnly |-> {},
     differing |-> {k \in DOMAIN left \cap DOMAIN right :
                        \E f \in DOMAIN left[k] \cup DOMAIN right[k] :
                            Get(left[k], f) # Get(right[k], f)}]

\* _diff_one
DiffOne(left, right) ==
    [leftOnly |-> DOMAIN left \ DOMAIN right,
     rightOnly |-> DOMAIN right \ DOMAIN left,
     differing |-> {k \in DOMAIN left \cap DOMAIN right :
                        \E f \in DOMAIN left[k] \cup DOMAIN right[k] :
                            Get(left[k], f) # Get(right[k], f)}]

Named(diff) == diff.leftOnly \cup diff.rightOnly \cup diff.differing

=============================================================================

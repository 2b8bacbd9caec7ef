-------------------------------- MODULE Helper --------------------------------
(***************************************************************************)
(* p4runtime_lib/helper.py: a table entry, as a plugin or a YAML file      *)
(* gives it, as the fields of a P4Runtime message.  The width of a field   *)
(* and the kind of its match come from the P4Info of the program.          *)
(***************************************************************************)
EXTENDS Convert

\* A match field or an action parameter.  The prefix length of an LPM match is
\* passed on unchecked and is not a value here.
Field(kind, values, bitwidth) ==
    [kind |-> kind, values |-> values, bitwidth |-> bitwidth]

\* Kinds whose one value is encoded, and kinds with two.  Of any other, and of
\* a table, field, action or parameter that the P4Info does not have, the kind
\* here is "unknown".
Single == {"exact", "lpm", "param"}
Double == {"ternary", "range"}

fieldBytes(f) == [i \in DOMAIN f.values |-> encode(f.values[i], f.bitwidth)]

\* No AttributeError for a name, and no exception of encode.
CanBuild(fields) ==
    \A f \in fields :
        /\ f.kind \in Single \cup Double
        /\ \A i \in DOMAIN f.values : fieldBytes(f)[i] # Raises

buildTableEntry(fields) == {[asked |-> f, bytes |-> fieldBytes(f)] : f \in fields}

=============================================================================

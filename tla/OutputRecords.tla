---------------------------- MODULE OutputRecords ----------------------------
(***************************************************************************)
(* The settings of the outputs as foobar2000's configuration keeps them:   *)
(* a file of records, each with the id of an output and its setting.  An   *)
(* output is looked up under its id and its aliases, which the file does   *)
(* not store.  One Boolean stands for selection, volume and visibility.    *)
(*                                                                         *)
(* An output is a record with a setting "on" and a set "aliases" of ids;   *)
(* a list of outputs is a function from their ids.                         *)
(***************************************************************************)
EXTENDS Naturals

Firsts(ids) == {i \in ids : \A j \in ids \ {i} : i < j}
First(ids) == CHOOSE i \in Firsts(ids) : TRUE

\* The ids under which an output may have been known.
Ids(i, output) == {i} \cup output.aliases

\* find_if in a list of outputs, which std::map keeps in the order of their ids.
OutputsWith(id, outputs) == {i \in DOMAIN outputs : id \in Ids(i, outputs[i])}

\* The file of records: for each id the setting, and the ids whose records stand
\* before its own.
NoRecords == [i \in {} |-> [on |-> FALSE, before |-> {}]]

\* The first record of an output, as apply_stored_output_state() finds it.
RecordOf(records, i, output) ==
    LET own == DOMAIN records \cap Ids(i, output)
    IN  {k \in own : records[k].before \cap own = {}}

Applied(records, i, output) ==
    IF RecordOf(records, i, output) = {} THEN output
    ELSE LET k == CHOOSE k \in RecordOf(records, i, output) : TRUE
         IN  [output EXCEPT !.on = records[k].on]

\* The outputs whose record has another id: theirs is stored again.
Misfiled(records, outputs) ==
    {i \in DOMAIN outputs : RecordOf(records, i, outputs[i]) \ {i} # {}}

\* update_stored_output_state(): one record for the output, where it was or else at
\* the end, and none for its aliases.
WithRecord(records, i, output) ==
    LET kept == DOMAIN records \ output.aliases
        place(k) == records[k].before \ output.aliases
    IN  [k \in kept \cup {i} |->
            IF k # i THEN [on |-> records[k].on, before |-> place(k)]
            ELSE [on |-> output.on, before |-> IF i \in kept THEN place(i) ELSE kept]]
=============================================================================

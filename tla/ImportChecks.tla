----------------------------- MODULE ImportChecks -----------------------------
(***************************************************************************)
(* What the program says of an import file before it imports it.  Four       *)
(* readers judge the same file, each with its own code: the confirmation of  *)
(* an upload (validate_import_file), the preview (preview_with_validation),  *)
(* the streaming validation a run of the job makes of a CSV file             *)
(* (validate_csv_content_streaming), and import_data itself, which refuses   *)
(* rows one at a time.                                                       *)
(*                                                                           *)
(* The readers run at different times; here they read side by side, a row a  *)
(* step, so that a state relates their verdicts on the same rows.  Of a file *)
(* only what tells the verdicts apart is kept: one required column, the two  *)
(* columns a row may be matched on, and whether the other cells are sound.   *)
(***************************************************************************)
EXTENDS Integers

CONSTANT MaxRows   \* bound: rows of the file

ASSUME Assumption == MaxRows \in Nat \ {0}

\* Where the required field is: under its own name, under the name that the
\* job's field mapping renames, or nowhere.
Columns == {"target", "source", "absent"}

\* A CSV file has these by its header, a JSON file record by record.
CsvFiles  == [format : {"csv"}, size : {"fits", "large"}, header : BOOLEAN, acts : BOOLEAN,
              column : Columns, mapped : BOOLEAN, mode : {"write", "update"},
              matchOn : {"external_id", "other"}]
JsonFiles == [format : {"json"}, size : {"fits", "large"}, mapped : BOOLEAN,
              mode : {"write", "update"}, matchOn : {"external_id", "other"}]

\* "write" is create or upsert.  id is the cell of external_id, other the cell of
\* another column that import_config.match_key may name.
Actions == {"absent", "blank", "unknown", "delete", "update", "write"}
Rows == [object : BOOLEAN, action : Actions, id : {"given", "spaces", "empty"},
         other : {"given", "spaces", "empty"}, column : Columns,
         value : {"given", "blank"}, cells : {"sound", "malformed"}]

Errors   == {"size", "header", "columns", "record", "key", "action", "required", "value",
             "rows", "reading"}
Refusals == {"record", "blank_action", "unknown_action", "delete_key", "column", "required",
             "update_key"}

VARIABLES
    file,      \* the file, and the configuration of the job that imports it
    phase,     \* of the reading: "opening", "reading" or "done"
    rows,      \* rows read
    acts,      \* has_action_column: an action is looked for in every row
    confirm,   \* the kinds of error the confirmation has collected
    raised,    \* the preview has ended in a ValueError
    shownValid, shownInvalid,      \* valid_count and invalid_count of the preview
    total, valid, invalid,         \* the counts of the streaming validation
    refused    \* the reasons import_data has for refusing rows of the file

preview == <<raised, shownValid, shownInvalid>>
stream  == <<total, valid, invalid>>
vars    == <<file, phase, rows, acts, confirm, preview, stream, refused>>

Csv  == file.format = "csv"
\* validate_file_format: what is checked before the file is opened.
Fits == file.size = "fits"

TypeOK ==
    /\ file \in CsvFiles \union JsonFiles
    /\ phase \in {"opening", "reading", "done"}
    /\ rows \in 0..MaxRows
    /\ acts \in BOOLEAN
    /\ confirm \subseteq Errors
    /\ raised \in BOOLEAN
    /\ shownValid \in 0..MaxRows /\ shownInvalid \in 0..MaxRows
    /\ total \in 0..MaxRows /\ valid \in 0..MaxRows /\ invalid \in 0..(MaxRows + 1)
    /\ refused \subseteq Refusals

Init ==
    /\ file \in CsvFiles \union JsonFiles
    /\ phase = "opening"
    /\ rows = 0
    /\ acts = FALSE
    /\ confirm = {}
    /\ raised = FALSE
    /\ shownValid = 0 /\ shownInvalid = 0
    /\ total = 0 /\ valid = 0 /\ invalid = 0
    /\ refused = {}

-----------------------------------------------------------------------------
\* The set {e} when p holds.
When(p, e) == IF p THEN {e} ELSE {}

One(p) == IF p THEN 1 ELSE 0

\* apply_field_mappings, of the one column it renames here.
Available(column, mapped) == column = "target" \/ (column = "source" /\ mapped)

\* The checks of _validate_row.  It leaves a missing column to the file level.
RowErrors(r, column, mapped) ==
    When(Available(column, mapped) /\ r.value = "blank", "required")
        \union When(r.cells = "malformed", "value")

\* Mutant of DeleteErrors: a deletion is passed without a look at its key.
DeleteErrorsUnchecked(r) == {}

\* A DELETE needs an external_id, whatever column the job matches on.
DeleteErrors(r) == When(r.id = "empty", "key")

ColumnOf(r) == IF Csv THEN file.column ELSE r.column

\* _validate_csv_content and _validate_json_content; no mapping is known yet.
ConfirmErrors(r, has) ==
    IF ~r.object THEN {"record"}
    ELSE IF has /\ r.action = "delete" THEN DeleteErrors(r)
    ELSE RowErrors(r, ColumnOf(r), FALSE) \union When(has /\ r.action = "unknown", "action")

\* Mutant of StreamErrors: an unknown action is taken for a change.
StreamErrorsAnyAction(r, has) ==
    IF has /\ r.action = "delete" THEN DeleteErrors(r)
    ELSE RowErrors(r, ColumnOf(r), file.mapped)

\* Mutant of StreamErrors: the fields available are those before the mapping.
StreamErrorsUnmapped(r, has) ==
    IF has /\ r.action = "delete" THEN DeleteErrors(r)
    ELSE IF has /\ r.action = "unknown" THEN {"action"}
    ELSE RowErrors(r, ColumnOf(r), FALSE)

\* validate_csv_content_streaming
StreamErrors(r, has) ==
    IF has /\ r.action = "delete" THEN DeleteErrors(r)
    ELSE IF has /\ r.action = "unknown" THEN {"action"}
    ELSE RowErrors(r, ColumnOf(r), file.mapped)

\* Mutant of PreviewErrors: an empty action passes, as in the validation.
PreviewErrorsBlankPasses(r, has) ==
    IF ~r.object THEN {"record"}
    ELSE IF has /\ r.action = "delete" THEN DeleteErrors(r)
    ELSE RowErrors(r, ColumnOf(r), file.mapped) \union When(has /\ r.action = "unknown", "action")

\* _preview_csv and _preview_json; only they ask for an action in every row.
PreviewErrors(r, has) ==
    IF ~r.object THEN {"record"}
    ELSE IF has /\ r.action = "delete" THEN DeleteErrors(r)
    ELSE RowErrors(r, ColumnOf(r), file.mapped)
            \union When(has /\ r.action \in {"unknown", "blank", "absent"}, "action")

\* The checks import_data makes of a row before it asks the database.
Refused(r, has) ==
    LET act   == IF has THEN r.action ELSE file.mode
        match == IF file.matchOn = "external_id" THEN r.id ELSE r.other
    IN  IF ~r.object THEN {"record"}
        ELSE IF act \in {"blank", "absent"} THEN {"blank_action"}
        ELSE IF act = "unknown" THEN {"unknown_action"}
        ELSE IF act = "delete" THEN When(match = "empty", "delete_key")
        ELSE IF ~Available(ColumnOf(r), file.mapped) THEN {"column"}
        ELSE IF r.value = "blank" THEN {"required"}
        ELSE When(act = "update" /\ match # "given", "update_key")

-----------------------------------------------------------------------------
\* The size is checked by the confirmation and the preview, not by the run.
\* A file of no bytes has no header either.
NoHeader ==
    /\ phase = "opening" /\ Csv /\ ~file.header
    /\ phase' = "done"
    /\ confirm' = {IF ~Fits THEN "size" ELSE "header"}
    /\ raised' = TRUE
    /\ invalid' = 1
    /\ UNCHANGED <<file, rows, acts, shownValid, shownInvalid, total, valid, refused>>

\* A file of rows with actions may lack required columns: its deletions do not need
\* them.
Header ==
    /\ phase = "opening" /\ Csv /\ file.header
    /\ phase' = "reading"
    /\ acts' = file.acts
    /\ confirm' = IF ~Fits THEN {"size"}
                  ELSE When(~file.acts /\ ~Available(file.column, FALSE), "columns")
    /\ raised' = (~Fits)
    /\ invalid' = IF ~file.acts /\ ~Available(file.column, file.mapped) THEN 1 ELSE 0
    /\ UNCHANGED <<file, rows, shownValid, shownInvalid, total, valid, refused>>

OpenJson ==
    /\ phase = "opening" /\ ~Csv
    /\ phase' = "reading"
    /\ confirm' = When(~Fits, "size")
    /\ raised' = (~Fits)
    /\ UNCHANGED <<file, rows, acts, shownValid, shownInvalid, stream, refused>>

\* The rows the file may go on with.  In a CSV file each has every column.
NextRows ==
    IF Csv THEN {r \in Rows : r.object /\ r.column = file.column
                              /\ (r.action = "absent") = ~file.acts}
    ELSE Rows

\* The first record of a JSON file decides whether an action is looked for.
HasActions(r) ==
    IF ~Csv /\ rows = 0 THEN r.object /\ r.action # "absent" ELSE acts

ReadRow(r) ==
    /\ phase = "reading" /\ rows < MaxRows
    /\ rows' = rows + 1
    /\ acts' = HasActions(r)
    /\ confirm' = IF ~Fits THEN confirm
                  ELSE confirm \union ConfirmErrors(r, acts')
    /\ shownValid' = shownValid + One(~raised /\ PreviewErrors(r, acts') = {})
    /\ shownInvalid' = shownInvalid + One(~raised /\ PreviewErrors(r, acts') # {})
    /\ total' = total + One(Csv)
    /\ valid' = valid + One(Csv /\ StreamErrors(r, acts') = {})
    /\ invalid' = invalid + One(Csv /\ StreamErrors(r, acts') # {})
    /\ refused' = refused \union Refused(r, acts')
    /\ UNCHANGED <<file, phase, raised>>

\* Mutant of Unreadable: the error is counted on top of the rows.
UnreadableCounted ==
    /\ phase = "reading" /\ (Csv \/ rows = 0)
    /\ phase' = "done"
    /\ confirm' = IF ~Fits THEN confirm ELSE confirm \union {"reading"}
    /\ raised' = TRUE
    /\ invalid' = invalid + One(Csv)
    /\ UNCHANGED <<file, rows, acts, shownValid, shownInvalid, total, valid, refused>>

\* Bytes that are not UTF-8 or not CSV, at any row; JSON is parsed before any.
\* The streaming validation forgets its counts.
Unreadable ==
    /\ phase = "reading" /\ (Csv \/ rows = 0)
    /\ phase' = "done"
    /\ confirm' = IF ~Fits THEN confirm ELSE confirm \union {"reading"}
    /\ raised' = TRUE
    /\ total' = 0 /\ valid' = 0
    /\ invalid' = One(Csv)
    /\ UNCHANGED <<file, rows, acts, shownValid, shownInvalid, refused>>

\* A CSV file without rows is an error to all but the preview.
EndOfFile ==
    /\ phase = "reading"
    /\ phase' = "done"
    /\ confirm' = IF Csv /\ rows = 0 /\ Fits THEN confirm \union {"rows"}
                  ELSE confirm
    /\ invalid' = invalid + One(Csv /\ rows = 0)
    /\ UNCHANGED <<file, rows, acts, preview, total, valid, refused>>

Next == \/ NoHeader \/ Header \/ OpenJson
        \/ \E r \in NextRows : ReadRow(r)
        \/ Unreadable \/ EndOfFile

Spec == Init /\ [][Next]_vars

-----------------------------------------------------------------------------
\* The confirmation of a CSV file and the validation by the run that imports it
\* are two pieces of code, with different answers for a bad action, a missing
\* column, an empty file.  Where the size is allowed and no mapping is configured
\* they accept the same files, so what a client was told at the confirmation is
\* what the run finds.
StreamingAgreesWithConfirm ==
    Csv /\ ~file.mapped /\ Fits => (confirm = {} <=> invalid = 0)

\* A CSV file that the run's validation lets through still holds rows that
\* import_data refuses, and these are all: rows with an empty action, updates
\* without a match value, any row when actions excused the file from having the
\* required column, and deletions when the job matches on another column than the
\* one the validation asks for.
ValidFileRefusals ==
    Csv /\ phase # "opening" /\ invalid = 0 =>
        /\ refused \subseteq {"blank_action", "update_key", "column", "delete_key"}
        /\ "column" \in refused => acts
        /\ "delete_key" \in refused => file.matchOn # "external_id"

\* The preview asks for an action in every row, in both formats, so a file whose
\* preview marks no row has none that is refused for its action, although a run
\* of the JSON file validates nothing.  It says nothing of a missing column.
CleanPreviewRefusals ==
    ~raised /\ shownInvalid = 0 =>
        /\ refused \subseteq {"column", "update_key", "delete_key"}
        /\ "delete_key" \in refused => file.matchOn # "external_id"

\* A client that saw no invalid record in the preview of a CSV file, made with the
\* mapping of the job, does not see the run fail its validation, if there were
\* records and the preview could know the required column; and a file the
\* validation accepts shows no invalid record unless an action is empty.
PreviewAgreesWithValidation ==
    Csv /\ phase = "done" /\ ~raised =>
        /\ shownInvalid = 0 /\ rows > 0 /\ (acts \/ Available(file.column, file.mapped))
               => invalid = 0
        /\ invalid = 0 => shownInvalid = 0 \/ "blank_action" \in refused

=============================================================================

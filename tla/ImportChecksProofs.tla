-------------------------- MODULE ImportChecksProofs --------------------------
(***************************************************************************)
(* The readers of ImportChecks agree as stated, for files of any length.    *)
(* Row by row the readers' checks are compared in four lemmas that know      *)
(* nothing of the state; the invariant carries the comparison through the    *)
(* counts, which start from the header and may be reset by an unreadable row.*)
(***************************************************************************)
EXTENDS ImportChecks, TLAPS

Configuration == file \in CsvFiles \union JsonFiles

\* What a step knows of the verdicts: before the header, during and after the rows.
Opening == phase = "opening" =>
    /\ rows = 0 /\ acts = FALSE /\ confirm = {} /\ refused = {} /\ raised = FALSE
    /\ shownValid = 0 /\ shownInvalid = 0 /\ total = 0 /\ valid = 0 /\ invalid = 0

\* The counts stay below the rows read, with one for the header.
CountsBounded ==
    /\ total <= rows /\ valid <= rows
    /\ phase # "done" => invalid <= rows + 1
    /\ shownValid <= rows /\ shownInvalid <= rows

\* While a CSV file is read its header stands for all its rows.
HeaderKept == phase = "reading" /\ Csv =>
    /\ acts = file.acts
    /\ invalid = 0 => acts \/ Available(file.column, file.mapped)

\* PreviewAgreesWithValidation before the end of the file.
PreviewAgrees ==
    phase = "reading" /\ Csv /\ ~raised =>
        /\ shownInvalid = 0 /\ (acts \/ Available(file.column, file.mapped))
               => invalid = 0
        /\ invalid = 0 => shownInvalid = 0 \/ "blank_action" \in refused

IInv == /\ TypeOK
        /\ Opening
        /\ CountsBounded
        /\ HeaderKept
        /\ StreamingAgreesWithConfirm
        /\ ValidFileRefusals
        /\ CleanPreviewRefusals
        /\ PreviewAgrees
        /\ PreviewAgreesWithValidation

USE DEF Csv, Fits, When, One, preview, stream

-----------------------------------------------------------------------------
\* The confirmation and the run find a fault in the same rows of a CSV file that
\* no mapping renames.
LEMMA ConfirmMatchesStream ==
    ASSUME Configuration, Csv, ~file.mapped,
           NEW r \in Rows, r.object, NEW has \in BOOLEAN
    PROVE  ConfirmErrors(r, has) = {} <=> StreamErrors(r, has) = {}
BY DEF Configuration, CsvFiles, JsonFiles, Rows, ConfirmErrors, StreamErrors, RowErrors,
       DeleteErrors, Available, ColumnOf

\* A row of a CSV file that the run finds valid is refused for these reasons only.
LEMMA StreamKnowsRefusals ==
    ASSUME Configuration, Csv, NEW r \in Rows, r.object, r.column = file.column,
           NEW has \in BOOLEAN, StreamErrors(r, has) = {}
    PROVE  /\ Refused(r, has) \subseteq {"blank_action", "update_key", "column", "delete_key"}
           /\ "column" \in Refused(r, has) => ~Available(file.column, file.mapped)
           /\ "delete_key" \in Refused(r, has) => file.matchOn # "external_id"
BY DEF Configuration, CsvFiles, JsonFiles, Rows, Refused, StreamErrors, RowErrors, DeleteErrors,
       Available, ColumnOf

\* A record that the preview finds valid is refused for these reasons only.
LEMMA PreviewKnowsRefusals ==
    ASSUME Configuration, NEW r \in Rows, NEW has \in BOOLEAN, PreviewErrors(r, has) = {}
    PROVE  /\ Refused(r, has) \subseteq {"column", "update_key", "delete_key"}
           /\ "delete_key" \in Refused(r, has) => file.matchOn # "external_id"
BY DEF Configuration, CsvFiles, JsonFiles, Rows, Refused, PreviewErrors, RowErrors, DeleteErrors,
       Available, ColumnOf

\* The preview and the run find a fault in the same rows, but for empty actions.
LEMMA PreviewMatchesStream ==
    ASSUME Configuration, NEW r \in Rows, r.object, NEW has \in BOOLEAN
    PROVE  /\ PreviewErrors(r, has) = {} => StreamErrors(r, has) = {}
           /\ StreamErrors(r, has) = {} =>
                PreviewErrors(r, has) = {} \/ "blank_action" \in Refused(r, has)
BY DEF Configuration, CsvFiles, JsonFiles, Rows, Refused, PreviewErrors, StreamErrors, RowErrors,
       DeleteErrors, Available, ColumnOf

\* The errors and the reasons are of the kinds the module names.
LEMMA KindsOfRow ==
    ASSUME NEW r, NEW has
    PROVE  /\ ConfirmErrors(r, has) \subseteq Errors
           /\ Refused(r, has) \subseteq Refusals
BY DEF ConfirmErrors, Refused, RowErrors, DeleteErrors, Errors, Refusals

-----------------------------------------------------------------------------
LEMMA InitInv == Init => IInv
<1> SUFFICES ASSUME Init PROVE IInv OBVIOUS
<1> USE DEF Init
<1>1. MaxRows \in Nat \ {0} BY Assumption
<1>2. TypeOK
  <2>1. 0 \in 0..MaxRows /\ 0 \in 0..(MaxRows + 1) BY <1>1
  <2> QED BY <2>1 DEF TypeOK
<1>3. Opening /\ CountsBounded /\ HeaderKept BY DEF Opening, CountsBounded, HeaderKept
<1>4. StreamingAgreesWithConfirm /\ ValidFileRefusals /\ CleanPreviewRefusals
  BY DEF StreamingAgreesWithConfirm, ValidFileRefusals, CleanPreviewRefusals
<1>5. PreviewAgrees /\ PreviewAgreesWithValidation
  BY DEF PreviewAgrees, PreviewAgreesWithValidation
<1> QED BY <1>2, <1>3, <1>4, <1>5 DEF IInv

\* The steps that read no row.
LEMMA HeaderInv == IInv /\ (NoHeader \/ Header \/ OpenJson) => IInv'
<1> SUFFICES ASSUME IInv, NoHeader \/ Header \/ OpenJson PROVE IInv' OBVIOUS
<1> USE DEF IInv
<1>0. MaxRows \in Nat \ {0} BY Assumption
<1>1. CASE NoHeader
  <2> USE <1>1 DEF NoHeader, Opening
  <2>1. TypeOK' BY <1>0 DEF TypeOK, Errors
  <2>2. Opening' /\ CountsBounded' /\ HeaderKept' BY DEF CountsBounded, HeaderKept
  <2>3. StreamingAgreesWithConfirm' /\ ValidFileRefusals' /\ CleanPreviewRefusals'
    BY DEF StreamingAgreesWithConfirm, ValidFileRefusals, CleanPreviewRefusals
  <2>4. PreviewAgrees' /\ PreviewAgreesWithValidation'
    BY DEF PreviewAgrees, PreviewAgreesWithValidation, TypeOK
  <2> QED BY <2>1, <2>2, <2>3, <2>4
<1>2. CASE Header
  <2> USE <1>2 DEF Header, Opening
  <2>1. file \in CsvFiles BY DEF TypeOK, CsvFiles, JsonFiles
  <2>2. TypeOK'
    <3>1. confirm' \in SUBSET Errors BY DEF Errors
    <3>2. invalid' \in 0..(MaxRows + 1) BY <1>0
    <3>3. acts' \in BOOLEAN /\ raised' \in BOOLEAN BY <2>1 DEF CsvFiles
    <3> QED BY <3>1, <3>2, <3>3 DEF TypeOK
  <2>3. Opening' /\ CountsBounded' /\ HeaderKept' BY <2>1 DEF CountsBounded, HeaderKept, CsvFiles
  <2>4. StreamingAgreesWithConfirm'
    <3> SUFFICES ASSUME ~file.mapped, Fits
                 PROVE  confirm' = {} <=> invalid' = 0
      BY DEF StreamingAgreesWithConfirm
    <3>1. file.mapped = FALSE BY <2>1 DEF CsvFiles
    <3>2. confirm' = When(~file.acts /\ ~Available(file.column, FALSE), "columns") OBVIOUS
    <3>3. CASE ~file.acts /\ ~Available(file.column, FALSE)
      <4>1. confirm' = {"columns"} BY <3>2, <3>3
      <4>2. invalid' = 1 BY <3>1, <3>3
      <4>3. confirm' # {} BY <4>1
      <4>4. invalid' # 0 BY <4>2
      <4> QED BY <4>3, <4>4, Zenon
    <3>4. CASE ~(~file.acts /\ ~Available(file.column, FALSE)) BY <3>1, <3>2, <3>4
    <3> QED BY <3>3, <3>4
  <2>5. ValidFileRefusals' /\ CleanPreviewRefusals' BY DEF ValidFileRefusals, CleanPreviewRefusals
  <2>6. PreviewAgrees' /\ PreviewAgreesWithValidation'
    BY <2>1 DEF PreviewAgrees, PreviewAgreesWithValidation, CsvFiles
  <2> QED BY <2>2, <2>3, <2>4, <2>5, <2>6
<1>3. CASE OpenJson
  <2> USE <1>3 DEF OpenJson, Opening
  <2>1. TypeOK' BY <1>0 DEF TypeOK, Errors
  <2>2. Opening' /\ CountsBounded' /\ HeaderKept' BY DEF CountsBounded, HeaderKept
  <2>3. StreamingAgreesWithConfirm' /\ ValidFileRefusals' /\ CleanPreviewRefusals'
    BY DEF StreamingAgreesWithConfirm, ValidFileRefusals, CleanPreviewRefusals
  <2>4. PreviewAgrees' /\ PreviewAgreesWithValidation'
    BY DEF PreviewAgrees, PreviewAgreesWithValidation
  <2> QED BY <2>1, <2>2, <2>3, <2>4
<1> QED BY <1>1, <1>2, <1>3

LEMMA EndInv == IInv /\ (Unreadable \/ EndOfFile) => IInv'
<1> SUFFICES ASSUME IInv, Unreadable \/ EndOfFile PROVE IInv' OBVIOUS
<1> USE DEF IInv
<1>0. MaxRows \in Nat \ {0} BY Assumption
<1>1. CASE Unreadable
  <2> USE <1>1 DEF Unreadable
  <2>1. TypeOK' BY <1>0 DEF TypeOK, Errors
  <2>2. Opening' /\ HeaderKept' BY DEF Opening, HeaderKept
  <2>3. CountsBounded' BY DEF CountsBounded, TypeOK
  <2>4. StreamingAgreesWithConfirm' /\ CleanPreviewRefusals' /\ PreviewAgrees'
        /\ PreviewAgreesWithValidation'
    BY DEF StreamingAgreesWithConfirm, CleanPreviewRefusals, PreviewAgrees,
           PreviewAgreesWithValidation, TypeOK
  <2>5. ValidFileRefusals' BY DEF ValidFileRefusals
  <2> QED BY <2>1, <2>2, <2>3, <2>4, <2>5
<1>2. CASE EndOfFile
  <2> USE <1>2 DEF EndOfFile
  <2>1. invalid \in Nat /\ rows \in Nat BY DEF TypeOK
  <2>2. TypeOK' BY <1>0 DEF TypeOK, Errors, CountsBounded
  <2>3. Opening' /\ HeaderKept' BY DEF Opening, HeaderKept
  <2>4. StreamingAgreesWithConfirm'
    BY <2>1 DEF StreamingAgreesWithConfirm, TypeOK
  <2>5. ValidFileRefusals' /\ CleanPreviewRefusals'
    BY <2>1 DEF ValidFileRefusals, CleanPreviewRefusals, TypeOK
  <2>6. PreviewAgrees' BY DEF PreviewAgrees
  <2>7. PreviewAgreesWithValidation'
    BY <2>1 DEF PreviewAgreesWithValidation, PreviewAgrees, TypeOK
  <2>8. CountsBounded'
    BY <2>1 DEF CountsBounded, TypeOK
  <2> QED BY <2>2, <2>3, <2>4, <2>5, <2>6, <2>7, <2>8
<1> QED BY <1>1, <1>2

\* A row is read: the lemmas above give the verdicts on it.
LEMMA ReadRowInv == ASSUME IInv, NEW r \in NextRows, ReadRow(r) PROVE IInv'
<1> USE DEF IInv
<1> DEFINE has == HasActions(r)
<1>0. MaxRows \in Nat \ {0} BY Assumption
<1>1. /\ phase = "reading" /\ phase' = "reading" /\ file' = file /\ raised' = raised
      /\ rows \in Nat /\ rows < MaxRows /\ rows' = rows + 1 /\ rows' \in 0..MaxRows
  BY <1>0 DEF ReadRow, TypeOK
<1>2. Configuration BY DEF Configuration, TypeOK
<1>3. r \in Rows /\ (Csv => r.object /\ r.column = file.column) BY DEF NextRows
<1>4. acts' = has /\ has \in BOOLEAN
  BY <1>3 DEF ReadRow, HasActions, TypeOK, Rows
<1>5. /\ confirm' = IF ~Fits THEN confirm ELSE confirm \union ConfirmErrors(r, has)
      /\ shownValid' = shownValid + One(~raised /\ PreviewErrors(r, has) = {})
      /\ shownInvalid' = shownInvalid + One(~raised /\ PreviewErrors(r, has) # {})
      /\ total' = total + One(Csv)
      /\ valid' = valid + One(Csv /\ StreamErrors(r, has) = {})
      /\ invalid' = invalid + One(Csv /\ StreamErrors(r, has) # {})
      /\ refused' = refused \union Refused(r, has)
  BY <1>4 DEF ReadRow
<1>6. Csv => has = acts BY DEF HasActions
<1> HIDE DEF has
<1>7. CountsBounded'
  BY <1>1, <1>5 DEF CountsBounded, TypeOK
<1>8. TypeOK'
  <2>1. confirm' \subseteq Errors /\ refused' \subseteq Refusals
    BY <1>5, KindsOfRow DEF TypeOK
  <2>2. /\ shownValid' \in Nat /\ shownInvalid' \in Nat
        /\ total' \in Nat /\ valid' \in Nat /\ invalid' \in Nat
    BY <1>5 DEF TypeOK
  <2>3. /\ shownValid' \in 0..MaxRows /\ shownInvalid' \in 0..MaxRows
        /\ total' \in 0..MaxRows /\ valid' \in 0..MaxRows /\ invalid' \in 0..(MaxRows + 1)
    BY <2>2, <1>0, <1>1, <1>7 DEF CountsBounded
  <2> QED BY <2>1, <2>3, <1>1, <1>4 DEF TypeOK
<1>9. Opening' /\ PreviewAgreesWithValidation'
  BY <1>1 DEF Opening, PreviewAgreesWithValidation
<1>10. HeaderKept'
  BY <1>1, <1>4, <1>5, <1>6 DEF HeaderKept, TypeOK
<1>11. StreamingAgreesWithConfirm'
  <2> SUFFICES ASSUME Csv, ~file.mapped, Fits
               PROVE  confirm' = {} <=> invalid' = 0
    BY <1>1 DEF StreamingAgreesWithConfirm
  <2>1. ConfirmErrors(r, has) = {} <=> StreamErrors(r, has) = {}
    BY <1>2, <1>3, <1>4, ConfirmMatchesStream
  <2> QED BY <2>1, <1>5 DEF StreamingAgreesWithConfirm, TypeOK
<1>12. ValidFileRefusals'
  <2> SUFFICES ASSUME Csv, invalid' = 0
               PROVE  /\ refused' \subseteq {"blank_action", "update_key", "column", "delete_key"}
                      /\ "column" \in refused' => acts'
                      /\ "delete_key" \in refused' => file.matchOn # "external_id"
    BY <1>1 DEF ValidFileRefusals
  <2>1. invalid = 0 /\ StreamErrors(r, has) = {} BY <1>5 DEF TypeOK
  <2>2. acts \/ Available(file.column, file.mapped) BY <2>1, <1>1 DEF HeaderKept
  <2> QED BY <2>1, <2>2, <1>1, <1>2, <1>3, <1>4, <1>5, <1>6, StreamKnowsRefusals
          DEF ValidFileRefusals
<1>13. CleanPreviewRefusals'
  <2> SUFFICES ASSUME ~raised, shownInvalid' = 0
               PROVE  /\ refused' \subseteq {"column", "update_key", "delete_key"}
                      /\ "delete_key" \in refused' => file.matchOn # "external_id"
    BY <1>1 DEF CleanPreviewRefusals
  <2>1. shownInvalid = 0 /\ PreviewErrors(r, has) = {} BY <1>5 DEF TypeOK
  <2> QED BY <2>1, <1>2, <1>3, <1>4, <1>5, PreviewKnowsRefusals DEF CleanPreviewRefusals
<1>14. PreviewAgrees'
  <2> SUFFICES ASSUME Csv, ~raised
               PROVE  /\ shownInvalid' = 0 /\ (acts \/ Available(file.column, file.mapped))
                           => invalid' = 0
                      /\ invalid' = 0 => shownInvalid' = 0 \/ "blank_action" \in refused'
    BY <1>1, <1>4, <1>6 DEF PreviewAgrees
  <2>1. /\ PreviewErrors(r, has) = {} => StreamErrors(r, has) = {}
        /\ StreamErrors(r, has) = {} =>
             PreviewErrors(r, has) = {} \/ "blank_action" \in Refused(r, has)
    BY <1>2, <1>3, <1>4, PreviewMatchesStream
  <2> QED BY <2>1, <1>1, <1>5 DEF PreviewAgrees, TypeOK
<1> QED BY <1>7, <1>8, <1>9, <1>10, <1>11, <1>12, <1>13, <1>14

-----------------------------------------------------------------------------
\* IInv is an invariant: after every row the readers stand as it says.
THEOREM Inductive == Spec => []IInv
<1>1. IInv /\ [Next]_vars => IInv'
  <2> SUFFICES ASSUME IInv, [Next]_vars PROVE IInv' OBVIOUS
  <2>1. CASE Next BY <2>1, HeaderInv, EndInv, ReadRowInv DEF Next
  <2>2. CASE UNCHANGED vars
    BY <2>2 DEF IInv, TypeOK, Opening, CountsBounded, HeaderKept, StreamingAgreesWithConfirm,
                ValidFileRefusals, CleanPreviewRefusals, PreviewAgrees,
                PreviewAgreesWithValidation, vars
  <2> QED BY <2>1, <2>2
<1> QED BY InitInv, <1>1, PTL DEF Spec

\* The state has the shape the readers give it, whatever the length of the file.
THEOREM TypeCorrect == Spec => []TypeOK
BY Inductive, PTL DEF IInv

\* Confirmation and run accept the same CSV files of an allowed size when no
\* mapping is configured.
THEOREM SameVerdict == Spec => []StreamingAgreesWithConfirm
BY Inductive, PTL DEF IInv

\* What is left to refuse in a CSV file that the run found valid.
THEOREM LeftToRefuse == Spec => []ValidFileRefusals
BY Inductive, PTL DEF IInv

\* What is left to refuse in a file whose preview marks no record.
THEOREM LeftAfterPreview == Spec => []CleanPreviewRefusals
BY Inductive, PTL DEF IInv

\* A clean preview is a promise the validation of the run keeps.
THEOREM PreviewKept == Spec => []PreviewAgreesWithValidation
BY Inductive, PTL DEF IInv

=============================================================================

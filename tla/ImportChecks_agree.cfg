SPECIFICATION Spec
CONSTANT MaxRows = 3
CHECK_DEADLOCK FALSE
INVARIANTS TypeOK StreamingAgreesWithConfirm ValidFileRefusals CleanPreviewRefusals PreviewAgreesWithValidation

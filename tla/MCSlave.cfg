\* Two slaves, three batches, every answer of the web.
SPECIFICATION Spec
CONSTANTS
  Slaves = {1, 2}
  Urls <- MCUrls
  Slashless <- MCSlashless
  ConfVersion <- MCVersion
  WebAnswers = {"noname", "noaddress", "unreachable", "page", "error", "torn"}
  Batches <- MCBatches
INVARIANTS
  TypeOK
  SuccessNeedsAPage
  GrabbedOnce

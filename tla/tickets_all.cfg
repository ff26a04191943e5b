SPECIFICATION Spec
CONSTANTS
  Requests = {r1, r2}
  Files = {f1, f2, f3}
  Ops = {"upload_ticket", "replace_file", "delete_file"}
  None = None
PROPERTIES OnlyDeleteFileDangles OrphansHaveACause
CHECK_DEADLOCK FALSE

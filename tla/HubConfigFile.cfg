\* Three processes; one field that must not be empty, like the type of the hub, and
\* one that may, like its name.
CONSTANTS
  Procs = {p1, p2, p3}
  Fields = {"type", "name"}
  Required = {"type"}
  Values = {"v", "w"}
  Blank = ""
  Default = "default"
  None = None
  Absent = Absent
  Empty = Empty
  Torn = Torn
  Start = Start
SPECIFICATION Spec
INVARIANTS SettledSurvives UnreadableHasCause
PROPERTIES UnreadableIsKept

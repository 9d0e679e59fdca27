SPECIFICATION Spec
CONSTANTS
  c1 = c1
  c2 = c2
  None = None
  Cluster = {c1, c2}
  Answers <- MCAnswers
  Exporters <- MCExporters
  Failures <- MCFailures
CHECK_DEADLOCK FALSE
INVARIANT CreationTimesRecorded

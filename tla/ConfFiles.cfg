SPECIFICATION Spec
CONSTANTS
  Sym = {"libstdcpp", "java", "sjlj"}
  New = {"sjlj"}
  MaxEdits = 3
  MaxStops = 1
INVARIANTS TypeOK AutoMarks ConfigKept SecondRunCurrent
CHECK_DEADLOCK FALSE

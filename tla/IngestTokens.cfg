SPECIFICATION Spec
CONSTANTS
    s1 = s1  s2 = s2  s3 = s3  s4 = s4  s5 = s5
    t1 = t1  t2 = t2
    n1 = n1  n2 = n2  e1 = e1  none = none
    email = email  name = name
    Sources = {s1, s2, s3, s4, s5}
    Topics = {t1, t2}
    Values = {n1, n2, e1}
    NoValue = none
    Classes = {email, name}
    ClassOf <- MCClassOf
    Log <- MCLog
    Redact = {TRUE}
    Dedupe = {TRUE}
    Synthetic = {FALSE}
    MaxRuns = 2
    MaxCrashes = 0
INVARIANTS
    TokenMeansOneValue

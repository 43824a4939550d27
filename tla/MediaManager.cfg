SPECIFICATION Spec
CONSTANTS
    a = a
    a2 = a2
    b = b
    c1 = c1
    c2 = c2
    u1 = u1
    u2 = u2
    p1 = p1
    t1 = t1
    Procs = {c1, c2}
    Users = {u1, u2}
    Media = {a, a2, b}
    HashOf <- Hashing
    Posts = {p1}
    Author <- WriterIsU2
    Themes = {t1}
    Owner <- EditorIsU1
    Uploads <- TestUploads
    Bodies <- TestBodies
    Quota = 2
    MaxRevisions = 2
SYMMETRY Tasks
INVARIANT RowHasFile
INVARIANT UnnamedFilesAreLeaks
INVARIANT NoWaitCycle
PROPERTY NamedFilesStay

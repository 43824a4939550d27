SPECIFICATION CancelSpec
CONSTANTS
    a = a  c1 = c1  c2 = c2  u1 = u1
    Procs = {c1, c2}
    Users = {u1}
    Media = {a}
    HashOf <- OneHash
    Posts = {}
    Author <- NoAuthors
    Themes = {}
    Owner <- NoAuthors
    Uploads <- OwnerUploads
    Bodies = {}
    Quota = 1
    MaxRevisions = 0
INVARIANTS RowHasFile

CONSTANTS
    Thread = {t1, t2}
    Content = {public, private, nothing}
    NoFiles = nothing
    NoPage = NoPage
    Mark = {m1, m2}
    NoMark = NoMark
    NoFile = NoFile
    NoCopy = NoCopy
SYMMETRY Symmetry
SPECIFICATION Spec
INVARIANTS TypeOK PageCoherent CopyCurrent NoOrphanCopy

\* Two threads load documents while two others look the variables up, with a
\* default or without, and add, delete and clear listeners.
SPECIFICATION Spec
CONSTANTS
    l1 = l1  l2 = l2  c1 = c1  c2 = c2
    Loaders = {l1, l2}
    Clients = {c1, c2}
    Names <- MCNames
    Keys = {"tcp", "port", "size", "TCP"}
    LegalKeys = {"tcp", "port", "size"}
    TypeOf <- MCTypeOf
    Values = {1, 2}
    Default = 1
    Junk = Junk
    Docs <- MCDocs
    MaxLoads = 2
    MaxAdds = 2
    MaxLookups = 3
SYMMETRY Symmetric
INVARIANTS OneVariable ListenersKept CallsAreStable Informed
PROPERTIES Loaded

\* Two documents of up to two entries with up to two paragraphs, three in all, two runs,
\* one throw, and a search for two points.
CONSTANTS
    Docs = {d1, d2}
    Importers = {h1, h2}
    NoDoc = NoDoc
    Limit = 2
    MaxEntries = 2
    MaxParagraphs = 2
    MaxText = 3
    MaxFailures = 1
SYMMETRY Symmetry
SPECIFICATION Spec
PROPERTY ImplementsImport
INVARIANTS TypeOK ReadingOrder PartsAreDisturbed RepeatsAreDisturbed CleanChatIsFull
\* Every document is imported at last.
CHECK_DEADLOCK FALSE

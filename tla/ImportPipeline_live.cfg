\* Two hosts, two readable documents, an unreadable one and a refused one, a page smaller
\* than the queue, one crash: what can be found, and what keeps a readable job waiting?
\* Nobody has to upload the unreadable file, so the behaviours without it are among
\* those checked.
CONSTANTS
    Jobs = {doc, doc2, pdf, huge}
    Hosts = {h1, h2}
    NoJob = NoJob
    Refused = {huge}
    Unreadable = {pdf}
    PageSize = 2
    MaxFailures = 0
    MaxCrashes = 1
SPECIFICATION FairSpec
INVARIANT IndexedHasJob
PROPERTY OnlyUnreadableStarves

SPECIFICATION FairWikiSpec
CONSTANTS
    s1 = s1
    s2 = s2
    Docs = {1, 2}
    Slugs = {s1, s2}
    MaxPages = 2
    MaxIncidents = 2
INVARIANTS IndexedIsFresh NotedOnce NotesKept
PROPERTIES LogsGetIndexed
CONSTRAINT Explored

\* Two clients, two source ids, details and files, up to two outreach rows:
\* a source id can be uploaded twice, and a client can hold a stale list, and
\* a row may be created with its file already processed.
CONSTANTS
    c1 = c1
    c2 = c2
    s1 = s1
    s2 = s2
    d1 = d1
    d2 = d2
    f1 = f1
    f2 = f2
    None = None
    Clients <- MCClients
    SourceIds <- MCSourceIds
    Details <- MCDetails
    Files <- MCFiles
    MaxOutreaches = 2
SPECIFICATION Spec
PROPERTY ImplementsOutreachLog

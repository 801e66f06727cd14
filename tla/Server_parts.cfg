\* Every smaller component by itself: two handlers, drops and restarts.
CONSTANTS
    Requests = {r1, r2}
    None = None
    Parts = {"system", "maps", "tags", "categories", "pages", "installs", "logins",
             "plugins", "limiter", "attachments", "guests", "lists", "index", "patch"}
    a = a  ab = ab  v1 = v1  v2 = v2
    Keys = {1, 2, 3, 4, 5}
    Values = {v1, v2}
    Junk = {v2}
    Maps = {a, ab}
    System = System
    Form = Form
    KeysOf <- MapKeys
    TitleKey = 5
    BasicKey = 1
    Untitled = Untitled
    Payloads <- FewPayloads
    Tag = Tag
    Category = Category
    t1 = t1  t2 = t2
    TermNames = {t1, t2}
    TermSlugs = {t1, t2}
    SlugOf <- OwnName
    Tagged = {i1}
    Saves <- FewSaves
    g1 = g1  g2 = g2  x1 = x1  x2 = x2  p1 = p1  p2 = p2
    PageNames = {p1, p2}
    PageSlugs = {g1, g2}
    Texts = {x1, x2}
    Changes <- FewChanges
    MaxVisits = 2
    n1 = n1  n2 = n2  w1 = w1  k1 = k1  k2 = k2
    UserNames = {n1, n2}
    Passwords = {w1, w2}
    Tokens = {k1, k2}
    q1 = q1  q2 = q2  m1 = m1
    PluginNames = {q1, q2}
    Modules = {m1}
    Compiles = {m1}
    Placeholder = Placeholder
    Methods = {"GET", "POST"}
    Manifests <- FewManifests
    c1 = c1  c2 = c2
    Clients = {c1, c2}
    Limit = 2
    Period = 2
    IdlePeriods = 2
    Room = 1
    Wait = 1
    MaxTime = 4
    f1 = f1  f2 = f2  pic = pic  thumb = thumb  broken = broken  twin = twin
    h1 = h1  h2 = h2  h3 = h3  nogroup = nogroup  dot = dot
    FileNames = {f1, f2}
    Groups = {nogroup, dot}
    NoGroup = nogroup
    Dot = dot
    Encoded = Encoded
    Contents = {pic, thumb, broken, twin}
    Hashes = {h1, h2, h3}
    HashOf <- FewHashes
    Images = {pic, broken}
    ThumbOf <- Thumb
    ThumbName <- ThumbFile
    Uploads <- FewUploads
    Months = 2
    Guests = {l1, l2, l3}
    KvCapable = {l1, l2}
    KvKeys = {e1}
    Lengths = {0, 2, 3}
    PageSize = 2
    Word = 10
    OwnPages = 1
    MaxPages = 5
    u1 = u1
    Names = {o1}
    Slugs = {s1}
    Bodies = {b1}
    Visibilities = {"PUBLIC", "PRIVATE"}
    Users = {u1, u2}
    UserOf <- OneUser
    Sent = {"touch", "publish", "purge"}
    Own = Own
    Gvks = {k0}
    EntryNames = {j1, j2, j3}
    Labels = {"yes"}
    SmallSort = 2
    Fields <- FewFields
    Indexed <- FewIndexed
    Queries <- FewQueries
    Heads = {head}
    word = word
    Words = {word}
    Blank = Blank
    Pieces <- FewPieces
    MaxTokens = 3
SYMMETRY PartsSymmetry
VIEW PartsView
SPECIFICATION PartsSpec
INVARIANTS
    PartsTypeOK
    SiteShowsWhatIsStored
    MapIsOnePut
    SlugLeadsToItsTerm
    TermsAreWhatWasSaved
    PageIsTheLastEdit
    VisitsAreCounted
    PublishedPagesAreStamped
    InstalledOnceAndWhole
    ChosenPasswordStays
    LoadedIsOnDisk
    MethodsAreDeclared
    AtMostTwiceTheLimit
    UrlsLeadToTheirFiles
    HandedOverApart
    OwnValuesOnly
    ShownToItsReaders
    UpsertsAreKept
    PagesCoverTheList
    RoundTrips
PROPERTIES
    SessionsAreEarned
CHECK_DEADLOCK FALSE

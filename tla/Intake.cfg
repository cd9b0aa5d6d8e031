SPECIFICATION Spec
CONSTANTS
    m1 = m1
    card = card
    padded = padded
    phone = phone
    mail = mail
    t1 = t1
    t2 = t2
    p1 = p1
    p2 = p2
    Clients = {c1, c2}
    Members = {m1, m2}
    NoMember = NoMember
    Externals = {card, padded, Empty}
    Empty = Empty
    Trimmed <- MCTrimmed
    Identifiers = {phone, mail}
    Blank = Blank
    Transactions = {t1, t2}
    Generated = {g1}
    NoTransaction = NoTransaction
    Customers <- MCCustomers
    Bodies <- MCBodies
SYMMETRY Symmetry
INVARIANTS
    TypeOK
    RepliesTellTheEvent
    ReplayAccepted
    KnownCustomerNotDuplicated
PROPERTIES
    WrittenOnce
